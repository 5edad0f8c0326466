------------------------------ MODULE RoomFeed ------------------------------
(***************************************************************************)
(* What the realtime room of a streamer promises to the overlays that hold *)
(* a line to it: an event is sent out once at most, under the next number, *)
(* and a line that stays up carries every number since its welcome.  An    *)
(* event may be given up, with or without a number, when the room stops:   *)
(* then no line ever carries it.                                           *)
(***************************************************************************)
EXTENDS Naturals, Sequences

CONSTANTS Event,       \* envelopes of committed draws
          Line         \* WebSocket connections of overlays

VARIABLES given,       \* events sent out or given up
          seq,         \* ROOM_SEQ_KEY
          line         \* the connections: up, and the frames sent on them

feed == <<given, seq, line>>

FrameOf(k, n, E) == [kind |-> k, n |-> n, event |-> E]
Frame  == [kind : {"welcome", "gacha", "disabled", "close"},
           n : Nat, event : SUBSET Event]
Down   == [up |-> FALSE, frames |-> <<>>]
Up     == {c \in Line : line[c].up}

Sent(l, f) == [up |-> l.up, frames |-> Append(l.frames, f)]
Closed(l)  == [up |-> FALSE,
               frames |-> Append(l.frames, FrameOf("close", 0, {}))]

\* Lines C are closed; those that were not up do not notice.
CloseAll(C) == [c \in Line |-> IF c \in C /\ line[c].up
                               THEN Closed(line[c]) ELSE line[c]]
Welcomed(c) == [line EXCEPT ![c] =
                  [up |-> TRUE, frames |-> <<FrameOf("welcome", seq, {})>>]]
Noticed == [c \in Line |->
              IF line[c].up
              THEN Closed(Sent(line[c], FrameOf("disabled", 0, {})))
              ELSE line[c]]

\* A line that is too slow, or fails, is closed.
Pushed(n, e, reached) ==
    [c \in Line |-> IF ~line[c].up THEN line[c]
                    ELSE IF c \in reached
                         THEN Sent(line[c], FrameOf("gacha", n, {e}))
                         ELSE Closed(line[c])]

FeedInit == given = {} /\ seq = 0 /\ line = [c \in Line |-> Down]

Open(c) == ~line[c].up /\ line' = Welcomed(c) /\ UNCHANGED <<given, seq>>

FanOut(e, reached) ==
    /\ e \notin given
    /\ given' = given \cup {e} /\ seq' = seq + 1
    /\ line' = Pushed(seq + 1, e, reached)

\* One end of a line goes away.
Hangup(C) == line' = CloseAll(C) /\ UNCHANGED <<given, seq>>

\* The room stops, with an event E it had recorded and not yet sent.
Stop(n, E) ==
    /\ E \subseteq Event \ given
    /\ given' = given \cup E /\ seq' = n
    /\ line' = CloseAll(Line)

\* The switch of the operator: a notice, and the line is closed.
Disable == line' = Noticed /\ UNCHANGED <<given, seq>>

FeedNext ==
    \/ \E c \in Line : Open(c)
    \/ \E e \in Event, reached \in SUBSET Line : FanOut(e, reached)
    \/ \E C \in SUBSET Line : Hangup(C)
    \/ \E n \in {seq, seq + 1}, E \in SUBSET Event : Stop(n, E)
    \/ Disable

FeedSpec == FeedInit /\ [][FeedNext]_feed
=============================================================================
