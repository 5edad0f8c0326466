--------------------------- MODULE OverlayClient ---------------------------
(***************************************************************************)
(* One overlay page in OBS: subscribeToGachaResults.  The history of draws *)
(* is the authority and is polled from a cursor; the room pushes the same  *)
(* draws earlier, unless a publish or a line is lost.  Rows are numbered in*)
(* the order of (redeemed_at, id); the room keeps the promise of RoomFeed. *)
(* Events are deduplicated by id, so a draw is shown once whichever way it *)
(* came first.  The conditions on the clock (floors, backoff, intervals)   *)
(* are left open: a timer may fire at any time, a floor may have passed.   *)
(***************************************************************************)
EXTENDS RoomFeed, FiniteSets, FiniteSetsExt, SequencesExt

CONSTANTS Me,             \* the line of this page
          PageRows,       \* OVERLAY_EVENT_ROW_LIMIT
          Buffer,         \* MAX_BUFFERED_SOCKET_EVENTS
          Trigger,        \* SOCKET_RECONCILIATION_TRIGGER_IDS
          Endpoint,       \* versions of a do-primary config
          Unusable,       \* endpoints for which new WebSocket() throws
          LateCommits,    \* a row may commit after one that is younger
          MaxFaults       \* bound: whatever goes wrong or is switched

VARIABLES
    committed,      \* rows of gacha_history that can be read
    late,           \* history: rows that committed where no poll looks again
    roomOn,         \* the room's allowlist
    srv,            \* what the config endpoint answers
    dead,           \* the line is half-open
    cl,             \* the closure of subscribeToGachaResults
    shown,          \* how often a draw was handed to the page
    due,            \* history: rows a requested recovery has to cover
    faults

rows  == <<committed, late>>
world == <<given, seq, rows, roomOn, srv>>
vars  == <<world, line, dead, cl, shown, due, faults>>

Failures == 3              \* OPEN_FAILURE_SUPPRESSION_THRESHOLD
Timer  == {"poll", "safety", "reconnect", "buffer", "liveness"}
Config == Endpoint \cup {"polling"}
Nothing   == "none"

TypeOK ==
    /\ given \subseteq committed /\ late \subseteq committed
    /\ committed \subseteq Event
    /\ seq \in Nat /\ roomOn \in BOOLEAN /\ srv \in Config
    /\ line \in [Line -> [up : BOOLEAN, frames : Seq(Frame)]]
    /\ dead \in BOOLEAN
    /\ cl \in [timers : SUBSET Timer, poll : {"idle", "asked", "read"},
               page : SUBSET Event, trailing : BOOLEAN,
               cursor : Event \cup {0}, buffer : Seq(Event),
               seen : SUBSET Event, unrec : SUBSET Event, volume : BOOLEAN,
               ws : {Nothing, "connecting", "open"}, lastSeq : Nat \cup {-1},
               cfg : Config \cup {Nothing, "fallback"},
               fetch : {Nothing, "yes", "keep"},
               refused : Config \cup {Nothing}, failures : 0..Failures]
    /\ shown \in [Event -> Nat] /\ due \subseteq Event /\ faults \in 0..MaxFaults

(* Mutant: what was seen is not kept over a reload.                        *)
StartedBlank(cursor, seen) ==
    [timers |-> {}, poll |-> "asked", page |-> {}, trailing |-> FALSE,
     cursor |-> cursor, buffer |-> <<>>, seen |-> {}, unrec |-> {},
     volume |-> FALSE, ws |-> Nothing, lastSeq |-> -1, cfg |-> Nothing,
     fetch |-> "yes", refused |-> Nothing, failures |-> 0]
\* A page that has started: both requests are under way.
Started(cursor, seen) ==
    [timers |-> {}, poll |-> "asked", page |-> {}, trailing |-> FALSE,
     cursor |-> cursor, buffer |-> <<>>, seen |-> seen, unrec |-> {},
     volume |-> FALSE, ws |-> Nothing, lastSeq |-> -1, cfg |-> Nothing,
     fetch |-> "yes", refused |-> Nothing, failures |-> 0]

Init ==
    /\ FeedInit /\ committed = {} /\ late = {}
    /\ roomOn = TRUE /\ srv \in Config /\ dead = FALSE /\ cl = Started(0, {}) /\ shown = [e \in Event |-> 0]
    /\ due = {} /\ faults = 0

IsDo(cfg)  == cfg \in Endpoint
Healthy(c) == IsDo(c.cfg) /\ c.ws = "open"
Fault == faults < MaxFaults /\ faults' = faults + 1
-----------------------------------------------------------------------------
(* The functions of the closure, as functions on it.                       *)
Armed(c, t)   == [c EXCEPT !.timers = @ \cup {t}]
Cleared(c, T) == [c EXCEPT !.timers = @ \ T]

\* requestRecoveryPoll; live frames are held while the buffer timer runs.
Request(c, hold) ==
    LET h == IF hold THEN Armed(c, "buffer") ELSE c
    IN  IF c.poll # "idle" THEN [h EXCEPT !.trailing = TRUE]
        ELSE Armed(h, "poll")

New(c, events) == events \ c.seen

\* ingest, of a polled page and of frames of the room
Polled(c, events) ==
    LET left == c.unrec \ events
    IN  [c EXCEPT !.seen = @ \cup events, !.unrec = left,
                  !.volume = @ /\ (events = {} \/ Cardinality(left) >= Trigger)]
FromRoom(c, events) ==
    [c EXCEPT !.seen = @ \cup events, !.unrec = @ \cup New(c, events)]

\* maybeRequestVolumeReconciliation
Reconciled(c) ==
    IF c.volume \/ Cardinality(c.unrec) < Trigger THEN c
    ELSE Request([c EXCEPT !.volume = TRUE], FALSE)

\* releaseSocketRecoveryBuffer
Released(c) ==
    Reconciled(FromRoom([Cleared(c, {"buffer"}) EXCEPT !.buffer = <<>>],
                       ToSet(c.buffer)))

\* closeSocket
Unplugged(c) ==
    [Cleared(c, {"liveness", "reconnect"}) EXCEPT !.ws = Nothing, !.lastSeq = -1]

\* scheduleReconnect
Retried(c) == IF IsDo(c.cfg) THEN Armed(c, "reconnect") ELSE c

\* connectWebSocket
Connected(c) ==
    IF ~IsDo(c.cfg) THEN c
    ELSE IF c.cfg \in Unusable THEN Retried(Unplugged(c))
    ELSE [Unplugged(c) EXCEPT !.ws = "connecting"]

\* refreshConfig, up to its request
Refreshed(c, how) ==
    IF c.fetch # Nothing THEN c
    ELSE [Cleared(c, {"safety"}) EXCEPT !.fetch = how]

Shown(new) ==
    shown' = [e \in Event |-> IF e \in new THEN shown[e] + 1 ELSE shown[e]]
HungUp == line' = [line EXCEPT ![Me] = Down] /\ dead' = FALSE

\* A recovery that is requested answers for what can be read by now.
Owes == due' = committed
-----------------------------------------------------------------------------
(* The database and the room.                                              *)
\* A row has its place from the start of its transaction: it may commit where
\* the cursor has been, or before a row of a page that was read.
Passed(e) == e <= cl.cursor \/ (cl.poll = "read" /\ \E f \in cl.page : e < f)

Commit(e) ==
    /\ e \in Event \ committed
    /\ LateCommits \/ \A f \in Event : f < e => f \in committed
    /\ committed' = committed \cup {e}
    /\ late' = IF Passed(e) THEN late \cup {e} ELSE late
    /\ UNCHANGED <<feed, roomOn, srv, dead, cl, shown, due, faults>>

\* A publish that fails for good is one that is never made.
Push(e) ==
    /\ e \in committed /\ FanOut(e, {Me})
    /\ UNCHANGED <<rows, roomOn, srv, dead, cl, shown, due, faults>>

PushSlow(e) ==
    /\ e \in committed /\ line[Me].up /\ Fault /\ FanOut(e, {})
    /\ UNCHANGED <<rows, roomOn, srv, dead, cl, shown, due>>

RoomStops ==
    /\ Fault
    /\ \E n \in {seq, seq + 1}, E \in SUBSET committed :
          Cardinality(E) <= 1 /\ Stop(n, E)
    /\ UNCHANGED <<rows, roomOn, srv, dead, cl, shown, due>>

Drops ==
    /\ line[Me].up /\ Fault /\ Hangup({Me})
    /\ UNCHANGED <<rows, roomOn, srv, dead, cl, shown, due>>

Wedges ==
    /\ line[Me].up /\ ~dead /\ Fault /\ dead' = TRUE
    /\ UNCHANGED <<world, line, cl, shown, due>>

RoomAccepts ==
    /\ cl.ws = "connecting" /\ roomOn /\ line[Me] = Down /\ Open(Me)
    /\ UNCHANGED <<rows, roomOn, srv, dead, cl, shown, due, faults>>

RoomDisables ==
    /\ ~roomOn /\ line[Me].up /\ Disable
    /\ UNCHANGED <<rows, roomOn, srv, dead, cl, shown, due, faults>>

RoomSwitches ==
    /\ Fault /\ roomOn' = ~roomOn
    /\ UNCHANGED <<given, seq, rows, srv, line, dead, cl, shown, due>>

ConfigChanges ==
    /\ Fault /\ srv' \in Config \ {srv}
    /\ UNCHANGED <<given, seq, rows, roomOn, line, dead, cl, shown, due>>
-----------------------------------------------------------------------------
(* poll                                                                    *)
PollFires ==
    /\ "poll" \in cl.timers
    /\ cl' = IF cl.poll # "idle"
             THEN [Cleared(cl, {"poll"}) EXCEPT !.trailing = TRUE]
             ELSE [Cleared(cl, {"poll"}) EXCEPT !.poll = "asked"]
    /\ UNCHANGED <<world, line, dead, shown, due, faults>>

\* GET /events: the first committed rows behind the cursor, at most a page.
Behind(c) == {e \in committed : e > c}
Page(c) ==
    {e \in Behind(c) : Cardinality({f \in Behind(c) : f <= e}) <= PageRows}

PollRead ==
    /\ cl.poll = "asked"
    /\ cl' = [cl EXCEPT !.poll = "read", !.page = Page(cl.cursor)]
    /\ UNCHANGED <<world, line, dead, shown, due, faults>>

(* Mutant: a drained poll is taken to be the last one.                     *)
DrainedLast(c, again) ==
    LET quiet == IF "buffer" \in c.timers THEN Released(c) ELSE c
    IN  IF again THEN Armed(c, "poll") ELSE quiet
\* An empty page with nothing asked meanwhile ends a recovery.
Drained(c, again) ==
    LET quiet == IF "buffer" \in c.timers THEN Released(c) ELSE c
    IN  IF again THEN Armed(c, "poll")
        ELSE IF Healthy(quiet) THEN quiet ELSE Armed(quiet, "poll")

Moved(cursor, page) == IF page = {} THEN cursor ELSE Max(page)

PollReply ==
    /\ cl.poll = "read"
    /\ \E notice \in {FALSE, srv # cl.cfg} :
         LET read  == [Polled(cl, cl.page) EXCEPT
                         !.cursor = Moved(@, cl.page),
                         !.poll = "idle", !.page = {}, !.trailing = FALSE]
             told  == IF notice THEN Refreshed(read, "yes") ELSE read
             again == cl.page # {} \/ cl.trailing
         IN  /\ cl' = Drained(told, again)
             /\ Shown(New(cl, cl.page) \cup
                  IF again \/ "buffer" \notin cl.timers THEN {}
                  ELSE New(read, ToSet(cl.buffer)))
    /\ UNCHANGED <<world, line, dead, due, faults>>

PollFails ==
    /\ cl.poll # "idle" /\ Fault
    /\ \E probe \in {FALSE, Healthy(cl)} :
         LET c == Armed([cl EXCEPT !.poll = "idle", !.page = {},
                                   !.trailing = FALSE], "poll")
         IN  cl' = IF probe THEN Refreshed(c, "keep") ELSE c
    /\ UNCHANGED <<world, line, dead, shown, due>>

BufferFires ==
    /\ "buffer" \in cl.timers
    /\ cl' = Released(cl) /\ Shown(New(cl, ToSet(cl.buffer)))
    /\ UNCHANGED <<world, line, dead, due, faults>>
-----------------------------------------------------------------------------
(* The socket.                                                             *)
Opens ==
    /\ cl.ws = "connecting" /\ line[Me] # Down /\ ~dead
    /\ cl' = Request([cl EXCEPT !.ws = "open", !.failures = 0], TRUE)
    /\ Owes /\ UNCHANGED <<world, line, dead, shown, faults>>

First == Head(line[Me].frames)
Arrives(kind) == /\ cl.ws = "open" /\ ~dead /\ line[Me].frames # <<>>
               /\ First.kind = kind
Taken == line' = [line EXCEPT ![Me].frames = Tail(@)] /\ UNCHANGED dead

Welcome ==
    /\ Arrives("welcome") /\ Taken
    /\ cl' = Armed([cl EXCEPT !.lastSeq = First.n], "liveness")
    /\ UNCHANGED <<world, shown, due, faults>>

\* A gap asks for a recovery; during a recovery frames wait in the buffer.
Gap == cl.lastSeq # -1 /\ First.n > cl.lastSeq + 1

Gacha ==
    /\ Arrives("gacha") /\ Taken
    /\ LET e   == CHOOSE e \in First.event : TRUE
           c   == Armed([cl EXCEPT !.lastSeq = First.n], "liveness")
           got == IF Gap THEN Request(c, TRUE) ELSE c
           kept == [got EXCEPT !.buffer = Append(@, e)]
       IN  IF "buffer" \notin got.timers
           THEN /\ cl' = IF e \in cl.seen THEN got
                         ELSE Reconciled(FromRoom(got, {e}))
                /\ Shown(New(cl, {e}))
           ELSE IF Len(kept.buffer) >= Buffer
           THEN cl' = Released(kept) /\ Shown(New(cl, ToSet(kept.buffer)))
           ELSE cl' = kept /\ UNCHANGED shown
    /\ IF Gap THEN Owes ELSE UNCHANGED due
    /\ UNCHANGED <<world, faults>>

Notice ==
    /\ Arrives("disabled") /\ HungUp
    /\ cl' = Refreshed(Request(Unplugged([cl EXCEPT !.refused =
                 IF cl.cfg \in Config THEN cl.cfg ELSE Nothing]), FALSE), "yes")
    /\ Owes /\ UNCHANGED <<world, shown, faults>>

\* onclose does not clear the timers of the socket.
Closes ==
    /\ Arrives("close") /\ HungUp
    /\ cl' = Retried(Request([cl EXCEPT !.ws = Nothing], FALSE))
    /\ Owes /\ UNCHANGED <<world, shown, faults>>

\* The upgrade is refused, or it is not answered within ten seconds.
ConnectFails ==
    /\ cl.ws = "connecting" /\ line[Me] = Down
    /\ IF roomOn THEN Fault ELSE UNCHANGED faults
    /\ LET n == IF cl.failures < Failures THEN cl.failures + 1 ELSE Failures
           c == Request([cl EXCEPT !.ws = Nothing, !.failures = n], FALSE)
       IN  cl' = IF n < Failures THEN Retried(c)
                 ELSE Refreshed([c EXCEPT !.refused =
                        IF cl.cfg \in Config THEN cl.cfg ELSE Nothing], "yes")
    /\ Owes /\ UNCHANGED <<world, line, dead, shown>>

\* No heartbeat came: the line is half-open.
LivenessFires ==
    /\ "liveness" \in cl.timers /\ dead /\ cl.ws # Nothing
    /\ HungUp
    /\ cl' = Retried(Request(Unplugged(cl), FALSE))
    /\ Owes /\ UNCHANGED <<world, shown, faults>>

ReconnectFires ==
    /\ "reconnect" \in cl.timers
    /\ cl' = Connected(Cleared(cl, {"reconnect"}))
    /\ IF IsDo(cl.cfg) THEN HungUp ELSE UNCHANGED <<line, dead>>
    /\ UNCHANGED <<world, shown, due, faults>>
-----------------------------------------------------------------------------
(* The config.                                                             *)
SafetyFires ==
    /\ "safety" \in cl.timers
    /\ cl' = IF cl.refused = Nothing /\ Healthy(cl) THEN Request(cl, FALSE)
             ELSE Refreshed(Cleared(cl, {"safety"}), "yes")
    /\ UNCHANGED <<world, line, dead, shown, due, faults>>

\* A refusal holds for its config, and for five minutes at most.
ConfigReply ==
    /\ cl.fetch # Nothing
    /\ \E expired \in BOOLEAN :
         LET holds == cl.refused = srv /\ ~expired
             c == Armed([cl EXCEPT !.fetch = Nothing, !.cfg = srv,
                           !.refused = IF holds THEN @ ELSE Nothing], "safety")
             asks  == IF IsDo(cl.cfg) THEN Request(c, FALSE) ELSE c
         IN  IF ~IsDo(srv) THEN cl' = Unplugged(asks) /\ HungUp
             ELSE IF holds
             THEN cl' = Request(c, FALSE) /\ UNCHANGED <<line, dead>>
             ELSE IF cl.cfg # srv \/ cl.ws = Nothing
             THEN cl' = Connected(c) /\ HungUp
             ELSE cl' = c /\ UNCHANGED <<line, dead>>
    /\ UNCHANGED <<world, shown, due, faults>>

ConfigFails ==
    /\ cl.fetch # Nothing /\ Fault
    /\ LET c == Armed([cl EXCEPT !.fetch = Nothing], "safety")
           f == Unplugged([c EXCEPT !.cfg = "fallback"])
       IN  IF cl.fetch = "keep" /\ Healthy(cl)
           THEN cl' = c /\ UNCHANGED <<line, dead>>
           ELSE /\ cl' = IF IsDo(cl.cfg) THEN Request(f, FALSE) ELSE f
                /\ HungUp
    /\ UNCHANGED <<world, shown, due>>

\* The page reloads for a new build, with its cursor and what it has seen.
Reload ==
    /\ Fault /\ HungUp
    /\ cl' = Started(cl.cursor, cl.seen) /\ due' = {}
    /\ UNCHANGED <<world, shown>>
-----------------------------------------------------------------------------
Room == \/ \E e \in Event : Push(e) \/ PushSlow(e)
        \/ RoomStops \/ Drops \/ Wedges \/ RoomAccepts \/ RoomDisables
        \/ RoomSwitches \/ ConfigChanges

Polling == PollFires \/ PollRead \/ PollReply \/ PollFails \/ BufferFires

Socket == \/ Opens \/ Welcome \/ Gacha \/ Notice \/ Closes \/ ConnectFails
          \/ LivenessFires \/ ReconnectFires

Next == \/ \E e \in Event : Commit(e)
        \/ Room \/ Polling \/ Socket
        \/ SafetyFires \/ ConfigReply \/ ConfigFails \/ Reload

Spec == Init /\ [][Next]_vars

\* Timers fire, requests are answered, frames arrive.
Fairness ==
    /\ WF_vars(PollFires) /\ WF_vars(PollRead) /\ WF_vars(PollReply)
    /\ WF_vars(BufferFires) /\ WF_vars(SafetyFires) /\ WF_vars(ConfigReply)
    /\ WF_vars(RoomAccepts) /\ WF_vars(~roomOn /\ ConnectFails)
    /\ WF_vars(Opens) /\ WF_vars(Welcome) /\ WF_vars(Gacha)
    /\ WF_vars(Notice) /\ WF_vars(Closes)
    /\ WF_vars(LivenessFires) /\ WF_vars(ReconnectFires)
-----------------------------------------------------------------------------
(* A draw is shown once at most, however often the room, the history, the  *)
(* recovery buffer and a reload bring it (ingest, rememberSeenId).         *)
ShownOnce == \A e \in Event : shown[e] <= 1

(* The cursor passes no row that could be read and was not shown: a frame  *)
(* of the room does not move it, only an answer of /events does (poll,     *)
(* "gapless publish failure").  A row behind the cursor is never read      *)
(* again: only one that committed there may stay unshown.                  *)
NoneBehindCursor == \A e \in committed \ late : e <= cl.cursor => shown[e] > 0

(* Once a recovery that a new line, a lost line or a gap asked for is over,*)
(* every draw that could be read when it was asked for has been shown,     *)
(* unless it had committed behind the cursor: a request made while a poll  *)
(* was under way is not lost (recoveryPollPending, the trailing pass).     *)
RecoveryCovers ==
    cl.poll = "idle" /\ "poll" \notin cl.timers =>
        \A e \in due \ late : shown[e] > 0

(* Whatever is lost on the way, every committed draw is shown in the end.  *)
EveryDrawShown ==
    \A e \in Event : e \in committed ~> shown[e] > 0
=============================================================================
