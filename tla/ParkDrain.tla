------------------------------ MODULE ParkDrain ------------------------------
(***************************************************************************)
(* The drain of the notifications that were parked during maintenance: the *)
(* replay route, which takes the oldest entries up to a limit and a        *)
(* deadline, and its two callers, the cron worker, which sends one batch   *)
(* without a cursor every twenty minutes, and the operator's script, which *)
(* follows the cursor to the end.  What handling an entry does is          *)
(* Redemption's subject; here an entry has a fate: it is sound, its event  *)
(* is damaged, its type is unknown to the replay, or its handling fails    *)
(* for ever (a raid into a pack without cards).  Entries are numbered by   *)
(* the time they were received.                                            *)
(***************************************************************************)
EXTENDS Naturals, FiniteSets

CONSTANTS Limit,                               \* entries of a batch
          MaxEntries, MaxOdd, MaxSwitch, MaxSlow, MaxFaults     \* bounds

VARIABLES kv,                 \* parked entries
          parked,             \* history: entries 1..parked were parked
          fate,               \* what becomes of an entry that is handled
          done,               \* entries that were handled
          aged,               \* entries 1..aged are over ten minutes old
          mode,               \* maintenance mode
          call,               \* the requests of the two callers
          due,                \* history: entries the script found
          cut,                \* history: entries its requests passed unseen
          switches, slow, faults

vars == <<kv, parked, fate, done, aged, mode, call, due, cut, switches,
          slow, faults>>

Caller == {"cron", "script"}
Entry  == 1..MaxEntries
Fate   == {"sound", "damaged", "unknown", "failing"}
Idle   == [at |-> "idle", page |-> {}, cursor |-> 0, complete |-> FALSE,
           failed |-> FALSE]

TypeOK ==
    /\ parked \in 0..MaxEntries /\ kv \subseteq 1..parked
    /\ fate \in [Entry -> Fate] /\ done \subseteq 1..parked
    /\ aged \in 0..parked /\ mode \in {"on", "off"}
    /\ call \in [Caller -> [at : {"idle", "peek", "list", "handle", "end"},
                            page : SUBSET (1..parked),
                            cursor : 0..parked, complete : BOOLEAN,
                            failed : BOOLEAN]]
    /\ \A c \in Caller : Cardinality(call[c].page) <= Limit
    /\ due \subseteq 1..parked /\ cut \subseteq 1..parked
    /\ switches \in 0..MaxSwitch /\ slow \in 0..MaxSlow
    /\ faults \in 0..MaxFaults

Init ==
    /\ kv = {} /\ parked = 0 /\ fate = [e \in Entry |-> "sound"]
    /\ done = {} /\ aged = 0 /\ mode = "on"
    /\ call = [c \in Caller |-> Idle] /\ due = {} /\ cut = {}
    /\ switches = 0 /\ slow = 0 /\ faults = 0

Least(S) == CHOOSE e \in S : \A f \in S : e <= f
Last(S)  == CHOOSE e \in S : \A f \in S : f <= e

Fault == faults < MaxFaults /\ faults' = faults + 1
Slow  == slow < MaxSlow /\ slow' = slow + 1
-----------------------------------------------------------------------------
(* The webhook parks whatever comes while maintenance is on.               *)
Park ==
    /\ mode = "on" /\ parked < MaxEntries
    /\ parked' = parked + 1 /\ kv' = kv \cup {parked'}
    /\ \E f \in Fate :
         /\ f # "sound" => Cardinality({e \in Entry : fate[e] # "sound"}) < MaxOdd
         /\ fate' = [fate EXCEPT ![parked'] = f]
    /\ UNCHANGED <<done, aged, mode, call, due, cut, switches, slow, faults>>

Age ==
    /\ aged < parked /\ aged' = parked
    /\ UNCHANGED <<kv, parked, fate, done, mode, call, due, cut, switches,
                   slow, faults>>

Switch ==
    /\ switches < MaxSwitch /\ switches' = switches + 1
    /\ mode' = IF mode = "on" THEN "off" ELSE "on"
    /\ UNCHANGED <<kv, parked, fate, done, aged, call, due, cut, slow, faults>>
-----------------------------------------------------------------------------
(* The callers.                                                            *)
Tick ==
    /\ call["cron"].at = "idle" /\ mode = "off"
    /\ call' = [call EXCEPT !["cron"].at = "peek"]
    /\ UNCHANGED <<kv, parked, fate, done, aged, mode, due, cut, switches,
                   slow, faults>>

\* The dry run of one entry; a young backlog waits for the next tick.
Peek ==
    /\ call["cron"].at = "peek"
    /\ call' = IF kv # {} /\ Least(kv) <= aged
               THEN [call EXCEPT !["cron"].at = "list"]
               ELSE [call EXCEPT !["cron"] = Idle]
    /\ UNCHANGED <<kv, parked, fate, done, aged, mode, due, cut, switches,
                   slow, faults>>

\* An old notification in the chat outbox takes a young backlog along.
PeekOutbox ==
    /\ call["cron"].at = "peek" /\ Slow
    /\ call' = [call EXCEPT !["cron"].at = "list"]
    /\ UNCHANGED <<kv, parked, fate, done, aged, mode, due, cut, switches,
                   faults>>

Start ==
    /\ call["script"].at = "idle" /\ due = {} /\ kv # {}
    /\ call' = [call EXCEPT !["script"].at = "list"] /\ due' = kv
    /\ UNCHANGED <<kv, parked, fate, done, aged, mode, cut, switches, slow,
                   faults>>

\* A caller's request or its answer fails; the script ends with an error.
CallFails(c) ==
    /\ call[c].at \notin {"idle", "end"} /\ Fault
    /\ call' = [call EXCEPT ![c] = IF c = "cron" THEN Idle
                  ELSE [Idle EXCEPT !.at = "end", !.failed = TRUE]]
    /\ UNCHANGED <<kv, parked, fate, done, aged, mode, due, cut, switches,
                   slow>>
-----------------------------------------------------------------------------
(* POST /api/admin/eventsub-replay.                                        *)
Beyond(k) == {e \in kv : e > k}

First(S, n) == {e \in S : Cardinality({f \in S : f < e}) < n}

(* Mutant: the cursor is an offset into the keys, which have moved up.     *)
PageByOffset(c, n) ==
    First({e \in kv : Cardinality({f \in kv : f < e}) >= call[c].cursor}, n)
Page(c, n) == First(Beyond(call[c].cursor), n)

\* The chat outbox, which comes first, has left room for n entries.
List(c, n) ==
    /\ call[c].at = "list"
    /\ call' = [call EXCEPT ![c].at = "handle", ![c].page = Page(c, n),
                  ![c].cursor = IF Page(c, n) = {} THEN @ ELSE Last(Page(c, n)),
                  ![c].complete = \A e \in Beyond(call[c].cursor) :
                                     Page(c, n) # {} /\ e <= Last(Page(c, n))]
    /\ UNCHANGED <<kv, parked, fate, done, aged, mode, due, cut, switches,
                   faults>>

ListFull(c) == List(c, Limit) /\ UNCHANGED slow
ListPart(c) == Slow /\ \E n \in 1..(Limit - 1) : List(c, n)

\* It used up the limit or the time: the cursor stays.
ListNothing(c) ==
    /\ call[c].at = "list" /\ Slow
    /\ call' = [call EXCEPT ![c].at = "handle", ![c].complete = FALSE]
    /\ UNCHANGED <<kv, parked, fate, done, aged, mode, due, cut, switches,
                   faults>>

Turn(c, e) == call[c].at = "handle" /\ call[c].page # {}
              /\ e = Least(call[c].page)

Passed(c, e) == call' = [call EXCEPT ![c].page = @ \ {e}]
Failed(c, e) == call' = [call EXCEPT ![c].page = @ \ {e}, ![c].failed = TRUE]

\* Of the two callers only the script adds up what its requests left out.
Dropped(c, S) == cut' = IF c = "script" THEN cut \cup S ELSE cut

Handle(c, e) ==
    /\ Turn(c, e) /\ fate[e] = "sound"
    /\ done' = done \cup {e} /\ kv' = kv \ {e} /\ Passed(c, e)
    /\ UNCHANGED <<parked, fate, aged, mode, due, cut, switches, slow, faults>>

\* Handled, but the entry could not be deleted.
HandleKept(c, e) ==
    /\ Turn(c, e) /\ fate[e] = "sound" /\ Fault
    /\ done' = done \cup {e} /\ Passed(c, e)
    /\ UNCHANGED <<kv, parked, fate, aged, mode, due, cut, switches, slow>>

(* A failure that another attempt may cure.                                *)
HandleFails(c, e) ==
    /\ Turn(c, e) /\ fate[e] = "sound" /\ Fault /\ Failed(c, e)
    /\ UNCHANGED <<kv, parked, fate, done, aged, mode, due, cut, switches,
                   slow>>

(* An entry without an event is reported and deleted: no handling ends it. *)
Discard(c, e) ==
    /\ Turn(c, e) /\ fate[e] = "damaged"
    /\ kv' = kv \ {e} /\ Passed(c, e)
    /\ UNCHANGED <<parked, fate, done, aged, mode, due, cut, switches, slow,
                   faults>>

DiscardKept(c, e) ==
    /\ Turn(c, e) /\ fate[e] = "damaged" /\ Fault /\ Passed(c, e)
    /\ UNCHANGED <<kv, parked, fate, done, aged, mode, due, cut, switches,
                   slow>>

(* A type without a handler is only counted, a lasting failure is one of   *)
(* the failures; both stay.                                                *)
Keep(c, e) ==
    /\ Turn(c, e)
    /\ \/ fate[e] = "unknown" /\ Passed(c, e)
       \/ fate[e] = "failing" /\ Failed(c, e)
    /\ UNCHANGED <<kv, parked, fate, done, aged, mode, due, cut, switches,
                   slow, faults>>

\* The deadline passes before an entry: the rest of the page is dropped,
\* though the cursor has moved behind it.
Deadline(c) ==
    /\ call[c].at = "handle" /\ call[c].page # {} /\ Slow
    /\ call' = [call EXCEPT ![c].page = {}] /\ Dropped(c, call[c].page)
    /\ UNCHANGED <<kv, parked, fate, done, aged, mode, due, switches, faults>>

\* It passes while an entry is handled; that goes on without the request.
DeadlineWithin(c, e) ==
    /\ Turn(c, e) /\ fate[e] \in {"sound", "failing"} /\ Slow
    /\ done' \in {done, IF fate[e] = "sound" THEN done \cup {e} ELSE done}
    /\ call' = [call EXCEPT ![c].page = {}, ![c].failed = TRUE]
    /\ Dropped(c, call[c].page)
    /\ UNCHANGED <<kv, parked, fate, aged, mode, due, switches, faults>>

(* Mutant: the cron goes on from the cursor of its last batch.             *)
RespondOnward(c) ==
    /\ call[c].at = "handle" /\ call[c].page = {}
    /\ call' = [call EXCEPT ![c] =
                  IF c = "cron" THEN [Idle EXCEPT !.cursor = call[c].cursor]
                  ELSE [@ EXCEPT !.at = IF call[c].complete
                                        THEN "end" ELSE "list"]]
    /\ UNCHANGED <<kv, parked, fate, done, aged, mode, due, cut, switches,
                   slow, faults>>
Respond(c) ==
    /\ call[c].at = "handle" /\ call[c].page = {}
    /\ call' = [call EXCEPT ![c] =
                  IF c = "cron" THEN Idle
                  ELSE [@ EXCEPT !.at = IF call[c].complete
                                        THEN "end" ELSE "list"]]
    /\ UNCHANGED <<kv, parked, fate, done, aged, mode, due, cut, switches,
                   slow, faults>>

Step(c) ==
    \/ ListFull(c) \/ Respond(c)
    \/ \E e \in Entry : Handle(c, e) \/ Discard(c, e) \/ Keep(c, e)

Next ==
    \/ Park \/ Age \/ Switch \/ Tick \/ Peek \/ PeekOutbox \/ Start
    \/ \E c \in Caller :
         \/ Step(c) \/ CallFails(c) \/ ListPart(c) \/ ListNothing(c)
         \/ Deadline(c)
         \/ \E e \in Entry : \/ HandleKept(c, e) \/ HandleFails(c, e)
                             \/ DiscardKept(c, e) \/ DeadlineWithin(c, e)

Spec == Init /\ [][Next]_vars

(* Time passes, the cron ticks, and its requests are answered.             *)
Fairness ==
    /\ WF_vars(Age) /\ WF_vars(Tick) /\ WF_vars(Peek)
    /\ WF_vars(Step("cron"))

-----------------------------------------------------------------------------
(* An entry is never lost: it leaves the store only when it was handled,   *)
(* whoever fails, is too slow or handles it at the same time, or when it   *)
(* carries no event to handle (route.ts).                                  *)
KeptUntilHandled ==
    \A e \in 1..parked : e \in kv \cup done \/ fate[e] = "damaged"

(* A script that ends without an error has seen every entry it found but   *)
(* those behind a deadline of its requests: each was handled, carried no   *)
(* event, or is of a type nothing handles (replay-maintenance-eventsub.js).*)
ScriptComplete ==
    call["script"].at = "end" /\ ~call["script"].failed
        => \A e \in due \ cut : e \in done \/ fate[e] \in {"damaged", "unknown"}

(* When maintenance is over, the cron alone brings every entry that can be *)
(* ended to its end, whatever calls and requests fail meanwhile, unless as *)
(* many older ones as a batch holds stay for ever.                         *)
Staying(e) == {f \in kv : f < e /\ fate[f] \in {"unknown", "failing"}}

CronDrains ==
    \A e \in Entry :
        /\ e \in kv /\ mode = "off" /\ fate[e] \in {"sound", "damaged"}
        /\ Cardinality(Staying(e)) < Limit
        ~> e \notin kv \/ mode = "on"
=============================================================================
