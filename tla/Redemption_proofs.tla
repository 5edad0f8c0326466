------------------------- MODULE Redemption_proofs -------------------------
(***************************************************************************)
(* Proofs about Redemption for every set of events, webhook invocations    *)
(* and replays, every size of batch and every set of cards; and about the  *)
(* packs it draws from (CardPacks), for every set of names, cards and      *)
(* pages.                                                                  *)
(***************************************************************************)
EXTENDS Redemption, TLAPS, FiniteSetTheorems

CONSTANTS Name, Tab, NoPack, Kinds, MaxOps, MaxUnheard, MaxLapses   \* CardPacks
VARIABLES settings, premium, page, call, act, dropped, ops, unheard, lapses

Packs == INSTANCE CardPacks WITH None <- NoPack, MaxLost <- MaxUnheard,
            db <- settings, tab <- page, rq <- call, lost <- unheard

(* What an invocation knows at the await it is suspended at.               *)
Task(w) ==
    /\ phase[w] # "idle" => job[w] \in Event /\ copy[w] \in 1..MaxSends
    /\ phase[w] \in {"idle", "dedup", "hold", "lookup", "prefix"} => done[w] = 0
    /\ phase[w] \in {"cards", "rpc"} => done[w] < Draws[job[w]]
    /\ phase[w] = "reread" => done[w] + 1 < Draws[job[w]]
    /\ phase[w] = "rpc" => pick[w] \in Card
    /\ reply[w] # "none" => phase[w] = "rpc"

(* The types of TypeOK, in two groups.                                     *)
TaskTypes ==
    /\ phase  \in [Worker -> Phase]
    /\ job    \in [Worker -> Event \cup {None}]
    /\ copy   \in [Worker -> 0..MaxSends]
    /\ done   \in [Worker -> 0..MaxDraws]
    /\ pool   \in [Worker -> SUBSET Card]
    /\ pick   \in [Worker -> Card \cup {None}]
    /\ tries  \in [Worker -> 0..RpcTries]
    /\ misses \in [Worker -> 0..Reselects]

EventTypes ==
    /\ seen   \in SUBSET Event
    /\ parked \in SUBSET (Event \X (1..MaxSends))
    /\ sends  \in [Event -> 0..MaxSends]
    /\ acked  \in SUBSET Event
    /\ refund \in [Event -> {"none", "pending", "done", "failed"}]
    /\ told   \in SUBSET Event
    /\ closed \in SUBSET Event
    /\ lost   \in SUBSET Event

Tasks == LedgerTypes /\ TaskTypes /\ EventTypes /\ \A w \in Worker : Task(w)

(* A step of w leaves the other invocations where they are.                *)
Others(w) == \A v \in Worker \ {w} :
    /\ phase'[v] = phase[v] /\ job'[v] = job[v] /\ copy'[v] = copy[v]
    /\ done'[v] = done[v] /\ pick'[v] = pick[v] /\ reply'[v] = reply[v]

(* The draws an invocation counts as done are on record, and so is the     *)
(* draw that the database has just answered for.                           *)
Counted(w) ==
    /\ \A i \in 1..done[w] : history[job[w]][i] # None
    /\ phase[w] = "reread" \/ reply[w] \in {"granted", "duplicate"}
        => history[job[w]][done[w] + 1] # None

(* An event that is taken care of, whatever becomes of its handlings.      *)
Kept(e) == Settled(e) \/ \E k \in parked : k[1] = e

(* A message is only recorded as seen, or a parked entry only deleted,     *)
(* when its event is taken care of.                                        *)
Ends(w) ==
    /\ phase[w] = "mark" => Kept(job[w])
    /\ phase[w] = "drop" => Settled(job[w])

(* A draw is only on record with all those before it.                      *)
NoGap ==
    \A e \in Event : \A i, j \in 1..Draws[e] :
        i < j /\ history[e][i] = None => history[e][j] = None

(* The inductive invariant.                                                *)
IInv == /\ Tasks
        /\ \A w \in Worker : Counted(w) /\ Ends(w)
        /\ \A e \in acked \cup seen : Kept(e)
        /\ NoGap
        /\ ToldComplete

(* What is on record stays there, and what is settled stays settled.       *)
Onward ==
    /\ \A e \in Event : \A i \in 1..MaxDraws :
         history[e][i] # None => history'[e][i] # None
    /\ \A e \in Event : refund[e] # "none" => refund'[e] # "none"
    /\ closed \subseteq closed' /\ lost \subseteq lost'

-----------------------------------------------------------------------------
(* The tasks of the others are what they were.                             *)
LEMMA OtherTasks ==
    ASSUME NEW w \in Worker, NEW v \in Worker \ {w}, Task(v), Others(w)
    PROVE  Task(v)'
  BY DEF Task, Others

(* A batch stays complete, and an event settled.                           *)
LEMMA OnwardSettled ==
    ASSUME Onward, NEW e \in Event
    PROVE  (Complete(e) => Complete(e)') /\ (Settled(e) => Settled(e)')
<1>1. 1..Draws[e] \subseteq 1..MaxDraws
  BY LedgerAssumption
<1>2. Complete(e) => Complete(e)'
  BY <1>1 DEF Onward, Complete
<1> QED
  BY <1>2 DEF Onward, Settled

(* A step of one invocation keeps the invariant when it keeps what it says *)
(* of that invocation, of the events it adds, and of the entries.          *)
LEMMA Preserved ==
    ASSUME IInv, NEW w \in Worker, Tasks', Others(w), Onward, KeepsEntries,
           NoGap', Counted(w)', Ends(w)',
           \A e \in (acked' \cup seen') \ (acked \cup seen) : Kept(e)',
           \A e \in told' \ told : Complete(e)'
    PROVE  IInv'
<1>1. ASSUME NEW e \in Event, Kept(e) PROVE Kept(e)'
  BY <1>1, OnwardSettled DEF Kept, KeepsEntries
<1>2. ASSUME NEW v \in Worker \ {w} PROVE Counted(v)' /\ Ends(v)'
  <2>1. Task(v) /\ Counted(v) /\ Ends(v) /\ done[v] \in 0..MaxDraws
    BY DEF IInv, Tasks, TaskTypes
  <2>2. CASE phase[v] = "idle"
    BY <2>1, <2>2 DEF Counted, Ends, Others, Task
  <2>3. CASE phase[v] # "idle"
    <3>1. job[v] \in Event /\ Draws[job[v]] \in 1..MaxDraws
      BY <2>1, <2>3, LedgerAssumption DEF Task
    <3>2. Counted(v)'
      BY <2>1, <3>1, LedgerAssumption DEF Counted, Others, Onward, Task
    <3>3. Ends(v)'
      BY <2>1, <3>1, <1>1, OnwardSettled DEF Ends, Others
    <3> QED
      BY <3>2, <3>3
  <2> QED
    BY <2>2, <2>3
<1>3. \A e \in acked' \cup seen' : Kept(e)'
  BY <1>1 DEF IInv, Tasks, EventTypes
<1>4. ToldComplete'
  BY OnwardSettled DEF IInv, Tasks, EventTypes, ToldComplete
<1> QED
  BY <1>2, <1>3, <1>4 DEF IInv

(* An invocation that has left counts nothing and owes nothing.            *)
LEMMA LeaveCounted ==
    ASSUME NEW w \in Worker, Tasks, Leave(w), reply'[w] = "none"
    PROVE  Counted(w)' /\ Ends(w)'
  BY DEF Tasks, TaskTypes, Leave, Goto, Counted, Ends

(* Nor does one that retries owe anything.                                 *)
LEMMA RetryCounted ==
    ASSUME NEW w \in Worker, Tasks, Counted(w), Retry(w),
           history' = history, reply'[w] = "none"
    PROVE  Counted(w)' /\ Ends(w)'
<1>1. CASE Goto(w, "park") /\ UNCHANGED taskVars
  BY <1>1 DEF Tasks, TaskTypes, Goto, taskVars, Counted, Ends
<1>2. CASE Leave(w)
  BY <1>2, LeaveCounted
<1> QED
  BY <1>1, <1>2 DEF Retry

(* Sold out: the refund settles the event, or it is retried.               *)
LEMMA SoldOutCounted ==
    ASSUME NEW w \in Worker, Tasks, Counted(w), SoldOut(w), phase[w] # "idle",
           history' = history, reply'[w] = "none"
    PROVE  Counted(w)' /\ Ends(w)'
<1>1. CASE done[w] = 0 /\ job[w] \notin Raid
  <2>1. refund'[job[w]] # "none"
    BY <1>1 DEF SoldOut, Tasks, Task, EventTypes
  <2> QED
    BY <1>1, <2>1
    DEF SoldOut, Tasks, TaskTypes, Close, Goto, Counted, Ends, Kept, Settled
<1>2. CASE ~(done[w] = 0 /\ job[w] \notin Raid)
  BY <1>2, RetryCounted DEF SoldOut
<1> QED
  BY <1>1, <1>2

(* A parked entry of its event keeps the event.                            *)
LEMMA StoredKept ==
    ASSUME NEW w \in Worker, Tasks, phase[w] # "idle", Stored(w)
    PROVE  \E k \in parked' : k[1] = job[w]
<1>1. <<job[w], copy[w]>> \in parked' /\ <<job[w], copy[w]>>[1] = job[w]
  BY DEF Stored
<1> QED
  BY <1>1

-----------------------------------------------------------------------------
(* A message that is recorded as seen is answered.                         *)
LEMMA SkipSeenInductive ==
    ASSUME IInv, NEW w \in Worker, SkipSeen(w)
    PROVE  IInv' /\ KeepsEntries
<1> USE LedgerAssumption, HandlingAssumption DEF SkipSeen, Answer2xx, Leave,
       Goto, ledgerVars, tables, kvVars, histVars
<1>0. Tasks /\ Counted(w) /\ Ends(w)
  BY DEF IInv
<1>1. Tasks' /\ Others(w)
  <2>1. LedgerTypes'
    BY <1>0 DEF Tasks, TaskTypes, Task, LedgerTypes, Reply
  <2>2. TaskTypes'
    BY <1>0 DEF Tasks, TaskTypes, Task, Phase
  <2>3. EventTypes'
    BY <1>0 DEF Tasks, EventTypes, TaskTypes, Task
  <2>4. Others(w)
    BY <1>0 DEF Tasks, LedgerTypes, TaskTypes, Others
  <2>5. Task(w)'
    BY <1>0 DEF Tasks, LedgerTypes, TaskTypes, Task, Phase, Reply
  <2> QED
    BY <1>0, <2>1, <2>2, <2>3, <2>4, <2>5, OtherTasks DEF Tasks
<1>2. Onward
  BY <1>0 DEF Tasks, Onward, LedgerTypes, EventTypes, TaskTypes, Task
<1>3. KeepsEntries
  BY DEF KeepsEntries
<1>4. NoGap'
  BY DEF IInv, NoGap
<1>5. Counted(w)'
  <2>1. reply'[w] = "none"
    BY <1>0 DEF Tasks, Task
  <2> QED
    BY <1>0, <2>1, LeaveCounted
<1>6. Ends(w)'
  BY <1>0 DEF Tasks, Ends, Kept, Settled, Complete, Counted, Task, TaskTypes
<1>7. \A e \in (acked' \cup seen') \ (acked \cup seen) : Kept(e)'
  BY <1>0 DEF Ends, Kept, Settled, Complete
<1>8. \A e \in told' \ told : Complete(e)'
  BY <1>0 DEF Tasks, Complete, Counted, Task, TaskTypes
<1> QED
  BY <1>1, <1>2, <1>3, <1>4, <1>5, <1>6, <1>7, <1>8, Preserved

(* The handling of a message begins.                                       *)
LEMMA PassDedupInductive ==
    ASSUME IInv, NEW w \in Worker, PassDedup(w)
    PROVE  IInv' /\ KeepsEntries
<1> USE LedgerAssumption, HandlingAssumption DEF PassDedup, Goto, ledgerVars,
       tables, taskVars, kvVars, twitchVars, histVars
<1>0. Tasks /\ Counted(w) /\ Ends(w)
  BY DEF IInv
<1>1. Tasks' /\ Others(w)
  <2>1. LedgerTypes'
    BY <1>0 DEF Tasks, TaskTypes, Task, LedgerTypes, Reply
  <2>2. TaskTypes'
    BY <1>0 DEF Tasks, TaskTypes, Task, Phase
  <2>3. EventTypes'
    BY <1>0 DEF Tasks, EventTypes, TaskTypes, Task
  <2>4. Others(w)
    BY <1>0 DEF Tasks, LedgerTypes, TaskTypes, Others
  <2>5. Task(w)'
    BY <1>0 DEF Tasks, LedgerTypes, TaskTypes, Task, Phase, Reply
  <2> QED
    BY <1>0, <2>1, <2>2, <2>3, <2>4, <2>5, OtherTasks DEF Tasks
<1>2. Onward
  BY <1>0 DEF Tasks, Onward, LedgerTypes, EventTypes, TaskTypes, Task
<1>3. KeepsEntries
  BY DEF KeepsEntries
<1>4. NoGap'
  BY DEF IInv, NoGap
<1>5. Counted(w)'
  BY <1>0 DEF Tasks, Counted, Task, TaskTypes, LedgerTypes
<1>6. Ends(w)'
  BY <1>0 DEF Tasks, Ends, Kept, Settled, Complete, Counted, Task, TaskTypes
<1>7. \A e \in (acked' \cup seen') \ (acked \cup seen) : Kept(e)'
  BY <1>0 DEF Ends, Kept, Settled, Complete
<1>8. \A e \in told' \ told : Complete(e)'
  BY <1>0 DEF Tasks, Complete, Counted, Task, TaskTypes
<1> QED
  BY <1>1, <1>2, <1>3, <1>4, <1>5, <1>6, <1>7, <1>8, Preserved

(* The maintenance mode parks the message.                                 *)
LEMMA HoldInductive ==
    ASSUME IInv, NEW w \in Worker, Hold(w)
    PROVE  IInv' /\ KeepsEntries
<1> USE LedgerAssumption, HandlingAssumption DEF Hold, Stored, Goto,
       ledgerVars, tables, taskVars, twitchVars, histVars
<1>0. Tasks /\ Counted(w) /\ Ends(w)
  BY DEF IInv
<1>1. Tasks' /\ Others(w)
  <2>1. LedgerTypes'
    BY <1>0 DEF Tasks, TaskTypes, Task, LedgerTypes, Reply
  <2>2. TaskTypes'
    BY <1>0 DEF Tasks, TaskTypes, Task, Phase
  <2>3. EventTypes'
    BY <1>0 DEF Tasks, EventTypes, TaskTypes, Task
  <2>4. Others(w)
    BY <1>0 DEF Tasks, LedgerTypes, TaskTypes, Others
  <2>5. Task(w)'
    BY <1>0 DEF Tasks, LedgerTypes, TaskTypes, Task, Phase, Reply
  <2> QED
    BY <1>0, <2>1, <2>2, <2>3, <2>4, <2>5, OtherTasks DEF Tasks
<1>2. Onward
  BY <1>0 DEF Tasks, Onward, LedgerTypes, EventTypes, TaskTypes, Task
<1>3. KeepsEntries
  BY DEF KeepsEntries
<1>4. NoGap'
  BY DEF IInv, NoGap
<1>5. Counted(w)'
  BY <1>0 DEF Tasks, Counted, Task, TaskTypes, LedgerTypes
<1>6. Ends(w)'
  BY <1>0, StoredKept DEF Tasks, TaskTypes, Ends, Kept
<1>7. \A e \in (acked' \cup seen') \ (acked \cup seen) : Kept(e)'
  BY <1>0 DEF Ends, Kept, Settled, Complete
<1>8. \A e \in told' \ told : Complete(e)'
  BY <1>0 DEF Tasks, Complete, Counted, Task, TaskTypes
<1> QED
  BY <1>1, <1>2, <1>3, <1>4, <1>5, <1>6, <1>7, <1>8, Preserved

(* Nothing could be stored: the loss is accepted.                          *)
LEMMA HoldFailsInductive ==
    ASSUME IInv, NEW w \in Worker, HoldFails(w)
    PROVE  IInv' /\ KeepsEntries
<1> USE LedgerAssumption, HandlingAssumption DEF HoldFails, Stored,
       Answer2xx, Leave, Goto, ledgerVars, tables
<1>0. Tasks /\ Counted(w) /\ Ends(w)
  BY DEF IInv
<1>1. Tasks' /\ Others(w)
  <2>1. LedgerTypes'
    BY <1>0 DEF Tasks, TaskTypes, Task, LedgerTypes, Reply
  <2>2. TaskTypes'
    BY <1>0 DEF Tasks, TaskTypes, Task, Phase
  <2>3. EventTypes'
    BY <1>0 DEF Tasks, EventTypes, TaskTypes, Task
  <2>4. Others(w)
    BY <1>0 DEF Tasks, LedgerTypes, TaskTypes, Others
  <2>5. Task(w)'
    BY <1>0 DEF Tasks, LedgerTypes, TaskTypes, Task, Phase, Reply
  <2> QED
    BY <1>0, <2>1, <2>2, <2>3, <2>4, <2>5, OtherTasks DEF Tasks
<1>2. Onward
  BY <1>0 DEF Tasks, Onward, LedgerTypes, EventTypes, TaskTypes, Task
<1>3. KeepsEntries
  BY DEF KeepsEntries
<1>4. NoGap'
  BY DEF IInv, NoGap
<1>5. Counted(w)'
  <2>1. reply'[w] = "none"
    BY <1>0 DEF Tasks, Task
  <2> QED
    BY <1>0, <2>1, LeaveCounted
<1>6. Ends(w)'
  BY <1>0 DEF Tasks, Ends, Kept, Settled, Complete, Counted, Task, TaskTypes
<1>7. \A e \in (acked' \cup seen') \ (acked \cup seen) : Kept(e)'
  <2>1. ASSUME NEW e \in Event, e = job[w] PROVE Kept(e)'
    <3>1. CASE Stored(w)
      BY <1>0, <2>1, <3>1, StoredKept DEF Kept
    <3>2. CASE lost' = lost \cup {job[w]}
      BY <2>1, <3>2 DEF Kept, Settled
    <3> QED
      BY <3>1, <3>2
  <2>2. acked' \cup seen' \subseteq acked \cup seen \cup {job[w]}
    OBVIOUS
  <2>3. job[w] \in Event
    BY <1>0 DEF Tasks, Task
  <2> QED
    BY <2>1, <2>2, <2>3
<1>8. \A e \in told' \ told : Complete(e)'
  BY <1>0 DEF Tasks, Complete, Counted, Task, TaskTypes
<1> QED
  BY <1>1, <1>2, <1>3, <1>4, <1>5, <1>6, <1>7, <1>8, Preserved

(* A retryable failure parks the message.                                  *)
LEMMA ParkInductive ==
    ASSUME IInv, NEW w \in Worker, Park(w)
    PROVE  IInv' /\ KeepsEntries
<1> USE LedgerAssumption, HandlingAssumption DEF Park, Stored, Goto,
       ledgerVars, tables, taskVars, twitchVars, histVars
<1>0. Tasks /\ Counted(w) /\ Ends(w)
  BY DEF IInv
<1>1. Tasks' /\ Others(w)
  <2>1. LedgerTypes'
    BY <1>0 DEF Tasks, TaskTypes, Task, LedgerTypes, Reply
  <2>2. TaskTypes'
    BY <1>0 DEF Tasks, TaskTypes, Task, Phase
  <2>3. EventTypes'
    BY <1>0 DEF Tasks, EventTypes, TaskTypes, Task
  <2>4. Others(w)
    BY <1>0 DEF Tasks, LedgerTypes, TaskTypes, Others
  <2>5. Task(w)'
    BY <1>0 DEF Tasks, LedgerTypes, TaskTypes, Task, Phase, Reply
  <2> QED
    BY <1>0, <2>1, <2>2, <2>3, <2>4, <2>5, OtherTasks DEF Tasks
<1>2. Onward
  BY <1>0 DEF Tasks, Onward, LedgerTypes, EventTypes, TaskTypes, Task
<1>3. KeepsEntries
  BY DEF KeepsEntries
<1>4. NoGap'
  BY DEF IInv, NoGap
<1>5. Counted(w)'
  BY <1>0 DEF Tasks, Counted, Task, TaskTypes, LedgerTypes
<1>6. Ends(w)'
  BY <1>0, StoredKept DEF Tasks, TaskTypes, Ends, Kept
<1>7. \A e \in (acked' \cup seen') \ (acked \cup seen) : Kept(e)'
  BY <1>0 DEF Ends, Kept, Settled, Complete
<1>8. \A e \in told' \ told : Complete(e)'
  BY <1>0 DEF Tasks, Complete, Counted, Task, TaskTypes
<1> QED
  BY <1>1, <1>2, <1>3, <1>4, <1>5, <1>6, <1>7, <1>8, Preserved

(* Twitch has to send the message again.                                   *)
LEMMA ParkFailsInductive ==
    ASSUME IInv, NEW w \in Worker, ParkFails(w)
    PROVE  IInv' /\ KeepsEntries
<1> USE LedgerAssumption, HandlingAssumption DEF ParkFails, Stored, Leave,
       Goto, ledgerVars, tables, twitchVars, histVars
<1>0. Tasks /\ Counted(w) /\ Ends(w)
  BY DEF IInv
<1>1. Tasks' /\ Others(w)
  <2>1. LedgerTypes'
    BY <1>0 DEF Tasks, TaskTypes, Task, LedgerTypes, Reply
  <2>2. TaskTypes'
    BY <1>0 DEF Tasks, TaskTypes, Task, Phase
  <2>3. EventTypes'
    BY <1>0 DEF Tasks, EventTypes, TaskTypes, Task
  <2>4. Others(w)
    BY <1>0 DEF Tasks, LedgerTypes, TaskTypes, Others
  <2>5. Task(w)'
    BY <1>0 DEF Tasks, LedgerTypes, TaskTypes, Task, Phase, Reply
  <2> QED
    BY <1>0, <2>1, <2>2, <2>3, <2>4, <2>5, OtherTasks DEF Tasks
<1>2. Onward
  BY <1>0 DEF Tasks, Onward, LedgerTypes, EventTypes, TaskTypes, Task
<1>3. KeepsEntries
  BY DEF KeepsEntries
<1>4. NoGap'
  BY DEF IInv, NoGap
<1>5. Counted(w)'
  <2>1. reply'[w] = "none"
    BY <1>0 DEF Tasks, Task
  <2> QED
    BY <1>0, <2>1, LeaveCounted
<1>6. Ends(w)'
  BY <1>0 DEF Tasks, Ends, Kept, Settled, Complete, Counted, Task, TaskTypes
<1>7. \A e \in (acked' \cup seen') \ (acked \cup seen) : Kept(e)'
  BY <1>0 DEF Ends, Kept, Settled, Complete
<1>8. \A e \in told' \ told : Complete(e)'
  BY <1>0 DEF Tasks, Complete, Counted, Task, TaskTypes
<1> QED
  BY <1>1, <1>2, <1>3, <1>4, <1>5, <1>6, <1>7, <1>8, Preserved

(* The message is recorded as seen, and answered.                          *)
LEMMA MarkSeenInductive ==
    ASSUME IInv, NEW w \in Worker, MarkSeen(w)
    PROVE  IInv' /\ KeepsEntries
<1> USE LedgerAssumption, HandlingAssumption DEF MarkSeen, Answer2xx, Leave,
       Goto, ledgerVars, tables, histVars
<1>0. Tasks /\ Counted(w) /\ Ends(w)
  BY DEF IInv
<1>1. Tasks' /\ Others(w)
  <2>1. LedgerTypes'
    BY <1>0 DEF Tasks, TaskTypes, Task, LedgerTypes, Reply
  <2>2. TaskTypes'
    BY <1>0 DEF Tasks, TaskTypes, Task, Phase
  <2>3. EventTypes'
    BY <1>0 DEF Tasks, EventTypes, TaskTypes, Task
  <2>4. Others(w)
    BY <1>0 DEF Tasks, LedgerTypes, TaskTypes, Others
  <2>5. Task(w)'
    BY <1>0 DEF Tasks, LedgerTypes, TaskTypes, Task, Phase, Reply
  <2> QED
    BY <1>0, <2>1, <2>2, <2>3, <2>4, <2>5, OtherTasks DEF Tasks
<1>2. Onward
  BY <1>0 DEF Tasks, Onward, LedgerTypes, EventTypes, TaskTypes, Task
<1>3. KeepsEntries
  BY DEF KeepsEntries
<1>4. NoGap'
  BY DEF IInv, NoGap
<1>5. Counted(w)'
  <2>1. reply'[w] = "none"
    BY <1>0 DEF Tasks, Task
  <2> QED
    BY <1>0, <2>1, LeaveCounted
<1>6. Ends(w)'
  BY <1>0 DEF Tasks, Ends, Kept, Settled, Complete, Counted, Task, TaskTypes
<1>7. \A e \in (acked' \cup seen') \ (acked \cup seen) : Kept(e)'
  BY <1>0 DEF Ends, Kept, Settled, Complete
<1>8. \A e \in told' \ told : Complete(e)'
  BY <1>0 DEF Tasks, Complete, Counted, Task, TaskTypes
<1> QED
  BY <1>1, <1>2, <1>3, <1>4, <1>5, <1>6, <1>7, <1>8, Preserved

(* The replay deletes its entry.                                           *)
LEMMA DropInductive ==
    ASSUME IInv, NEW w \in Worker, Drop(w)
    PROVE  IInv' /\ KeepsEntries
<1> USE LedgerAssumption, HandlingAssumption DEF Drop, Leave, Goto,
       ledgerVars, tables, twitchVars, histVars
<1>0. Tasks /\ Counted(w) /\ Ends(w)
  BY DEF IInv
<1>1. Tasks' /\ Others(w)
  <2>1. LedgerTypes'
    BY <1>0 DEF Tasks, TaskTypes, Task, LedgerTypes, Reply
  <2>2. TaskTypes'
    BY <1>0 DEF Tasks, TaskTypes, Task, Phase
  <2>3. EventTypes'
    BY <1>0 DEF Tasks, EventTypes, TaskTypes, Task
  <2>4. Others(w)
    BY <1>0 DEF Tasks, LedgerTypes, TaskTypes, Others
  <2>5. Task(w)'
    BY <1>0 DEF Tasks, LedgerTypes, TaskTypes, Task, Phase, Reply
  <2> QED
    BY <1>0, <2>1, <2>2, <2>3, <2>4, <2>5, OtherTasks DEF Tasks
<1>2. Onward
  BY <1>0 DEF Tasks, Onward, LedgerTypes, EventTypes, TaskTypes, Task
<1>3. KeepsEntries
  <2>1. ASSUME NEW e \in Event, e = job[w] PROVE Settled(e)'
    BY <1>0, <1>2, <2>1, OnwardSettled DEF Tasks, Task, Ends
  <2>3. job[w] \in Event
    BY <1>0 DEF Tasks, Task
  <2>2. ASSUME NEW k \in parked, k \notin parked' PROVE k[1] = job[w]
    BY <2>2
  <2> QED
    BY <2>1, <2>2, <2>3 DEF KeepsEntries
<1>4. NoGap'
  BY DEF IInv, NoGap
<1>5. Counted(w)'
  <2>1. reply'[w] = "none"
    BY <1>0 DEF Tasks, Task
  <2> QED
    BY <1>0, <2>1, LeaveCounted
<1>6. Ends(w)'
  BY <1>0 DEF Tasks, Ends, Kept, Settled, Complete, Counted, Task, TaskTypes
<1>7. \A e \in (acked' \cup seen') \ (acked \cup seen) : Kept(e)'
  BY <1>0 DEF Ends, Kept, Settled, Complete
<1>8. \A e \in told' \ told : Complete(e)'
  BY <1>0 DEF Tasks, Complete, Counted, Task, TaskTypes
<1> QED
  BY <1>1, <1>2, <1>3, <1>4, <1>5, <1>6, <1>7, <1>8, Preserved

(* The invocation is stopped wherever it is suspended.                     *)
LEMMA StopInductive ==
    ASSUME IInv, NEW w \in Worker, Stop(w)
    PROVE  IInv' /\ KeepsEntries
<1> USE LedgerAssumption, HandlingAssumption DEF Stop, Lose, Leave, Goto,
       ledgerVars, tables, kvVars, twitchVars, histVars
<1>0. Tasks /\ Counted(w) /\ Ends(w)
  BY DEF IInv
<1>1. Tasks' /\ Others(w)
  <2>1. LedgerTypes'
    BY <1>0 DEF Tasks, TaskTypes, Task, LedgerTypes, Reply
  <2>2. TaskTypes'
    BY <1>0 DEF Tasks, TaskTypes, Task, Phase
  <2>3. EventTypes'
    BY <1>0 DEF Tasks, EventTypes, TaskTypes, Task
  <2>4. Others(w)
    BY <1>0 DEF Tasks, LedgerTypes, TaskTypes, Others
  <2>5. Task(w)'
    BY <1>0 DEF Tasks, LedgerTypes, TaskTypes, Task, Phase, Reply
  <2> QED
    BY <1>0, <2>1, <2>2, <2>3, <2>4, <2>5, OtherTasks DEF Tasks
<1>2. Onward
  BY <1>0 DEF Tasks, Onward, LedgerTypes, EventTypes, TaskTypes, Task
<1>3. KeepsEntries
  BY DEF KeepsEntries
<1>4. NoGap'
  BY DEF IInv, NoGap
<1>5. Counted(w)'
  <2>1. reply'[w] = "none"
    BY <1>0 DEF Tasks, LedgerTypes
  <2> QED
    BY <1>0, <2>1, LeaveCounted
<1>6. Ends(w)'
  BY <1>0 DEF Tasks, Ends, Kept, Settled, Complete, Counted, Task, TaskTypes
<1>7. \A e \in (acked' \cup seen') \ (acked \cup seen) : Kept(e)'
  BY <1>0 DEF Ends, Kept, Settled, Complete
<1>8. \A e \in told' \ told : Complete(e)'
  BY <1>0 DEF Tasks, Complete, Counted, Task, TaskTypes
<1> QED
  BY <1>1, <1>2, <1>3, <1>4, <1>5, <1>6, <1>7, <1>8, Preserved

(* A read fails.                                                           *)
LEMMA FailsInductive ==
    ASSUME IInv, NEW w \in Worker, Fails(w)
    PROVE  IInv' /\ KeepsEntries
<1> USE LedgerAssumption, HandlingAssumption DEF Fails, Retry, Leave, Goto,
       ledgerVars, tables, taskVars, kvVars, twitchVars, histVars
<1>0. Tasks /\ Counted(w) /\ Ends(w)
  BY DEF IInv
<1>1. Tasks' /\ Others(w)
  <2>1. LedgerTypes'
    BY <1>0 DEF Tasks, TaskTypes, Task, LedgerTypes, Reply
  <2>2. TaskTypes'
    BY SMTT(30), <1>0 DEF Tasks, TaskTypes, Task, Phase
  <2>3. EventTypes'
    BY <1>0 DEF Tasks, EventTypes, TaskTypes, Task
  <2>4. Others(w)
    BY <1>0 DEF Tasks, LedgerTypes, TaskTypes, Others
  <2>5. Task(w)'
    BY <1>0 DEF Tasks, LedgerTypes, TaskTypes, Task, Phase, Reply
  <2> QED
    BY <1>0, <2>1, <2>2, <2>3, <2>4, <2>5, OtherTasks DEF Tasks
<1>2. Onward
  BY <1>0 DEF Tasks, Onward, LedgerTypes, EventTypes, TaskTypes, Task
<1>3. KeepsEntries
  BY DEF KeepsEntries
<1>4. NoGap'
  BY DEF IInv, NoGap
<1>5. Counted(w)' /\ Ends(w)'
  <2>1. reply'[w] = "none"
    BY <1>0 DEF Tasks, Task
  <2> QED
    BY <1>0, <2>1, RetryCounted
<1>7. \A e \in (acked' \cup seen') \ (acked \cup seen) : Kept(e)'
  BY <1>0 DEF Ends, Kept, Settled, Complete
<1>8. \A e \in told' \ told : Complete(e)'
  BY <1>0 DEF Tasks, Complete, Counted, Task, TaskTypes
<1> QED
  BY <1>1, <1>2, <1>3, <1>4, <1>5, <1>7, <1>8, Preserved

(* The settings of the streamer want no gacha.                             *)
LEMMA RefuseInductive ==
    ASSUME IInv, NEW w \in Worker, Refuse(w)
    PROVE  IInv' /\ KeepsEntries
<1> USE LedgerAssumption, HandlingAssumption DEF Refuse, Close, Goto,
       ledgerVars, tables, taskVars, kvVars, twitchVars, histVars
<1>0. Tasks /\ Counted(w) /\ Ends(w)
  BY DEF IInv
<1>1. Tasks' /\ Others(w)
  <2>1. LedgerTypes'
    BY <1>0 DEF Tasks, TaskTypes, Task, LedgerTypes, Reply
  <2>2. TaskTypes'
    BY <1>0 DEF Tasks, TaskTypes, Task, Phase
  <2>3. EventTypes'
    BY <1>0 DEF Tasks, EventTypes, TaskTypes, Task
  <2>4. Others(w)
    BY <1>0 DEF Tasks, LedgerTypes, TaskTypes, Others
  <2>5. Task(w)'
    BY <1>0 DEF Tasks, LedgerTypes, TaskTypes, Task, Phase, Reply
  <2> QED
    BY <1>0, <2>1, <2>2, <2>3, <2>4, <2>5, OtherTasks DEF Tasks
<1>2. Onward
  BY <1>0 DEF Tasks, Onward, LedgerTypes, EventTypes, TaskTypes, Task
<1>3. KeepsEntries
  BY DEF KeepsEntries
<1>4. NoGap'
  BY DEF IInv, NoGap
<1>5. Counted(w)'
  BY <1>0 DEF Tasks, Counted, Task, TaskTypes, LedgerTypes
<1>6. Ends(w)'
  BY <1>0 DEF Tasks, Ends, Kept, Settled, Complete, Counted, Task, TaskTypes
<1>7. \A e \in (acked' \cup seen') \ (acked \cup seen) : Kept(e)'
  BY <1>0 DEF Ends, Kept, Settled, Complete
<1>8. \A e \in told' \ told : Complete(e)'
  BY <1>0 DEF Tasks, Complete, Counted, Task, TaskTypes
<1> QED
  BY <1>1, <1>2, <1>3, <1>4, <1>5, <1>6, <1>7, <1>8, Preserved

(* The streamer and the reward are known.                                  *)
LEMMA LookupInductive ==
    ASSUME IInv, NEW w \in Worker, Lookup(w)
    PROVE  IInv' /\ KeepsEntries
<1> USE LedgerAssumption, HandlingAssumption DEF Lookup, Goto, ledgerVars,
       tables, taskVars, kvVars, twitchVars, histVars
<1>0. Tasks /\ Counted(w) /\ Ends(w)
  BY DEF IInv
<1>1. Tasks' /\ Others(w)
  <2>1. LedgerTypes'
    BY <1>0 DEF Tasks, TaskTypes, Task, LedgerTypes, Reply
  <2>2. TaskTypes'
    BY <1>0 DEF Tasks, TaskTypes, Task, Phase
  <2>3. EventTypes'
    BY <1>0 DEF Tasks, EventTypes, TaskTypes, Task
  <2>4. Others(w)
    BY <1>0 DEF Tasks, LedgerTypes, TaskTypes, Others
  <2>5. Task(w)'
    BY <1>0 DEF Tasks, LedgerTypes, TaskTypes, Task, Phase, Reply
  <2> QED
    BY <1>0, <2>1, <2>2, <2>3, <2>4, <2>5, OtherTasks DEF Tasks
<1>2. Onward
  BY <1>0 DEF Tasks, Onward, LedgerTypes, EventTypes, TaskTypes, Task
<1>3. KeepsEntries
  BY DEF KeepsEntries
<1>4. NoGap'
  BY DEF IInv, NoGap
<1>5. Counted(w)'
  BY <1>0 DEF Tasks, Counted, Task, TaskTypes, LedgerTypes
<1>6. Ends(w)'
  BY <1>0 DEF Tasks, Ends, Kept, Settled, Complete, Counted, Task, TaskTypes
<1>7. \A e \in (acked' \cup seen') \ (acked \cup seen) : Kept(e)'
  BY <1>0 DEF Ends, Kept, Settled, Complete
<1>8. \A e \in told' \ told : Complete(e)'
  BY <1>0 DEF Tasks, Complete, Counted, Task, TaskTypes
<1> QED
  BY <1>1, <1>2, <1>3, <1>4, <1>5, <1>6, <1>7, <1>8, Preserved

(* A batch counts the draws on record.                                     *)
LEMMA ReadPrefixInductive ==
    ASSUME IInv, NEW w \in Worker, ReadPrefix(w)
    PROVE  IInv' /\ KeepsEntries
<1> USE LedgerAssumption, HandlingAssumption DEF ReadPrefix, Close, Goto,
       ledgerVars, tables, kvVars, twitchVars, histVars
<1>0. Tasks /\ Counted(w) /\ Ends(w)
  BY DEF IInv
<1>1. Tasks' /\ Others(w)
  <2>1. LedgerTypes'
    BY <1>0 DEF Tasks, TaskTypes, Task, LedgerTypes, Reply
  <2>2. TaskTypes'
    BY <1>0 DEF Tasks, TaskTypes, Task, Phase
  <2>3. EventTypes'
    BY <1>0 DEF Tasks, EventTypes, TaskTypes, Task
  <2>4. Others(w)
    BY <1>0 DEF Tasks, LedgerTypes, TaskTypes, Others
  <2>5. Task(w)'
    BY <1>0 DEF Tasks, LedgerTypes, TaskTypes, Task, Phase, Reply
  <2> QED
    BY <1>0, <2>1, <2>2, <2>3, <2>4, <2>5, OtherTasks DEF Tasks
<1>2. Onward
  BY <1>0 DEF Tasks, Onward, LedgerTypes, EventTypes, TaskTypes, Task
<1>3. KeepsEntries
  BY DEF KeepsEntries
<1>4. NoGap'
  BY DEF IInv, NoGap
<1>5. Counted(w)' /\ Ends(w)'
  <2>1. PICK p \in 0..Draws[job[w]] :
          /\ IsPrefix(job[w], p)
          /\ done' = [done EXCEPT ![w] = p]
          /\ IF p = Draws[job[w]] THEN Close(w) ELSE Goto(w, "cards")
    OBVIOUS
  <2>2. /\ \A i \in 1..p : history[job[w]][i] # None
        /\ p = Draws[job[w]] => Complete(job[w])
    BY <2>1 DEF IsPrefix, Complete
  <2>3. done'[w] = p /\ job'[w] = job[w] /\ reply'[w] = "none"
    BY <1>0, <2>1 DEF Tasks, TaskTypes, Task
  <2>4. Counted(w)'
    BY <1>0, <2>1, <2>2, <2>3 DEF Counted, Tasks, TaskTypes
  <2>5. Ends(w)'
    BY <1>0, <2>1, <2>2, <2>3 DEF Ends, Kept, Settled, Complete, Tasks, TaskTypes
  <2> QED
    BY <2>4, <2>5
<1>7. \A e \in (acked' \cup seen') \ (acked \cup seen) : Kept(e)'
  BY <1>0 DEF Ends, Kept, Settled, Complete
<1>8. \A e \in told' \ told : Complete(e)'
  BY <1>0 DEF Tasks, Complete, Counted, Task, TaskTypes
<1> QED
  BY <1>1, <1>2, <1>3, <1>4, <1>5, <1>7, <1>8, Preserved

(* The cards that can be drawn are read.                                   *)
LEMMA ReadCardsInductive ==
    ASSUME IInv, NEW w \in Worker, ReadCards(w)
    PROVE  IInv' /\ KeepsEntries
<1> USE LedgerAssumption, HandlingAssumption DEF ReadCards, SoldOut, Select,
       Retry, Close, Leave, Goto, ledgerVars, tables, taskVars, kvVars,
       histVars
<1>0. Tasks /\ Counted(w) /\ Ends(w)
  BY DEF IInv
<1>1. Tasks' /\ Others(w)
  <2>1. LedgerTypes'
    BY <1>0 DEF Tasks, TaskTypes, Task, LedgerTypes, Reply
  <2>2. TaskTypes'
    <3>1. CASE SoldOut(w)
      BY <1>0, <3>1 DEF Tasks, TaskTypes, Phase
    <3>2. ASSUME Select(w, {c \in active : Room(c)}),
                 misses' = [misses EXCEPT ![w] = 0],
                 UNCHANGED <<job, copy, done, refund>>
          PROVE  TaskTypes'
      BY <1>0, <3>2 DEF Tasks, TaskTypes, LedgerTypes, Phase
    <3> QED
      BY <3>1, <3>2
  <2>3. EventTypes'
    BY <1>0 DEF Tasks, EventTypes, TaskTypes, Task
  <2>4. Others(w)
    BY <1>0 DEF Tasks, LedgerTypes, TaskTypes, Others
  <2>5. Task(w)'
    BY <1>0 DEF Tasks, LedgerTypes, TaskTypes, Task, Phase, Reply
  <2> QED
    BY <1>0, <2>1, <2>2, <2>3, <2>4, <2>5, OtherTasks DEF Tasks
<1>2. Onward
  BY <1>0 DEF Tasks, Onward, LedgerTypes, EventTypes, TaskTypes, Task
<1>3. KeepsEntries
  BY DEF KeepsEntries
<1>4. NoGap'
  BY DEF IInv, NoGap
<1>5. Counted(w)' /\ Ends(w)'
  <2>1. reply'[w] = "none"
    BY <1>0 DEF Tasks, Task, LedgerTypes
  <2>2. CASE SoldOut(w)
    BY <1>0, <2>1, <2>2, SoldOutCounted
  <2>4. ASSUME NEW s \in SUBSET Card, Select(w, s), UNCHANGED <<job, done>>
        PROVE  Counted(w)' /\ Ends(w)'
    BY <1>0, <2>1, <2>4 DEF Tasks, TaskTypes, Counted, Ends
  <2> QED
    BY <1>0, <2>2, <2>4 DEF Tasks, LedgerTypes
<1>7. \A e \in (acked' \cup seen') \ (acked \cup seen) : Kept(e)'
  BY <1>0 DEF Ends, Kept, Settled, Complete
<1>8. \A e \in told' \ told : Complete(e)'
  BY <1>0 DEF Tasks, Complete, Counted, Task, TaskTypes
<1> QED
  BY <1>1, <1>2, <1>3, <1>4, <1>5, <1>7, <1>8, Preserved

(* There is nothing to draw.                                               *)
LEMMA NoCardsInductive ==
    ASSUME IInv, NEW w \in Worker, NoCards(w)
    PROVE  IInv' /\ KeepsEntries
<1> USE LedgerAssumption, HandlingAssumption DEF NoCards, Close, Goto,
       ledgerVars, tables, taskVars, kvVars, twitchVars, histVars
<1>0. Tasks /\ Counted(w) /\ Ends(w)
  BY DEF IInv
<1>1. Tasks' /\ Others(w)
  <2>1. LedgerTypes'
    BY <1>0 DEF Tasks, TaskTypes, Task, LedgerTypes, Reply
  <2>2. TaskTypes'
    BY <1>0 DEF Tasks, TaskTypes, Task, Phase
  <2>3. EventTypes'
    BY <1>0 DEF Tasks, EventTypes, TaskTypes, Task
  <2>4. Others(w)
    BY <1>0 DEF Tasks, LedgerTypes, TaskTypes, Others
  <2>5. Task(w)'
    BY <1>0 DEF Tasks, LedgerTypes, TaskTypes, Task, Phase, Reply
  <2> QED
    BY <1>0, <2>1, <2>2, <2>3, <2>4, <2>5, OtherTasks DEF Tasks
<1>2. Onward
  BY <1>0 DEF Tasks, Onward, LedgerTypes, EventTypes, TaskTypes, Task
<1>3. KeepsEntries
  BY DEF KeepsEntries
<1>4. NoGap'
  BY DEF IInv, NoGap
<1>5. Counted(w)'
  BY <1>0 DEF Tasks, Counted, Task, TaskTypes, LedgerTypes
<1>6. Ends(w)'
  BY <1>0 DEF Tasks, Ends, Kept, Settled, Complete, Counted, Task, TaskTypes
<1>7. \A e \in (acked' \cup seen') \ (acked \cup seen) : Kept(e)'
  BY <1>0 DEF Ends, Kept, Settled, Complete
<1>8. \A e \in told' \ told : Complete(e)'
  BY <1>0 DEF Tasks, Complete, Counted, Task, TaskTypes
<1> QED
  BY <1>1, <1>2, <1>3, <1>4, <1>5, <1>6, <1>7, <1>8, Preserved

(* The database answers a call: it records a draw only after those before. *)
LEMMA ExecuteInductive ==
    ASSUME IInv, NEW w \in Worker, Execute(w)
    PROVE  IInv' /\ KeepsEntries
<1> USE LedgerAssumption, HandlingAssumption
<1> DEFINE e == job[w]
           i == done[w] + 1
<1>0. Tasks /\ Counted(w) /\ Ends(w) /\ NoGap
  BY DEF IInv
<1>1. /\ e \in Event /\ i \in 1..Draws[e] /\ Draws[e] \in 1..MaxDraws
      /\ pick[w] \in Card /\ phase[w] = "rpc"
      /\ UNCHANGED <<phase, taskVars, kvVars, twitchVars, histVars>>
  BY <1>0 DEF Tasks, TaskTypes, Task, Execute
<1>2. /\ history \in [Event -> [1..MaxDraws -> Card \cup {None}]]
      /\ reply \in [Worker -> Reply]
  BY <1>0 DEF Tasks, LedgerTypes
<1>3. /\ LedgerTypes' /\ \E a \in Reply \ {"none"} : reply' = [reply EXCEPT ![w] = a]
      /\ \/ history' = history
         \/ history' = [history EXCEPT ![e] = [@ EXCEPT ![i] = pick[w]]]
      /\ reply'[w] \in {"granted", "duplicate"} => history'[e][i] # None
  <2>1. CASE Grant(w, e, i, pick[w])
    <3>1. history' \in [Event -> [1..MaxDraws -> Card \cup {None}]]
      BY <1>1, <1>2, <2>1 DEF Grant
    <3>2. copies' \in [Card -> Nat] /\ outbox' \in SUBSET Event
      BY <1>0, <1>1, <2>1 DEF Tasks, LedgerTypes, Grant, Queued
    <3>3. history'[e][i] # None
      BY <1>1, <1>2, <2>1 DEF Grant
    <3> QED
      BY <1>0, <2>1, <3>1, <3>2, <3>3 DEF Tasks, LedgerTypes, Grant, Reply
  <2>2. CASE Duplicate(w, e, i)
    <3>1. outbox' \in SUBSET Event
      BY <1>0, <1>1, <2>2 DEF Tasks, LedgerTypes, Duplicate, Queued
    <3> QED
      BY <1>0, <2>2, <3>1 DEF Tasks, LedgerTypes, Duplicate, Reply
  <2>3. CASE LimitReached(w, e, i, pick[w])
    BY <1>0, <2>3 DEF Tasks, LedgerTypes, LimitReached, tables, Reply
  <2> QED
    BY <2>1, <2>2, <2>3 DEF Execute, Call
<1>4. \A d \in Event : \A k \in 1..MaxDraws :
        /\ history[d][k] # None => history'[d][k] # None
        /\ history'[d][k] # history[d][k] => d = e /\ k = i
  BY <1>1, <1>2, <1>3
<1>5. Tasks' /\ Others(w)
  <2>1. TaskTypes' /\ EventTypes'
    BY <1>0, <1>1 DEF Tasks, TaskTypes, EventTypes, taskVars, kvVars,
       twitchVars, histVars
  <2>2. Others(w)
    BY <1>1, <1>2, <1>3 DEF Others, taskVars
  <2>3. Task(w)'
    BY <1>0, <1>1 DEF Tasks, Task, taskVars
  <2> QED
    BY <1>0, <1>3, <2>1, <2>2, <2>3, OtherTasks DEF Tasks
<1>6. Onward
  BY <1>1, <1>4 DEF Onward, twitchVars, histVars
<1>7. KeepsEntries
  BY <1>1 DEF KeepsEntries, kvVars
<1>8. NoGap'
  <2> SUFFICES ASSUME NEW d \in Event, NEW k \in 1..Draws[d], NEW m \in 1..Draws[d],
                      k < m, history'[d][k] = None
               PROVE  history'[d][m] = None
    BY DEF NoGap
  <2>1. Draws[d] \in 1..MaxDraws /\ k \in 1..MaxDraws /\ m \in 1..MaxDraws
    BY LedgerAssumption
  <2>2. history[d][k] = None /\ history[d][m] = None
    BY <1>0, <1>4, <2>1 DEF NoGap
  <2>3. ~(d = e /\ m = i)
    BY <1>0, <1>1, <2>2 DEF Counted, Tasks, TaskTypes
  <2> QED
    BY <1>4, <2>1, <2>2, <2>3
<1>9. Counted(w)'
  <2>1. \A k \in 1..done[w] : history'[e][k] # None
    BY <1>0, <1>1, <1>4 DEF Counted, Tasks, TaskTypes
  <2> QED
    BY <1>1, <1>3, <2>1 DEF Counted, taskVars
<1>10. Ends(w)'
  BY <1>1 DEF Ends
<1>11. acked' \cup seen' = acked \cup seen /\ told' = told
  BY <1>1 DEF twitchVars, kvVars, histVars
<1> QED
  BY <1>5, <1>6, <1>7, <1>8, <1>9, <1>10, <1>11, Preserved

(* The connection breaks.                                                  *)
LEMMA CallFailsInductive ==
    ASSUME IInv, NEW w \in Worker, CallFails(w)
    PROVE  IInv' /\ KeepsEntries
<1> USE LedgerAssumption, HandlingAssumption DEF CallFails, Lose, Retry,
       Leave, Goto, ledgerVars, tables, taskVars, kvVars, twitchVars,
       histVars
<1>0. Tasks /\ Counted(w) /\ Ends(w)
  BY DEF IInv
<1>1. Tasks' /\ Others(w)
  <2>1. LedgerTypes'
    BY <1>0 DEF Tasks, TaskTypes, Task, LedgerTypes, Reply
  <2>2. TaskTypes'
    BY <1>0 DEF Tasks, TaskTypes, Task, Phase
  <2>3. EventTypes'
    BY <1>0 DEF Tasks, EventTypes, TaskTypes, Task
  <2>4. Others(w)
    BY <1>0 DEF Tasks, LedgerTypes, TaskTypes, Others
  <2>5. Task(w)'
    BY <1>0 DEF Tasks, LedgerTypes, TaskTypes, Task, Phase, Reply
  <2> QED
    BY <1>0, <2>1, <2>2, <2>3, <2>4, <2>5, OtherTasks DEF Tasks
<1>2. Onward
  BY <1>0 DEF Tasks, Onward, LedgerTypes, EventTypes, TaskTypes, Task
<1>3. KeepsEntries
  BY DEF KeepsEntries
<1>4. NoGap'
  BY DEF IInv, NoGap
<1>5. Counted(w)'
  BY <1>0 DEF Tasks, Counted, Task, TaskTypes, LedgerTypes
<1>6. Ends(w)'
  BY <1>0 DEF Tasks, Ends, Kept, Settled, Complete, Counted, Task, TaskTypes
<1>7. \A e \in (acked' \cup seen') \ (acked \cup seen) : Kept(e)'
  BY <1>0 DEF Ends, Kept, Settled, Complete
<1>8. \A e \in told' \ told : Complete(e)'
  BY <1>0 DEF Tasks, Complete, Counted, Task, TaskTypes
<1> QED
  BY <1>1, <1>2, <1>3, <1>4, <1>5, <1>6, <1>7, <1>8, Preserved

(* A draw is granted.                                                      *)
LEMMA GrantedInductive ==
    ASSUME IInv, NEW w \in Worker, Granted(w)
    PROVE  IInv' /\ KeepsEntries
<1> USE LedgerAssumption, HandlingAssumption DEF Granted, Lose, Succeed,
       Close, Goto, ledgerVars, tables, kvVars, twitchVars
<1>0. Tasks /\ Counted(w) /\ Ends(w)
  BY DEF IInv
<1>1. Tasks' /\ Others(w)
  <2>1. LedgerTypes'
    BY <1>0 DEF Tasks, TaskTypes, Task, LedgerTypes, Reply
  <2>2. TaskTypes'
    BY <1>0 DEF Tasks, TaskTypes, Task, Phase
  <2>3. EventTypes'
    BY <1>0 DEF Tasks, EventTypes, TaskTypes, Task
  <2>4. Others(w)
    BY <1>0 DEF Tasks, LedgerTypes, TaskTypes, Others
  <2>5. Task(w)'
    BY <1>0 DEF Tasks, LedgerTypes, TaskTypes, Task, Phase, Reply
  <2> QED
    BY <1>0, <2>1, <2>2, <2>3, <2>4, <2>5, OtherTasks DEF Tasks
<1>2. Onward
  BY <1>0 DEF Tasks, Onward, LedgerTypes, EventTypes, TaskTypes, Task
<1>3. KeepsEntries
  BY DEF KeepsEntries
<1>4. NoGap'
  BY DEF IInv, NoGap
<1>5. Counted(w)'
  BY SMTT(30), <1>0 DEF Tasks, Counted, Task, TaskTypes, LedgerTypes
<1>6. Ends(w)'
  <2>1. done[w] + 1 = Draws[job[w]] => Complete(job[w])
    BY <1>0 DEF Tasks, TaskTypes, Task, Counted, Complete
  <2> QED
    BY <1>0, <2>1 DEF Tasks, TaskTypes, Ends, Kept, Settled, Complete
<1>7. \A e \in (acked' \cup seen') \ (acked \cup seen) : Kept(e)'
  BY <1>0 DEF Ends, Kept, Settled, Complete
<1>8. \A e \in told' \ told : Complete(e)'
  BY <1>0 DEF Tasks, Complete, Counted, Task, TaskTypes
<1> QED
  BY <1>1, <1>2, <1>3, <1>4, <1>5, <1>6, <1>7, <1>8, Preserved

(* A draw was on record already.                                           *)
LEMMA FoundDuplicateInductive ==
    ASSUME IInv, NEW w \in Worker, FoundDuplicate(w)
    PROVE  IInv' /\ KeepsEntries
<1> USE LedgerAssumption, HandlingAssumption DEF FoundDuplicate, Lose,
       Succeed, Close, Goto, ledgerVars, tables, taskVars, kvVars, twitchVars
<1>0. Tasks /\ Counted(w) /\ Ends(w)
  BY DEF IInv
<1>1. Tasks' /\ Others(w)
  <2>1. LedgerTypes'
    BY <1>0 DEF Tasks, TaskTypes, Task, LedgerTypes, Reply
  <2>2. TaskTypes'
    BY <1>0 DEF Tasks, TaskTypes, Task, Phase
  <2>3. EventTypes'
    BY <1>0 DEF Tasks, EventTypes, TaskTypes, Task
  <2>4. Others(w)
    BY <1>0 DEF Tasks, LedgerTypes, TaskTypes, Others
  <2>5. Task(w)'
    BY <1>0 DEF Tasks, LedgerTypes, TaskTypes, Task, Phase, Reply
  <2> QED
    BY <1>0, <2>1, <2>2, <2>3, <2>4, <2>5, OtherTasks DEF Tasks
<1>2. Onward
  BY <1>0 DEF Tasks, Onward, LedgerTypes, EventTypes, TaskTypes, Task
<1>3. KeepsEntries
  BY DEF KeepsEntries
<1>4. NoGap'
  BY DEF IInv, NoGap
<1>5. Counted(w)'
  BY <1>0 DEF Tasks, Counted, Task, TaskTypes, LedgerTypes
<1>6. Ends(w)'
  <2>0. /\ done[w] \in 0..MaxDraws /\ history[job[w]][done[w] + 1] # None
        /\ \A i \in 1..done[w] : history[job[w]][i] # None
    BY <1>0 DEF Tasks, TaskTypes, Counted
  <2>1. done[w] + 1 = Draws[job[w]] => Complete(job[w])
    <3> HIDE DEF FoundDuplicate
    <3> QED
      BY <2>0 DEF Complete
  <2>2. Draws[job[w]] = 1 => done[w] + 1 = Draws[job[w]]
    BY <1>0 DEF Tasks, TaskTypes, Task
  <2>3. job[w] \in Event /\ Draws[job[w]] \in 1..MaxDraws
    BY <1>0 DEF Tasks, Task
  <2>4. phase'[w] \in {"mark", "drop"} => Complete(job[w])
    BY <1>0, <2>1, <2>2, <2>3 DEF Tasks, TaskTypes
  <2> QED
    BY <1>0, <2>4 DEF Tasks, TaskTypes, Ends, Kept, Settled, Complete
<1>7. \A e \in (acked' \cup seen') \ (acked \cup seen) : Kept(e)'
  BY <1>0 DEF Ends, Kept, Settled, Complete
<1>8. \A e \in told' \ told : Complete(e)'
  BY <1>0 DEF Tasks, Complete, Counted, Task, TaskTypes
<1> QED
  BY <1>1, <1>2, <1>3, <1>4, <1>5, <1>6, <1>7, <1>8, Preserved

(* A batch that met a duplicate counts again: the draw it met is there, so *)
(* it has more draws than before, or all of them.                          *)
LEMMA RereadInductive ==
    ASSUME IInv, NEW w \in Worker, Reread(w)
    PROVE  IInv' /\ KeepsEntries
<1> USE LedgerAssumption, HandlingAssumption DEF Reread, Close, Goto,
       ledgerVars, tables, kvVars, twitchVars, histVars
<1>0. Tasks /\ Counted(w) /\ Ends(w)
  BY DEF IInv
<1>1. Tasks' /\ Others(w)
  <2>1. LedgerTypes'
    BY <1>0 DEF Tasks, TaskTypes, Task, LedgerTypes, Reply
  <2>2. TaskTypes'
    BY <1>0 DEF Tasks, TaskTypes, Task, Phase
  <2>3. EventTypes'
    BY <1>0 DEF Tasks, EventTypes, TaskTypes, Task
  <2>4. Others(w)
    BY <1>0 DEF Tasks, LedgerTypes, TaskTypes, Others
  <2>5. Task(w)'
    BY <1>0 DEF Tasks, LedgerTypes, TaskTypes, Task, Phase, Reply
  <2> QED
    BY <1>0, <2>1, <2>2, <2>3, <2>4, <2>5, OtherTasks DEF Tasks
<1>2. Onward
  BY <1>0 DEF Tasks, Onward, LedgerTypes, EventTypes, TaskTypes, Task
<1>3. KeepsEntries
  BY DEF KeepsEntries
<1>4. NoGap'
  BY DEF IInv, NoGap
<1>5. Counted(w)' /\ Ends(w)'
  <2>1. PICK p \in 0..Draws[job[w]] :
          /\ IsPrefix(job[w], p)
          /\ IF p > done[w] /\ p < Draws[job[w]]
             THEN done' = [done EXCEPT ![w] = p] /\ Goto(w, "cards")
             ELSE Close(w) /\ UNCHANGED done
    OBVIOUS
  <2>2. /\ done[w] \in 0..MaxDraws /\ Draws[job[w]] \in 1..MaxDraws
        /\ \A i \in 1..(done[w] + 1) : history[job[w]][i] # None
        /\ done[w] + 1 < Draws[job[w]]
    BY <1>0 DEF Tasks, TaskTypes, Task, Counted
  <2>3. p < Draws[job[w]] => p > done[w]
    BY <2>1, <2>2 DEF IsPrefix
  <2>4. p = Draws[job[w]] => Complete(job[w])
    BY <2>1 DEF IsPrefix, Complete
  <2>5. reply'[w] = "none" /\ job'[w] = job[w]
    BY <1>0 DEF Tasks, Task
  <2>6. CASE p < Draws[job[w]]
    BY <1>0, <2>1, <2>2, <2>3, <2>5, <2>6
    DEF IsPrefix, Counted, Ends, Tasks, TaskTypes
  <2>7. CASE p = Draws[job[w]]
    BY <1>0, <2>1, <2>2, <2>4, <2>5, <2>7
    DEF Counted, Ends, Kept, Settled, Complete, Tasks, TaskTypes
  <2> QED
    BY <2>2, <2>6, <2>7
<1>7. \A e \in (acked' \cup seen') \ (acked \cup seen) : Kept(e)'
  BY <1>0 DEF Ends, Kept, Settled, Complete
<1>8. \A e \in told' \ told : Complete(e)'
  BY <1>0 DEF Tasks, Complete, Counted, Task, TaskTypes
<1> QED
  BY <1>1, <1>2, <1>3, <1>4, <1>5, <1>7, <1>8, Preserved

(* The card was exhausted.                                                 *)
LEMMA ReselectInductive ==
    ASSUME IInv, NEW w \in Worker, Reselect(w)
    PROVE  IInv' /\ KeepsEntries
<1> USE LedgerAssumption, HandlingAssumption DEF Reselect, Lose, SoldOut,
       Select, Retry, Close, Leave, Goto, ledgerVars, tables, taskVars,
       kvVars, histVars
<1>0. Tasks /\ Counted(w) /\ Ends(w)
  BY DEF IInv
<1>1. Tasks' /\ Others(w)
  <2>1. LedgerTypes'
    BY <1>0 DEF Tasks, TaskTypes, Task, LedgerTypes, Reply
  <2>2. TaskTypes'
    BY <1>0 DEF Tasks, TaskTypes, Task, Phase
  <2>3. EventTypes'
    BY <1>0 DEF Tasks, EventTypes, TaskTypes, Task
  <2>4. Others(w)
    BY <1>0 DEF Tasks, LedgerTypes, TaskTypes, Others
  <2>5. Task(w)'
    BY SMTT(30), <1>0 DEF Tasks, LedgerTypes, TaskTypes, Task, Phase, Reply
  <2> QED
    BY <1>0, <2>1, <2>2, <2>3, <2>4, <2>5, OtherTasks DEF Tasks
<1>2. Onward
  BY <1>0 DEF Tasks, Onward, LedgerTypes, EventTypes, TaskTypes, Task
<1>3. KeepsEntries
  BY DEF KeepsEntries
<1>4. NoGap'
  BY DEF IInv, NoGap
<1>5. Counted(w)' /\ Ends(w)'
  <2>1. reply'[w] = "none"
    BY <1>0 DEF Tasks, Task, LedgerTypes
  <2>2. CASE SoldOut(w)
    BY <1>0, <2>1, <2>2, SoldOutCounted
  <2>3. CASE Retry(w)
    BY <1>0, <2>1, <2>3, RetryCounted
  <2>4. ASSUME NEW s \in SUBSET Card, Select(w, s), UNCHANGED <<job, done>>
        PROVE  Counted(w)' /\ Ends(w)'
    BY <1>0, <2>1, <2>4 DEF Tasks, TaskTypes, Counted, Ends
  <2> QED
    BY <1>0, <2>2, <2>3, <2>4 DEF Tasks, TaskTypes
<1>7. \A e \in (acked' \cup seen') \ (acked \cup seen) : Kept(e)'
  BY <1>0 DEF Ends, Kept, Settled, Complete
<1>8. \A e \in told' \ told : Complete(e)'
  BY <1>0 DEF Tasks, Complete, Counted, Task, TaskTypes
<1> QED
  BY <1>1, <1>2, <1>3, <1>4, <1>5, <1>7, <1>8, Preserved

(* What is not a step of an invocation: a delivery begins one with nothing *)
(* counted, and so does a replay.                                          *)
LEMMA SendInductive ==
    ASSUME IInv, NEW w \in Worker, NEW e \in Event, Send(w, e)
    PROVE  IInv' /\ KeepsEntries
<1> USE LedgerAssumption, HandlingAssumption
        DEF Send, Goto, ledgerVars, tables, kvVars, histVars
<1>0. Tasks /\ Counted(w)
  BY DEF IInv
<1>1. Tasks' /\ Others(w)
  <2>1. LedgerTypes'
    BY <1>0 DEF Tasks, LedgerTypes
  <2>2. TaskTypes'
    BY <1>0 DEF Tasks, TaskTypes, EventTypes, Phase
  <2>3. EventTypes'
    BY <1>0 DEF Tasks, EventTypes
  <2>4. Others(w)
    BY <1>0 DEF Tasks, TaskTypes, Others
  <2>5. Task(w)'
    BY <1>0 DEF Tasks, TaskTypes, EventTypes, Task
  <2> QED
    BY <1>0, <2>1, <2>2, <2>3, <2>4, <2>5, OtherTasks DEF Tasks
<1>2. Onward
  BY DEF Onward
<1>3. KeepsEntries
  BY DEF KeepsEntries
<1>4. NoGap'
  BY DEF IInv, NoGap
<1>5. Counted(w)' /\ Ends(w)'
  BY <1>0 DEF Tasks, TaskTypes, Task, Counted, Ends
<1>6. acked' \cup seen' = acked \cup seen /\ told' = told
  OBVIOUS
<1> QED
  BY <1>1, <1>2, <1>3, <1>4, <1>5, <1>6, Preserved

(* A replay takes up a parked entry.                                      *)
LEMMA ReplayInductive ==
    ASSUME IInv, NEW w \in Worker, NEW k \in parked, Replay(w, k)
    PROVE  IInv' /\ KeepsEntries
<1> USE LedgerAssumption, HandlingAssumption
        DEF Replay, Goto, ledgerVars, tables, kvVars, twitchVars, histVars
<1>0. Tasks /\ Counted(w)
  BY DEF IInv
<1>1. Tasks' /\ Others(w)
  <2>0. k[1] \in Event /\ k[2] \in 1..MaxSends
    BY <1>0 DEF Tasks, EventTypes
  <2>1. LedgerTypes' /\ EventTypes'
    BY <1>0 DEF Tasks, LedgerTypes, EventTypes
  <2>2. TaskTypes'
    BY <1>0, <2>0 DEF Tasks, TaskTypes, Phase
  <2>3. Others(w)
    BY <1>0 DEF Tasks, TaskTypes, Others
  <2>4. Task(w)'
    BY <1>0, <2>0 DEF Tasks, TaskTypes, Task
  <2> QED
    BY <1>0, <2>1, <2>2, <2>3, <2>4, OtherTasks DEF Tasks
<1>2. Onward
  BY DEF Onward
<1>3. KeepsEntries
  BY DEF KeepsEntries
<1>4. NoGap'
  BY DEF IInv, NoGap
<1>5. Counted(w)' /\ Ends(w)'
  BY <1>0 DEF Tasks, TaskTypes, Task, Counted, Ends
<1>6. acked' \cup seen' = acked \cup seen /\ told' = told
  OBVIOUS
<1> QED
  BY <1>1, <1>2, <1>3, <1>4, <1>5, <1>6, Preserved

(* The background, time and the streamer leave the invocations alone.      *)
LEMMA SurroundingsInductive ==
    ASSUME IInv,
           \/ \E e \in Event : RefundEnds(e) \/ ExpireSeen(e)
           \/ \E k \in parked : ExpireParked(k)
           \/ \E c \in Editable : Edit(c)
    PROVE  IInv' /\ KeepsEntries
<1> USE LedgerAssumption, HandlingAssumption
<1>0. Tasks
  BY DEF IInv
<1>1. /\ UNCHANGED <<phase, taskVars, history, copies, outbox, reply, acked, told>>
      /\ seen' \subseteq seen /\ parked' \subseteq parked
      /\ limit' \in [Card -> Limits] /\ active' \in SUBSET Card
      /\ EventTypes'
  <2> USE <1>0 DEF Tasks, LedgerTypes, EventTypes, ledgerVars, tables, kvVars,
          twitchVars, histVars
  <2>1. CASE \E e \in Event : RefundEnds(e)
    BY <2>1 DEF RefundEnds
  <2>2. CASE \E e \in Event : ExpireSeen(e)
    BY <2>2 DEF ExpireSeen
  <2>3. CASE \E k \in parked : ExpireParked(k)
    BY <2>3 DEF ExpireParked
  <2>4. CASE \E c \in Editable : Edit(c)
    BY <2>4 DEF Edit, EditCard
  <2> QED
    BY <2>1, <2>2, <2>3, <2>4
<1>2. Tasks'
  BY <1>0, <1>1 DEF Tasks, LedgerTypes, TaskTypes, Task, taskVars
<1>3. Onward
  BY <1>0, <1>1 DEF Onward, Tasks, EventTypes, RefundEnds, ExpireSeen,
     ExpireParked, Edit, EditCard, twitchVars, histVars
<1>4. KeepsEntries
  BY DEF KeepsEntries, Settled, RefundEnds, ExpireSeen, ExpireParked, Edit,
     EditCard, kvVars
<1>5. ASSUME NEW e \in Event, Kept(e) PROVE Kept(e)'
  BY <1>3, <1>4, <1>5, OnwardSettled DEF Kept, KeepsEntries
<1>6. ASSUME NEW w \in Worker PROVE Counted(w)' /\ Ends(w)'
  <2>1. Counted(w) /\ Ends(w) /\ Task(w)
    BY <1>0 DEF IInv, Tasks
  <2> QED
    BY <1>1, <1>3, <1>5, <2>1, OnwardSettled DEF Counted, Ends, Task, taskVars
<1>7. \A e \in acked' \cup seen' : Kept(e)'
  BY <1>0, <1>1, <1>5 DEF IInv, Tasks, EventTypes
<1>8. NoGap' /\ ToldComplete'
  BY <1>1 DEF IInv, NoGap, ToldComplete, Complete
<1> QED
  BY <1>2, <1>4, <1>6, <1>7, <1>8 DEF IInv

(* One step per action.                                                    *)
LEMMA NextInductive == IInv /\ [Next]_vars => IInv' /\ [KeepsEntries]_vars
<1> SUFFICES ASSUME IInv, [Next]_vars PROVE IInv' /\ [KeepsEntries]_vars
  OBVIOUS
<1> USE LedgerAssumption, HandlingAssumption
<1>0. Tasks
  BY DEF IInv
<1>1. ASSUME NEW w \in Worker, NEW e \in Event, Send(w, e)
      PROVE  IInv' /\ KeepsEntries
  BY <1>1, SendInductive
<1>2. ASSUME NEW w \in Worker, NEW k \in parked, Replay(w, k)
      PROVE  IInv' /\ KeepsEntries
  BY <1>2, ReplayInductive
<1>3. ASSUME NEW w \in Worker, Webhook(w) \/ Drop(w) \/ Stop(w)
      PROVE  IInv' /\ KeepsEntries
  BY <1>3, SkipSeenInductive, PassDedupInductive, HoldInductive,
     HoldFailsInductive, ParkInductive, ParkFailsInductive,
     MarkSeenInductive, DropInductive, StopInductive DEF Webhook
<1>4. ASSUME NEW w \in Worker, Draw(w)
      PROVE  IInv' /\ KeepsEntries
  BY <1>4, FailsInductive, RefuseInductive, LookupInductive,
     ReadPrefixInductive, ReadCardsInductive, NoCardsInductive,
     ExecuteInductive, CallFailsInductive, GrantedInductive,
     FoundDuplicateInductive, RereadInductive, ReselectInductive DEF Draw
<1>5. ASSUME (\E e \in Event : RefundEnds(e) \/ ExpireSeen(e))
               \/ (\E k \in parked : ExpireParked(k))
               \/ (\E c \in Editable : Edit(c))
      PROVE  IInv' /\ KeepsEntries
  BY <1>5, SurroundingsInductive
<1>6. CASE UNCHANGED vars
  <2>0. /\ history' = history /\ phase' = phase /\ job' = job /\ done' = done
        /\ reply' = reply /\ parked' = parked /\ refund' = refund
        /\ closed' = closed /\ lost' = lost /\ acked' = acked /\ seen' = seen
    BY <1>6 DEF vars
  <2>1. Tasks'
    BY <1>0, <1>6 DEF vars, Tasks, LedgerTypes, TaskTypes, EventTypes, Task
  <2>2. NoGap' /\ ToldComplete'
    BY <1>6 DEF vars, IInv, NoGap, ToldComplete, Complete
  <2>3. ASSUME NEW e PROVE (Settled(e)' <=> Settled(e)) /\ (Kept(e)' <=> Kept(e))
    BY <2>0 DEF Kept, Settled, Complete
  <2>4. ASSUME NEW w \in Worker PROVE Counted(w)'
    <3>1. Counted(w)
      BY DEF IInv
    <3>2. \A i \in 1..done'[w] : history'[job'[w]][i] # None
      BY <2>0, <3>1 DEF Counted
    <3>3. phase'[w] = "reread" \/ reply'[w] \in {"granted", "duplicate"}
            => history'[job'[w]][done'[w] + 1] # None
      BY <2>0, <3>1 DEF Counted
    <3> QED
      BY <3>2, <3>3 DEF Counted
  <2>5. ASSUME NEW w \in Worker PROVE Ends(w)'
    <3>1. Ends(w)
      BY DEF IInv
    <3>2. PICK e : e = job[w]
      OBVIOUS
    <3>3. /\ phase[w] = "mark" => Kept(e)
          /\ phase[w] = "drop" => Settled(e)
      BY <3>1, <3>2 DEF Ends
    <3>4. (Settled(e)' <=> Settled(e)) /\ (Kept(e)' <=> Kept(e))
      BY <2>3
    <3>5. e = job'[w]
      BY <2>0, <3>2
    <3>6. /\ phase'[w] = "mark" => Kept(e)'
          /\ phase'[w] = "drop" => Settled(e)'
      BY <2>0, <3>3, <3>4
    <3> QED
      BY <3>5, <3>6 DEF Ends, Kept, Settled, Complete
  <2>6. \A e \in acked' \cup seen' : Kept(e)'
    BY <2>0, <2>3 DEF IInv
  <2> QED
    BY <1>6, <2>1, <2>2, <2>4, <2>5, <2>6 DEF IInv
<1> QED
  BY <1>1, <1>2, <1>3, <1>4, <1>5, <1>6 DEF Next

(* The invariant holds at the start and through every step.                *)
LEMMA Invariance == Spec => []IInv
<1>1. Init => IInv
  <2>1. Init => Tasks
    BY LedgerAssumption, HandlingAssumption
    DEF Init, LedgerInit, Tasks, LedgerTypes, TaskTypes, EventTypes, Task,
        Phase, Reply
  <2>2. Init => \A w \in Worker : Counted(w) /\ Ends(w)
    BY HandlingAssumption DEF Init, LedgerInit, Counted, Ends
  <2>3. Init => NoGap
    BY LedgerAssumption DEF Init, LedgerInit, NoGap
  <2>4. Init => ToldComplete /\ \A e \in acked \cup seen : Kept(e)
    BY DEF Init, ToldComplete
  <2> QED
    BY <2>1, <2>2, <2>3, <2>4 DEF IInv
<1>2. IInv /\ [Next]_vars => IInv'
  BY NextInductive
<1> QED
  BY <1>1, <1>2, PTL DEF Spec

-----------------------------------------------------------------------------
(* The results                                                             *)

(* Every variable keeps its type.                                          *)
THEOREM TypesHold == Spec => []TypeOK
<1>1. IInv => TypeOK
  BY DEF IInv, Tasks, TypeOK, TaskTypes, EventTypes
<1> QED
  BY <1>1, Invariance, PTL

(* Whoever handles an event, and however often: the draws of a batch are   *)
(* recorded without a gap, an event that Twitch has a 2xx for is settled or*)
(* parked, and only a complete batch is announced.                         *)
THEOREM HandlingAlwaysHolds == Spec => []HandlingHolds
<1>1. IInv => HandlingHolds
  <2>1. NoGap => DrawsInOrder
    BY LedgerAssumption DEF NoGap, DrawsInOrder
  <2> QED
    BY <2>1 DEF IInv, HandlingHolds, AcceptedIsKept, Kept
<1> QED
  BY <1>1, Invariance, PTL

(* A parked entry disappears only when its event is settled: the route of  *)
(* the replay deletes it after a definite outcome only.                    *)
THEOREM EntriesAreKept == Spec => [][KeepsEntries]_vars
  BY Invariance, NextInductive, PTL DEF Spec

-----------------------------------------------------------------------------
(* Handlings use the ledger, the transaction's abstraction, as it promises.*)

(* A step of a handling is a step of the ledger, or none.                  *)
LEMMA LedgerStep == IInv /\ [Next]_vars => [LedgerNext]_ledgerVars
<1> SUFFICES ASSUME IInv, [Next]_vars, ~UNCHANGED ledgerVars PROVE LedgerNext
  OBVIOUS
<1> USE LedgerAssumption, HandlingAssumption
<1>1. ASSUME NEW w \in Worker, Lose(w) PROVE LedgerNext
  BY <1>1 DEF LedgerNext
<1>2. ASSUME NEW w \in Worker, Execute(w) PROVE LedgerNext
  <2>1. /\ job[w] \in Event /\ done[w] + 1 \in 1..Draws[job[w]]
        /\ pick[w] \in Card /\ w \in Caller
    BY <1>2 DEF IInv, Tasks, TaskTypes, Task, Execute
  <2>2. Call(w, job[w], done[w] + 1, pick[w])
    BY <1>2 DEF Execute
  <2> QED
    BY <2>1, <2>2 DEF LedgerNext
<1>3. ASSUME NEW c \in Editable, Edit(c) PROVE LedgerNext
  BY <1>3 DEF Edit, LedgerNext
<1>4. ASSUME NEW w \in Worker, Draw(w) PROVE LedgerNext
  BY <1>1, <1>2, <1>4 DEF Draw, Fails, Refuse, Lookup, ReadPrefix, ReadCards,
     NoCards, CallFails, Granted, FoundDuplicate, Reread, Reselect
<1>5. ASSUME NEW w \in Worker, Webhook(w) PROVE FALSE
  BY <1>5 DEF Webhook, SkipSeen, PassDedup, Hold, HoldFails, Park, ParkFails,
     MarkSeen
<1>6. ~UNCHANGED vars
  BY DEF vars, ledgerVars
<1> QED
  BY <1>1, <1>3, <1>4, <1>5, <1>6
  DEF Next, Drop, Stop, Send, Replay, RefundEnds, ExpireSeen, ExpireParked

(* Every call a handling makes is one the abstract ledger, which the gacha *)
(* transaction implements, allows.                                         *)
THEOREM HandlingImplementsLedger == Spec => LedgerSpec
<1>1. Init => LedgerInit
  BY DEF Init
<1> QED
  BY <1>1, LedgerStep, Invariance, PTL DEF Spec, LedgerSpec

-----------------------------------------------------------------------------
(* Handlings one after the other                                           *)

(* Nobody else draws for the event between the count and the refund.       *)
Fresh(w) ==
    done[w] = 0 /\ Draws[job[w]] > 1
        => (phase[w] = "cards" \/ reply[w] = "limit" => history[job[w]][1] = None)

(* What the only handling has counted is what is on record.                *)
LEMMA FreshInductive ==
    ASSUME NEW w \in Worker, Worker = {w}, IInv, Fresh(w), [Next]_vars
    PROVE  Fresh(w)'
<1> USE LedgerAssumption, HandlingAssumption
<1>0. Tasks /\ Counted(w)
  BY DEF IInv
<1>1. CASE UNCHANGED <<phase, job, done, history, reply>>
  BY <1>1 DEF Fresh
<1>2. ASSUME NEW e \in Event, Send(w, e) PROVE Fresh(w)'
  BY <1>0, <1>2 DEF Tasks, TaskTypes, Task, Send, Goto, Fresh, ledgerVars, tables
<1>3. ASSUME NEW k \in parked, Replay(w, k) PROVE Fresh(w)'
  BY <1>0, <1>3 DEF Tasks, TaskTypes, Task, Replay, Goto, Fresh, ledgerVars, tables
<1>4. CASE reply'[w] = "none" /\ phase'[w] # "cards"
  BY <1>4 DEF Fresh
<1>5. CASE Draw(w)
  <2>1. CASE Lookup(w)
    BY <1>0, <2>1 DEF Tasks, TaskTypes, Task, Lookup, Goto, Fresh, taskVars,
       ledgerVars, tables
  <2>2. CASE ReadPrefix(w)
    BY <1>0, <2>2 DEF Tasks, TaskTypes, Task, ReadPrefix, IsPrefix, Close, Goto,
       Fresh, ledgerVars, tables
  <2>3. CASE Execute(w)
    BY <1>0, <2>3 DEF Tasks, TaskTypes, Task, LedgerTypes, Execute, Call, Grant,
       Duplicate, LimitReached, Fresh, taskVars, tables
  <2>4. CASE Granted(w)
    BY <1>0, <2>4 DEF Tasks, TaskTypes, Granted, Fresh
  <2>5. CASE Reread(w)
    BY <1>0, <2>5 DEF Tasks, TaskTypes, Task, Reread, Close, Goto, Fresh,
       ledgerVars, tables
  <2>6. CASE Fails(w) \/ Refuse(w) \/ ReadCards(w) \/ NoCards(w)
    BY <1>0, <1>4, <2>6 DEF Tasks, TaskTypes, Task, Fails, Refuse, ReadCards,
       NoCards, SoldOut, Select, Retry, Close, Leave, Goto, ledgerVars
  <2>7. CASE CallFails(w) \/ FoundDuplicate(w) \/ Reselect(w)
    BY <1>0, <1>4, <2>7 DEF Tasks, TaskTypes, LedgerTypes, CallFails,
       FoundDuplicate, Reselect, Lose, Succeed, SoldOut, Select, Retry, Close,
       Leave, Goto, taskVars
  <2> QED
    BY <1>5, <2>1, <2>2, <2>3, <2>4, <2>5, <2>6, <2>7 DEF Draw
<1>6. CASE Webhook(w) \/ Drop(w) \/ Stop(w)
  <2>1. reply'[w] = "none" /\ phase'[w] # "cards"
    BY <1>0, <1>6 DEF Tasks, TaskTypes, LedgerTypes, Task, Webhook, SkipSeen,
       PassDedup, Hold, HoldFails, Park, ParkFails, MarkSeen, Drop, Stop, Lose,
       Leave, Goto, ledgerVars
  <2> QED
    BY <1>4, <2>1
<1> QED
  BY <1>1, <1>2, <1>3, <1>5, <1>6
  DEF Next, RefundEnds, ExpireSeen, ExpireParked, Edit, EditCard, ledgerVars,
      taskVars, vars

(* Sold out is only reported with what has been counted.                   *)
LEMMA FreshUnrefunded ==
    ASSUME NEW w \in Worker, Worker = {w}, IInv, Fresh(w), [Next]_vars
    PROVE  [NoBatchRefunded]_vars
<1> USE LedgerAssumption, HandlingAssumption
<1>0. Tasks /\ NoGap
  BY DEF IInv
<1>1. ASSUME NEW e \in Event, Draws[e] > 1, history[e][1] = None,
             NEW i \in 1..Draws[e]
      PROVE  history[e][i] = None
  BY <1>0, <1>1 DEF NoGap
<1>2. ASSUME SoldOut(w), phase[w] = "cards" \/ reply[w] = "limit"
      PROVE  NoBatchRefunded
  <2>1. job[w] \in Event
    BY <1>0, <1>2 DEF Tasks, Task
  <2>2. ASSUME NEW e \in Event, refund[e] = "none", refund'[e] # "none"
        PROVE  e = job[w] /\ done[w] = 0
    BY <1>0, <1>2, <2>2 DEF Tasks, EventTypes, SoldOut
  <2> QED
    BY <1>1, <1>2, <2>1, <2>2 DEF NoBatchRefunded, Fresh
<1>3. CASE UNCHANGED refund
  BY <1>3 DEF NoBatchRefunded
<1>4. ASSUME NEW e \in Event, RefundEnds(e) PROVE NoBatchRefunded
  BY <1>0, <1>4 DEF Tasks, EventTypes, NoBatchRefunded, RefundEnds
<1>5. CASE ReadCards(w) \/ Reselect(w)
  BY <1>2, <1>3, <1>5 DEF ReadCards, Reselect
<1> QED
  BY <1>3, <1>4, <1>5
  DEF Next, Webhook, SkipSeen, PassDedup, Hold, HoldFails, Park, ParkFails,
      MarkSeen, Drop, Stop, Draw, Fails, Refuse, Lookup, ReadPrefix, NoCards,
      Execute, CallFails, Granted, FoundDuplicate, Reread, Send, Replay,
      ExpireSeen, ExpireParked, Edit, twitchVars, vars

(* One handling after the other never cancels the redemption of a batch    *)
(* that has a draw on record.                                              *)
THEOREM AloneKeepsBatches ==
    ASSUME NEW w \in Worker, Worker = {w}
    PROVE  Spec => [][NoBatchRefunded]_vars
<1>1. Init => Fresh(w)
  BY HandlingAssumption DEF Init, LedgerInit, Fresh
<1>2. IInv /\ Fresh(w) /\ [Next]_vars => Fresh(w)' /\ [NoBatchRefunded]_vars
  BY FreshInductive, FreshUnrefunded
<1> QED
  BY <1>1, <1>2, Invariance, PTL DEF Spec

-----------------------------------------------------------------------------
(* The packs of the cards.                                                 *)

Dash == [names : SUBSET Name, cards : [Card -> Packs!Pack], weights : SUBSET Name,
         list : SUBSET Name, removed : SUBSET Name, added : SUBSET Name,
         modal : {"none", "packs", "weights"}]
Inquiry == [ask : Packs!Asked, stage : {"none", "sent", "read", "refused", "done"},
         seen : Packs!Row, persisted : SUBSET Name, gated : BOOLEAN]

(* What the page asks for: one request of a kind, about one card at most.  *)
Asks(q) ==
    /\ q.kind \in Kinds \cap {"names", "weights", "rename", "card", "bind"}
    /\ q.kind = "rename" => q.old \in Name /\ q.new \in Name
    /\ q.kind = "card" => \E c \in Card : q.card = {c}

PackTypes ==
    /\ settings \in Packs!Row /\ premium \in BOOLEAN
    /\ page \in [Tab -> Dash] /\ call \in [Tab -> Inquiry]
    /\ act \in Packs!Asked /\ dropped \in SUBSET Name
    /\ unheard \in Nat /\ lapses \in Nat
    /\ \A t \in Tab : call[t].stage # "none" => Asks(call[t].ask)

(* A step of tab t leaves the other tabs where they are.                   *)
PageMoves(t, y) == y \in Dash /\ page' = [page EXCEPT ![t] = y]
InquiryMoves(t, z) == z \in Inquiry /\ call' = [call EXCEPT ![t] = z]

LEMMA BlankTypes ==
    /\ Packs!Nothing \in Packs!Asked /\ Packs!Blank \in Packs!Row
    /\ Packs!Idle(Packs!Blank) \in Inquiry
    /\ Packs!Idle(Packs!Blank).stage = "none"
<1>1. Packs!Nothing \in Packs!Asked
  BY DEF Packs!Nothing, Packs!Asked, Packs!Pack
<1>2. Packs!Blank \in Packs!Row
  BY DEF Packs!Blank, Packs!Row, Packs!Pack
<1> QED
  BY <1>1, <1>2 DEF Packs!Idle, Inquiry

LEMMA LoadedTypes ==
    ASSUME NEW d \in Packs!Row
    PROVE  \E y \in Dash :
             /\ y = Packs!Loaded(d) /\ y.names = d.catalog /\ y.cards = d.cards
             /\ y.modal = "none"
<1>1. PICK y : y = Packs!Loaded(d)
  OBVIOUS
<1>2. /\ d.catalog \in SUBSET Name /\ d.cards \in [Card -> Packs!Pack]
      /\ d.weights.keys \in SUBSET Name
  BY DEF Packs!Row
<1>3. y \in Dash
  BY <1>1, <1>2 DEF Packs!Loaded, Dash
<1> QED
  BY <1>1, <1>3 DEF Packs!Loaded

(* The page changes without a request.                                     *)
DashReloads(t, y) ==
    y.names = settings.catalog /\ y.cards = settings.cards /\ y.modal = "none"
DashKeeps(t, y) == y.names = page[t].names /\ y.cards = page[t].cards
DashOpens(t, y) ==
    /\ DashKeeps(t, y) /\ y.removed = {} /\ y.added = {}
    /\ y.modal = "packs" => y.list = y.names
DashCloses(t, y) == DashKeeps(t, y) /\ y.modal = "none"
DashAdds(t, y, n) ==
    /\ DashKeeps(t, y) /\ y.modal = page[t].modal
    /\ n \notin page[t].list /\ y.list = page[t].list \cup {n}
    /\ y.removed = page[t].removed \ {n}
    /\ y.added = page[t].added \cup ({n} \ page[t].removed)
DashRemoves(t, y, n) ==
    /\ DashKeeps(t, y) /\ y.modal = page[t].modal
    /\ n \in page[t].list /\ y.list = page[t].list \ {n}
    /\ y.added = page[t].added \ {n}
    /\ y.removed = page[t].removed \cup ({n} \ page[t].added)
DashStep(t, y) ==
    \/ DashReloads(t, y) \/ DashOpens(t, y) \/ DashCloses(t, y)
    \/ \E n \in Name : DashAdds(t, y, n) \/ DashRemoves(t, y, n)

DashTurn ==
    \E t \in Tab, y \in Dash :
      /\ PageMoves(t, y) /\ DashStep(t, y) /\ call[t].stage = "none"
      /\ UNCHANGED <<settings, premium, call, act, dropped, unheard, lapses>>

LEMMA DashSteps ==
    ASSUME PackTypes, NEW t \in Tab,
           \/ Packs!Reload(t) \/ Packs!Close(t)
           \/ Packs!Open(t, "packs") \/ Packs!Open(t, "weights")
           \/ \E n \in Name : Packs!Add(t, n) \/ Packs!Remove(t, n)
    PROVE  DashTurn
<1>1. PICK x \in Dash : x = page[t]
  BY DEF PackTypes
<1>2. page \in [Tab -> Dash] /\ settings \in Packs!Row
  BY DEF PackTypes
<1>3. CASE Packs!Reload(t)
  <2>1. PICK y \in Dash : /\ y = Packs!Loaded(settings)
                          /\ DashReloads(t, y)
    BY <1>2, LoadedTypes DEF DashReloads
  <2>2. page' = [page EXCEPT ![t] = y]
    BY <1>3, <2>1 DEF Packs!Reload
  <2>3. /\ call[t].stage = "none"
        /\ UNCHANGED <<settings, premium, call, act, dropped, unheard, lapses>>
    BY <1>3 DEF Packs!Reload, Packs!Free
  <2> QED
    BY <2>1, <2>2, <2>3 DEF DashTurn, PageMoves, DashStep
<1>4. CASE Packs!Close(t)
  <2>1. PICK y : y = [x EXCEPT !.modal = "none", !.list = {}, !.removed = {}, !.added = {}]
    OBVIOUS
  <2>2. y \in Dash /\ y.names = x.names /\ y.cards = x.cards /\ y.modal = "none"
    BY <2>1 DEF Dash
  <2>3. page' = [page EXCEPT ![t] = y]
    BY <1>1, <1>2, <1>4, <2>1 DEF Packs!Close
  <2> QED
    BY <1>1, <1>4, <2>2, <2>3 DEF Packs!Close, Packs!Free, DashTurn, PageMoves, DashStep,
       DashCloses, DashKeeps
<1>5. ASSUME NEW modal \in {"packs", "weights"}, Packs!Open(t, modal) PROVE DashTurn
  <2>1. PICK y : y = [x EXCEPT !.modal = modal, !.removed = {}, !.added = {},
                               !.list = IF modal = "packs" THEN x.names ELSE x.weights]
    OBVIOUS
  <2>2. /\ y \in Dash /\ y.names = x.names /\ y.cards = x.cards /\ y.modal = modal
        /\ y.removed = {} /\ y.added = {} /\ (modal = "packs" => y.list = x.names)
    BY <2>1 DEF Dash
  <2>3. page' = [page EXCEPT ![t] = y]
    BY <1>1, <1>2, <1>5, <2>1 DEF Packs!Open
  <2>4. /\ call[t].stage = "none"
        /\ UNCHANGED <<settings, premium, call, act, dropped, unheard, lapses>>
    BY <1>5 DEF Packs!Open, Packs!Free
  <2>5. DashOpens(t, y)
    BY <1>1, <2>2 DEF DashOpens, DashKeeps
  <2> QED
    BY <2>2, <2>3, <2>4, <2>5 DEF DashTurn, PageMoves, DashStep
<1>6. ASSUME NEW n \in Name, Packs!Add(t, n) PROVE DashTurn
  <2>1. PICK y : y = [x EXCEPT !.list = @ \cup {n}, !.removed = @ \ {n},
                               !.added = @ \cup ({n} \ x.removed)]
    OBVIOUS
  <2>2. /\ y \in Dash /\ y.names = x.names /\ y.cards = x.cards /\ y.modal = x.modal
        /\ y.list = x.list \cup {n} /\ y.removed = x.removed \ {n}
        /\ y.added = x.added \cup ({n} \ x.removed)
    BY <2>1 DEF Dash
  <2>3. page' = [page EXCEPT ![t] = y]
    BY <1>1, <1>2, <1>6, <2>1 DEF Packs!Add
  <2>4. DashAdds(t, y, n)
    BY <1>1, <1>6, <2>2 DEF Packs!Add, DashAdds, DashKeeps
  <2> QED
    BY <1>6, <2>2, <2>3, <2>4 DEF Packs!Add, Packs!Free, DashTurn, PageMoves, DashStep
<1>7. ASSUME NEW n \in Name, Packs!Remove(t, n) PROVE DashTurn
  <2>1. PICK y : y = [x EXCEPT !.list = @ \ {n}, !.added = @ \ {n},
                               !.removed = @ \cup ({n} \ x.added)]
    OBVIOUS
  <2>2. /\ y \in Dash /\ y.names = x.names /\ y.cards = x.cards /\ y.modal = x.modal
        /\ y.list = x.list \ {n} /\ y.added = x.added \ {n}
        /\ y.removed = x.removed \cup ({n} \ x.added)
    BY <2>1 DEF Dash
  <2>3. page' = [page EXCEPT ![t] = y]
    BY <1>1, <1>2, <1>7, <2>1 DEF Packs!Remove
  <2>4. DashRemoves(t, y, n)
    BY <1>1, <1>7, <2>2 DEF Packs!Remove, DashRemoves, DashKeeps
  <2> QED
    BY <1>7, <2>2, <2>3, <2>4 DEF Packs!Remove, Packs!Free, DashTurn, PageMoves, DashStep
<1> QED
  BY <1>3, <1>4, <1>5, <1>6, <1>7

(* The page sends a request.                                               *)
AsksNames(t, q) ==
    /\ q.kind = "names" /\ page[t].modal = "packs" /\ q.names = page[t].list
    /\ q.removed = page[t].removed /\ q.added = page[t].added
AsksWeights(t, q) == q.kind = "weights"
AsksRename(t, q) ==
    /\ q.kind = "rename" /\ page[t].modal = "packs" /\ page[t].list = page[t].names
    /\ q.old \in Name /\ q.new \in Name
AsksCard(t, q) == q.kind = "card" /\ \E c \in Card : q.card = {c}
AsksBind(t, q) == q.kind = "bind"
Wishes(t, q) ==
    \/ AsksNames(t, q) \/ AsksWeights(t, q) \/ AsksRename(t, q)
    \/ AsksCard(t, q) \/ AsksBind(t, q)

Sends ==
    \E t \in Tab, z \in Inquiry :
      /\ InquiryMoves(t, z) /\ call[t].stage = "none" /\ z.stage = "sent"
      /\ z.ask.kind \in Kinds /\ Wishes(t, z.ask)
      /\ UNCHANGED <<settings, premium, page, act, dropped, unheard, lapses>>

LEMMA SendMoves ==
    ASSUME PackTypes, NEW t \in Tab, NEW q \in Packs!Asked, Packs!Send(t, q), Wishes(t, q)
    PROVE  Sends
<1>1. PICK r \in Inquiry : r = call[t]
  BY DEF PackTypes
<1>2. PICK z : z = [r EXCEPT !.ask = q, !.stage = "sent"]
  OBVIOUS
<1>3. z \in Inquiry /\ z.ask = q /\ z.stage = "sent"
  BY <1>2 DEF Inquiry
<1>4. call' = [call EXCEPT ![t] = z]
  BY <1>1, <1>2 DEF Packs!Send, PackTypes
<1> QED
  BY <1>3, <1>4 DEF Packs!Send, Packs!Free, Sends, InquiryMoves

LEMMA SendSteps ==
    ASSUME PackTypes, NEW t \in Tab,
           \/ Packs!SaveNames(t) \/ Packs!SaveWeights(t)
           \/ \E old, new \in Name : Packs!Rename(t, old, new)
           \/ \E n \in Packs!Pack : Packs!Bind(t, n) \/ \E c \in Card : Packs!SaveCard(t, c, n)
    PROVE  Sends
<1>1. PICK x \in Dash : x = page[t]
  BY DEF PackTypes
<1>2. PICK i \in Packs!Asked : i = Packs!Nothing
  BY BlankTypes
<1>3. CASE Packs!SaveNames(t)
  <2>1. PICK q : q = [i EXCEPT !.kind = "names", !.names = x.list, !.removed = x.removed,
                               !.added = x.added]
    OBVIOUS
  <2>2. Packs!Send(t, q) /\ x.modal = "packs"
    BY <1>1, <1>2, <1>3, <2>1 DEF Packs!SaveNames
  <2>3. /\ q.kind = "names" /\ q.names = x.list /\ q.removed = x.removed /\ q.added = x.added
    BY <2>1 DEF Packs!Asked
  <2>4. q \in Packs!Asked
    <3>1. "names" \in Kinds
      BY <2>2, <2>3 DEF Packs!Send
    <3> QED
      BY <2>1, <3>1 DEF Packs!Asked, Dash
  <2> QED
    BY <1>1, <2>2, <2>3, <2>4, SendMoves DEF Wishes, AsksNames
<1>4. CASE Packs!SaveWeights(t)
  <2>1. PICK q : q = [i EXCEPT !.kind = "weights", !.names = x.list]
    OBVIOUS
  <2>2. Packs!Send(t, q)
    BY <1>1, <1>2, <1>4, <2>1 DEF Packs!SaveWeights
  <2>3. q.kind = "weights"
    BY <2>1 DEF Packs!Asked
  <2>4. q \in Packs!Asked
    <3>1. "weights" \in Kinds
      BY <2>2, <2>3 DEF Packs!Send
    <3> QED
      BY <2>1, <3>1 DEF Packs!Asked, Dash
  <2> QED
    BY <2>2, <2>3, <2>4, SendMoves DEF Wishes, AsksWeights
<1>5. ASSUME NEW old \in Name, NEW new \in Name, Packs!Rename(t, old, new) PROVE Sends
  <2>1. PICK q : q = [i EXCEPT !.kind = "rename", !.old = old, !.new = new]
    OBVIOUS
  <2>2. Packs!Send(t, q) /\ x.modal = "packs" /\ x.list = x.names
    BY <1>1, <1>2, <1>5, <2>1 DEF Packs!Rename
  <2>3. q.kind = "rename" /\ q.old = old /\ q.new = new
    BY <2>1 DEF Packs!Asked
  <2>4. q \in Packs!Asked
    <3>1. "rename" \in Kinds
      BY <2>2, <2>3 DEF Packs!Send
    <3> QED
      BY <2>1, <3>1 DEF Packs!Asked, Packs!Pack
  <2> QED
    BY <1>1, <2>2, <2>3, <2>4, SendMoves DEF Wishes, AsksRename
<1>6. ASSUME NEW n \in Packs!Pack, NEW c \in Card, Packs!SaveCard(t, c, n) PROVE Sends
  <2>1. PICK q : q = [i EXCEPT !.kind = "card", !.card = {c}, !.new = n]
    OBVIOUS
  <2>2. Packs!Send(t, q)
    BY <1>2, <1>6, <2>1 DEF Packs!SaveCard
  <2>3. q.kind = "card" /\ q.card = {c}
    BY <2>1 DEF Packs!Asked
  <2>4. q \in Packs!Asked
    <3>1. "card" \in Kinds
      BY <2>2, <2>3 DEF Packs!Send
    <3> QED
      BY <2>1, <3>1 DEF Packs!Asked
  <2> QED
    BY <2>2, <2>3, <2>4, SendMoves DEF Wishes, AsksCard
<1>7. ASSUME NEW n \in Packs!Pack, Packs!Bind(t, n) PROVE Sends
  <2>1. PICK q : q = [i EXCEPT !.kind = "bind", !.new = n]
    OBVIOUS
  <2>2. Packs!Send(t, q)
    BY <1>2, <1>7, <2>1 DEF Packs!Bind
  <2>3. q.kind = "bind"
    BY <2>1 DEF Packs!Asked
  <2>4. q \in Packs!Asked
    <3>1. "bind" \in Kinds
      BY <2>2, <2>3 DEF Packs!Send
    <3> QED
      BY <2>1, <3>1 DEF Packs!Asked
  <2> QED
    BY <2>2, <2>3, <2>4, SendMoves DEF Wishes, AsksBind
<1> QED
  BY <1>3, <1>4, <1>5, <1>6, <1>7

(* The route reads, and accepts the request or refuses it.                 *)
Admits(q, d) ==
    /\ q.kind = "weights" => q.names \subseteq d.catalog
    /\ q.kind = "rename" => q.old \in d.catalog /\ q.new \notin d.catalog
    /\ q.kind = "card" => \E c \in Card : /\ q.card = {c}
                                          /\ q.new \in {NoPack, d.cards[c]} \cup d.catalog
    /\ q.kind = "bind" => q.new \in {NoPack, d.main} \cup d.catalog

LEMMA AcceptsAdmits ==
    ASSUME NEW q, NEW d, Asks(q), Packs!Accepts(q, d) PROVE Admits(q, d)
<1>1. CASE q.kind = "card"
  <2>1. PICK c \in Card : q.card = {c}
    BY <1>1 DEF Asks
  <2>2. (CHOOSE e \in q.card : TRUE) = c
    BY <2>1
  <2>3. Packs!RegisteredOrUnchanged(q.new, d.cards[c], d)
    BY <1>1, <2>2 DEF Packs!Accepts
  <2> QED
    BY <1>1, <2>1, <2>3 DEF Packs!RegisteredOrUnchanged, Admits
<1>2. CASE q.kind # "card"
  BY <1>2 DEF Asks, Packs!Accepts, Packs!RegisteredOrUnchanged, Admits
<1> QED
  BY <1>1, <1>2

Reads ==
    \E t \in Tab, z \in Inquiry :
      /\ InquiryMoves(t, z) /\ call[t].stage = "sent" /\ z.ask = call[t].ask
      /\ \/ z.stage = "refused"
         \/ z.stage = "read" /\ Admits(z.ask, settings)
      /\ z.seen = settings /\ z.persisted = Packs!Persisted(z.ask)
      /\ z.gated <=> z.persisted # z.ask.names
      /\ UNCHANGED <<settings, premium, page, act, dropped, unheard, lapses>>

LEMMA ReadSteps ==
    ASSUME PackTypes, NEW t \in Tab, Packs!Read(t) PROVE Reads
<1>1. PICK r \in Inquiry : r = call[t]
  BY DEF PackTypes
<1>2. PICK p : p = Packs!Persisted(r.ask)
  OBVIOUS
<1>3. p \in SUBSET Name
  BY <1>2 DEF Inquiry, Packs!Asked, Packs!Persisted
<1>4. PICK s \in {"read", "refused"} : s = IF Packs!Accepts(r.ask, settings) THEN "read"
                                           ELSE "refused"
  OBVIOUS
<1>5. PICK g \in BOOLEAN : g = (p # r.ask.names)
  OBVIOUS
<1>6. PICK z : z = [r EXCEPT !.seen = settings, !.stage = s, !.persisted = p, !.gated = g]
  OBVIOUS
<1>7. /\ z \in Inquiry /\ z.ask = r.ask /\ z.stage = s /\ z.seen = settings
      /\ z.persisted = p /\ z.gated = g
  BY <1>3, <1>6 DEF Inquiry, PackTypes
<1>8. call' = [call EXCEPT ![t] = z]
  BY <1>1, <1>2, <1>4, <1>5, <1>6 DEF Packs!Read, PackTypes
<1>9. r.stage = "sent"
  BY <1>1 DEF Packs!Read
<1>10. s = "read" => Admits(z.ask, settings)
  BY <1>1, <1>4, <1>7, <1>9, AcceptsAdmits DEF PackTypes
<1> QED
  BY <1>1, <1>2, <1>4, <1>5, <1>7, <1>8, <1>9, <1>10 DEF Packs!Read, Reads, InquiryMoves

(* The row after the write of a request, by its kind.                      *)
Swapped(old, new, S) == IF old \in S THEN (S \ {old}) \cup {new} ELSE S
Recalled(old, new, f, g) == \A c \in Card : g[c] = IF f[c] = old THEN new ELSE f[c]

WritesNames(r, d, w) ==
    /\ w.catalog = r.persisted /\ w.cards = d.cards /\ w.main = d.main
    /\ IF r.seen.weights.set
       THEN w.weights.set /\ w.weights.keys = r.seen.weights.keys \cap r.persisted
       ELSE w.weights = d.weights
WritesWeights(r, d, w) ==
    /\ w.catalog = d.catalog /\ w.cards = d.cards /\ w.main = d.main
    /\ w.weights.set /\ w.weights.keys = r.ask.names
WritesRename(r, d, w) ==
    /\ w.catalog = Swapped(r.ask.old, r.ask.new, d.catalog)
    /\ Recalled(r.ask.old, r.ask.new, d.cards, w.cards)
    /\ w.main = IF d.main = r.ask.old THEN r.ask.new ELSE d.main
    /\ w.weights.set = d.weights.set
    /\ w.weights.keys = Swapped(r.ask.old, r.ask.new, d.weights.keys)
WritesCard(r, d, w) ==
    /\ w.catalog = d.catalog /\ w.main = d.main /\ w.weights = d.weights
    /\ \A c \in Card : w.cards[c] = IF c \in r.ask.card THEN r.ask.new ELSE d.cards[c]
WritesMain(r, d, w) ==
    /\ w.catalog = d.catalog /\ w.cards = d.cards /\ w.weights = d.weights
    /\ w.main = r.ask.new
WritesRow(r, d, w) ==
    /\ r.ask.kind = "names" => WritesNames(r, d, w)
    /\ r.ask.kind = "weights" => WritesWeights(r, d, w)
    /\ r.ask.kind = "rename" => WritesRename(r, d, w)
    /\ r.ask.kind = "card" => WritesCard(r, d, w)
    /\ r.ask.kind = "bind" => WritesMain(r, d, w)

LEMMA WrittenRow ==
    ASSUME settings \in Packs!Row, NEW r \in Inquiry, Asks(r.ask)
    PROVE  \E w \in Packs!Row : w = Packs!Written(r) /\ WritesRow(r, settings, w)
<1> DEFINE d == settings
           q == r.ask
<1>1. /\ d \in Packs!Row /\ q \in Packs!Asked
      /\ d.catalog \in SUBSET Name /\ d.cards \in [Card -> Packs!Pack] /\ d.main \in Packs!Pack
      /\ d.weights.set \in BOOLEAN /\ d.weights.keys \in SUBSET Name
      /\ r.persisted \in SUBSET Name /\ r.seen.weights.keys \in SUBSET Name
      /\ q.names \in SUBSET Name /\ q.old \in Packs!Pack /\ q.new \in Packs!Pack
  BY DEF Inquiry, Packs!Row, Packs!Asked
<1>2. CASE q.kind = "names"
  <2>1. PICK k : k = r.seen.weights.keys \cap r.persisted
    OBVIOUS
  <2>2. CASE r.seen.weights.set
    <3>1. PICK w : w = [d EXCEPT !.catalog = r.persisted, !.weights = [set |-> TRUE, keys |-> k]]
      OBVIOUS
    <3>2. w = Packs!Written(r)
      BY <1>2, <2>1, <2>2, <3>1 DEF Packs!Written, Packs!WithNames
    <3>3. w \in Packs!Row /\ WritesNames(r, d, w)
      BY <1>1, <2>1, <2>2, <3>1 DEF Packs!Row, WritesNames
    <3> QED
      BY <1>2, <3>2, <3>3 DEF WritesRow
  <2>3. CASE ~r.seen.weights.set
    <3>1. PICK w : w = [d EXCEPT !.catalog = r.persisted, !.weights = d.weights]
      OBVIOUS
    <3>2. w = Packs!Written(r)
      BY <1>2, <2>3, <3>1 DEF Packs!Written, Packs!WithNames
    <3>3. w \in Packs!Row /\ WritesNames(r, d, w)
      BY <1>1, <2>3, <3>1 DEF Packs!Row, WritesNames
    <3> QED
      BY <1>2, <3>2, <3>3 DEF WritesRow
  <2> QED
    BY <2>2, <2>3
<1>3. CASE q.kind = "weights"
  <2>1. PICK w : w = [d EXCEPT !.weights = [set |-> TRUE, keys |-> q.names]]
    OBVIOUS
  <2>2. w = Packs!Written(r)
    BY <1>3, <2>1 DEF Packs!Written
  <2>3. w \in Packs!Row /\ WritesWeights(r, d, w)
    BY <1>1, <2>1 DEF Packs!Row, WritesWeights
  <2> QED
    BY <1>3, <2>2, <2>3 DEF WritesRow
<1>4. CASE q.kind = "rename"
  <2>1. PICK f : f = [c \in Card |-> IF d.cards[c] = q.old THEN q.new ELSE d.cards[c]]
    OBVIOUS
  <2>2. f \in [Card -> Packs!Pack] /\ Recalled(q.old, q.new, d.cards, f)
    BY <1>1, <2>1 DEF Recalled
  <2>3. PICK k \in SUBSET Name : k = Packs!Moved(d.weights.keys, q.old, q.new)
    BY <1>1, <1>4 DEF Packs!Moved, Asks
  <2>4. PICK n \in SUBSET Name : n = Packs!Moved(d.catalog, q.old, q.new)
    BY <1>1, <1>4 DEF Packs!Moved, Asks
  <2>5. PICK m \in Packs!Pack : m = IF d.main = q.old THEN q.new ELSE d.main
    BY <1>1
  <2>6. PICK w : w = [d EXCEPT !.catalog = n, !.cards = f, !.main = m, !.weights.keys = k]
    OBVIOUS
  <2>7. w = Packs!Written(r)
    BY <1>4, <2>1, <2>3, <2>4, <2>5, <2>6 DEF Packs!Written, Packs!Renamed
  <2>8. /\ w \in Packs!Row /\ w.catalog = n /\ w.cards = f /\ w.main = m
        /\ w.weights.keys = k /\ w.weights.set = d.weights.set
    BY <2>2, <2>3, <2>4, <2>5, <2>6 DEF Packs!Row
  <2>9. WritesRename(r, d, w)
    BY <2>2, <2>3, <2>4, <2>5, <2>8 DEF WritesRename, Packs!Moved, Swapped
  <2> QED
    BY <1>4, <2>7, <2>8, <2>9 DEF WritesRow
<1>5. CASE q.kind = "card"
  <2>1. PICK f : f = [c \in Card |-> IF c \in q.card THEN q.new ELSE d.cards[c]]
    OBVIOUS
  <2>2. f \in [Card -> Packs!Pack]
    BY <1>1, <2>1
  <2>3. PICK w : w = [d EXCEPT !.cards = f]
    OBVIOUS
  <2>4. w = Packs!Written(r)
    BY <1>5, <2>1, <2>3 DEF Packs!Written
  <2>5. w \in Packs!Row /\ WritesCard(r, d, w)
    BY <1>1, <2>1, <2>2, <2>3 DEF Packs!Row, WritesCard
  <2> QED
    BY <1>5, <2>4, <2>5 DEF WritesRow
<1>6. CASE q.kind = "bind"
  <2>1. PICK w : w = [d EXCEPT !.main = q.new]
    OBVIOUS
  <2>2. w = Packs!Written(r)
    BY <1>6, <2>1 DEF Packs!Written
  <2>3. w \in Packs!Row /\ WritesMain(r, d, w)
    BY <1>1, <2>1 DEF Packs!Row, WritesMain
  <2> QED
    BY <1>6, <2>2, <2>3 DEF WritesRow
<1> QED
  BY <1>2, <1>3, <1>4, <1>5, <1>6 DEF Asks

(* The route writes what it has accepted; a rename is checked again.       *)
Writes ==
    \E t \in Tab, z \in Inquiry :
      /\ InquiryMoves(t, z) /\ call[t].stage = "read" /\ z.stage = "done"
      /\ z.ask = call[t].ask /\ z.seen = call[t].seen
      /\ z.persisted = call[t].persisted /\ z.gated = call[t].gated
      /\ settings' \in Packs!Row /\ WritesRow(z, settings, settings')
      /\ z.ask.kind = "rename" => Admits(z.ask, settings)
      /\ act' = z.ask /\ dropped' = dropped \cup z.ask.removed
      /\ UNCHANGED <<premium, page, unheard, lapses>>
Aborts ==
    \E t \in Tab, z \in Inquiry :
      /\ InquiryMoves(t, z) /\ call[t].stage = "read" /\ z.stage = "refused"
      /\ z.ask = call[t].ask
      /\ UNCHANGED <<settings, premium, page, act, dropped, unheard, lapses>>

LEMMA WriteSteps ==
    ASSUME PackTypes, NEW t \in Tab, Packs!Write(t) PROVE Writes \/ Aborts
<1>1. PICK r \in Inquiry : r = call[t]
  BY DEF PackTypes
<1>2. r.stage = "read" /\ Asks(r.ask)
  BY <1>1 DEF Packs!Write, PackTypes
<1>3. ASSUME NEW s \in {"done", "refused"}
      PROVE  \E z \in Inquiry : /\ z = [r EXCEPT !.stage = s] /\ z.ask = r.ask /\ z.stage = s
                             /\ z.seen = r.seen /\ z.persisted = r.persisted
                             /\ z.gated = r.gated
  <2>1. PICK z : z = [r EXCEPT !.stage = s]
    OBVIOUS
  <2> QED
    BY <2>1 DEF Inquiry
<1>4. CASE Packs!LooksAgain(r.ask)
  <2>1. PICK z \in Inquiry : /\ z = [r EXCEPT !.stage = "done"] /\ z.ask = r.ask
                          /\ z.stage = "done" /\ z.seen = r.seen
                          /\ z.persisted = r.persisted /\ z.gated = r.gated
    BY <1>3
  <2>2. call' = [call EXCEPT ![t] = z] /\ settings' = Packs!Written(r)
    BY <1>1, <1>4, <2>1 DEF Packs!Write, PackTypes
  <2>3. PICK w \in Packs!Row : w = settings' /\ WritesRow(r, settings, w)
    BY <1>2, <2>2, WrittenRow DEF PackTypes
  <2>4. WritesRow(z, settings, settings')
    BY <2>1, <2>3 DEF WritesRow, WritesNames, WritesWeights, WritesRename, WritesCard,
       WritesMain
  <2>5. r.ask.kind = "rename" => Admits(r.ask, settings)
    BY <1>2, <1>4, AcceptsAdmits DEF Packs!LooksAgain
  <2>6. /\ act' = r.ask /\ dropped' = dropped \cup r.ask.removed
        /\ UNCHANGED <<premium, page, unheard, lapses>>
    BY <1>1, <1>4 DEF Packs!Write
  <2> QED
    BY <1>1, <1>2, <2>1, <2>2, <2>3, <2>4, <2>5, <2>6 DEF Writes, InquiryMoves
<1>5. CASE ~Packs!LooksAgain(r.ask)
  <2>1. PICK z \in Inquiry : /\ z = [r EXCEPT !.stage = "refused"] /\ z.ask = r.ask
                          /\ z.stage = "refused"
    BY <1>3
  <2>2. call' = [call EXCEPT ![t] = z]
    BY <1>1, <1>5, <2>1 DEF Packs!Write, PackTypes
  <2>3. UNCHANGED <<settings, premium, page, act, dropped, unheard, lapses>>
    BY <1>1, <1>5 DEF Packs!Write
  <2> QED
    BY <1>1, <1>2, <2>1, <2>2, <2>3 DEF Aborts, InquiryMoves
<1> QED
  BY <1>4, <1>5

(* The page hears the answer, or it is lost.                               *)
HearsNames(r, x, y) ==
    /\ y.cards = x.cards
    /\ IF r.gated THEN y.names = x.names
       ELSE y.names = r.persisted /\ y.modal = "none"
HearsRename(r, x, y) ==
    /\ y.modal = x.modal /\ y.removed = x.removed /\ y.added = x.added
    /\ y.names = Swapped(r.ask.old, r.ask.new, r.seen.catalog) /\ y.list = y.names
    /\ Recalled(r.ask.old, r.ask.new, x.cards, y.cards)
HearsCard(r, x, y) ==
    /\ y.names = x.names /\ y.modal = x.modal /\ y.list = x.list
    /\ y.removed = x.removed /\ y.added = x.added
    /\ \A c \in Card : y.cards[c] = IF c \in r.ask.card THEN r.ask.new ELSE x.cards[c]
Unmoved(x, y) ==
    /\ y.names = x.names /\ y.cards = x.cards /\ y.modal = x.modal /\ y.list = x.list
    /\ y.removed = x.removed /\ y.added = x.added
Hears(r, x, y) ==
    /\ r.ask.kind = "names" => HearsNames(r, x, y)
    /\ r.ask.kind = "rename" => HearsRename(r, x, y)
    /\ r.ask.kind = "card" => HearsCard(r, x, y)
    /\ r.ask.kind \in {"weights", "bind"} => Unmoved(x, y)

LEMMA AnsweredDash ==
    ASSUME NEW r \in Inquiry, NEW x \in Dash, Asks(r.ask)
    PROVE  \E y \in Dash : y = Packs!Answered(x, r) /\ Hears(r, x, y)
<1> DEFINE q == r.ask
<1>1. /\ q \in Packs!Asked /\ q.names \in SUBSET Name /\ q.old \in Packs!Pack
      /\ q.new \in Packs!Pack /\ r.persisted \in SUBSET Name
      /\ r.seen.catalog \in SUBSET Name /\ x.cards \in [Card -> Packs!Pack]
  BY DEF Inquiry, Dash, Packs!Row, Packs!Asked
<1>2. CASE q.kind = "names" /\ r.gated
  <2>1. PICK y : y = [x EXCEPT !.list = r.persisted]
    OBVIOUS
  <2>2. y = Packs!Answered(x, r)
    BY <1>2, <2>1 DEF Packs!Answered
  <2>3. y \in Dash /\ y.names = x.names /\ y.cards = x.cards
    BY <1>1, <2>1 DEF Dash
  <2> QED
    BY <1>2, <2>2, <2>3 DEF Hears, HearsNames
<1>3. CASE q.kind = "names" /\ ~r.gated
  <2>1. PICK y : y = [x EXCEPT !.names = r.persisted, !.modal = "none", !.list = {},
                               !.removed = {}, !.added = {}]
    OBVIOUS
  <2>2. y = Packs!Answered(x, r)
    BY <1>3, <2>1 DEF Packs!Answered
  <2>3. y \in Dash /\ y.names = r.persisted /\ y.cards = x.cards /\ y.modal = "none"
    BY <1>1, <2>1 DEF Dash
  <2> QED
    BY <1>3, <2>2, <2>3 DEF Hears, HearsNames
<1>4. CASE q.kind = "rename"
  <2>1. PICK n \in SUBSET Name : n = Packs!Moved(r.seen.catalog, q.old, q.new)
    BY <1>1, <1>4 DEF Packs!Moved, Asks
  <2>2. PICK f : f = [c \in Card |-> IF x.cards[c] = q.old THEN q.new ELSE x.cards[c]]
    OBVIOUS
  <2>3. f \in [Card -> Packs!Pack] /\ Recalled(q.old, q.new, x.cards, f)
    BY <1>1, <2>2 DEF Recalled
  <2>4. PICK y : y = [x EXCEPT !.names = n, !.list = n, !.cards = f]
    OBVIOUS
  <2>5. y = Packs!Answered(x, r)
    BY <1>4, <2>1, <2>2, <2>4 DEF Packs!Answered
  <2>6. /\ y \in Dash /\ y.names = n /\ y.list = n /\ y.cards = f /\ y.modal = x.modal
        /\ y.removed = x.removed /\ y.added = x.added
    BY <2>1, <2>3, <2>4 DEF Dash
  <2>7. n = Swapped(q.old, q.new, r.seen.catalog)
    BY <2>1 DEF Packs!Moved, Swapped
  <2> QED
    BY <1>4, <2>3, <2>5, <2>6, <2>7 DEF Hears, HearsRename
<1>5. CASE q.kind = "card"
  <2>1. PICK f : f = [c \in Card |-> IF c \in q.card THEN q.new ELSE x.cards[c]]
    OBVIOUS
  <2>2. f \in [Card -> Packs!Pack]
    BY <1>1, <2>1
  <2>3. PICK y : y = [x EXCEPT !.cards = f]
    OBVIOUS
  <2>4. y = Packs!Answered(x, r)
    BY <1>5, <2>1, <2>3 DEF Packs!Answered
  <2>5. /\ y \in Dash /\ y.names = x.names /\ y.list = x.list /\ y.cards = f
        /\ y.modal = x.modal /\ y.removed = x.removed /\ y.added = x.added
    BY <2>2, <2>3 DEF Dash
  <2> QED
    BY <1>5, <2>1, <2>4, <2>5 DEF Hears, HearsCard
<1>6. CASE q.kind = "weights"
  <2>1. PICK y : y = [x EXCEPT !.weights = q.names]
    OBVIOUS
  <2>2. y = Packs!Answered(x, r)
    BY <1>6, <2>1 DEF Packs!Answered
  <2>3. y \in Dash /\ Unmoved(x, y)
    BY <1>1, <2>1 DEF Dash, Unmoved
  <2> QED
    BY <1>6, <2>2, <2>3 DEF Hears
<1>7. CASE q.kind = "bind"
  BY <1>7 DEF Packs!Answered, Hears, Unmoved
<1> QED
  BY <1>2, <1>3, <1>4, <1>5, <1>6, <1>7 DEF Asks

Hearing ==
    \E t \in Tab, y \in Dash, z \in Inquiry :
      /\ PageMoves(t, y) /\ InquiryMoves(t, z) /\ z.stage = "none"
      /\ \/ call[t].stage = "done" /\ Hears(call[t], page[t], y)
         \/ call[t].stage = "refused" /\ y = page[t]
      /\ UNCHANGED <<settings, premium, act, dropped, unheard, lapses>>
Losing ==
    \E t \in Tab, z \in Inquiry :
      /\ InquiryMoves(t, z) /\ z.stage = "none" /\ unheard' = unheard + 1
      /\ UNCHANGED <<settings, premium, page, act, dropped, lapses>>
Lapsing ==
    /\ lapses' = lapses + 1 /\ premium' = FALSE
    /\ UNCHANGED <<settings, page, call, act, dropped, unheard>>

LEMMA AnswerSteps ==
    ASSUME PackTypes, NEW t \in Tab, Packs!Answer(t) PROVE Hearing
<1>1. PICK r \in Inquiry : r = call[t]
  BY DEF PackTypes
<1>2. PICK x \in Dash : x = page[t]
  BY DEF PackTypes
<1>3. PICK z \in Inquiry : z = Packs!Idle(Packs!Blank) /\ z.stage = "none"
  BY BlankTypes
<1>4. call' = [call EXCEPT ![t] = z]
  BY <1>3 DEF Packs!Answer
<1>5. UNCHANGED <<settings, premium, act, dropped, unheard, lapses>>
  BY DEF Packs!Answer
<1>6. CASE r.stage = "done"
  <2>1. Asks(r.ask)
    BY <1>1, <1>6 DEF PackTypes
  <2>2. PICK y \in Dash : y = Packs!Answered(x, r) /\ Hears(r, x, y)
    BY <2>1, AnsweredDash
  <2>3. page' = [page EXCEPT ![t] = y]
    BY <1>1, <1>2, <1>6, <2>2 DEF Packs!Answer, PackTypes
  <2> QED
    BY <1>1, <1>2, <1>3, <1>4, <1>5, <1>6, <2>2, <2>3 DEF Hearing, PageMoves, InquiryMoves
<1>7. CASE r.stage = "refused"
  <2>1. page' = [page EXCEPT ![t] = x]
    BY <1>1, <1>2, <1>7 DEF Packs!Answer, PackTypes
  <2> QED
    BY <1>1, <1>2, <1>3, <1>4, <1>5, <1>7, <2>1 DEF Hearing, PageMoves, InquiryMoves
<1> QED
  BY <1>1, <1>6, <1>7 DEF Packs!Answer

LEMMA LoseSteps ==
    ASSUME PackTypes, NEW t \in Tab, Packs!Lose(t) PROVE Losing
<1>1. PICK z \in Inquiry : z = Packs!Idle(Packs!Blank) /\ z.stage = "none"
  BY BlankTypes
<1>2. call' = [call EXCEPT ![t] = z]
  BY <1>1 DEF Packs!Lose
<1> QED
  BY <1>1, <1>2 DEF Packs!Lose, Losing, InquiryMoves

(* What one step does.                                                     *)
PackStep ==
    \/ DashTurn \/ Sends \/ Reads \/ Writes \/ Aborts \/ Hearing \/ Losing \/ Lapsing
    \/ UNCHANGED <<settings, premium, page, call, act, dropped, unheard, lapses>>

LEMMA PackSteps ==
    ASSUME PackTypes, [Packs!Next]_(Packs!vars) PROVE PackStep
<1>1. CASE UNCHANGED Packs!vars
  BY <1>1 DEF Packs!vars, PackStep
<1>2. CASE Packs!Lapse
  BY <1>2 DEF Packs!Lapse, PackStep, Lapsing
<1>3. ASSUME NEW t \in Tab,
             \/ Packs!Reload(t) \/ Packs!Close(t)
             \/ Packs!Open(t, "packs") \/ Packs!Open(t, "weights")
             \/ \E n \in Name : Packs!Add(t, n) \/ Packs!Remove(t, n)
      PROVE  PackStep
  BY <1>3, DashSteps DEF PackStep
<1>4. ASSUME NEW t \in Tab,
             \/ Packs!SaveNames(t) \/ Packs!SaveWeights(t)
             \/ \E old, new \in Name : Packs!Rename(t, old, new)
             \/ \E n \in Packs!Pack : Packs!Bind(t, n) \/ \E c \in Card : Packs!SaveCard(t, c, n)
      PROVE  PackStep
  BY <1>4, SendSteps DEF PackStep
<1>5. ASSUME NEW t \in Tab, Packs!Read(t) PROVE PackStep
  BY <1>5, ReadSteps DEF PackStep
<1>6. ASSUME NEW t \in Tab, Packs!Write(t) PROVE PackStep
  BY <1>6, WriteSteps DEF PackStep
<1>7. ASSUME NEW t \in Tab, Packs!Answer(t) PROVE PackStep
  BY <1>7, AnswerSteps DEF PackStep
<1>8. ASSUME NEW t \in Tab, Packs!Lose(t) PROVE PackStep
  BY <1>8, LoseSteps DEF PackStep
<1> QED
  BY <1>1, <1>2, <1>3, <1>4, <1>5, <1>6, <1>7, <1>8 DEF Packs!Next

LEMMA TypesKept == PackTypes /\ PackStep => PackTypes'
<1> SUFFICES ASSUME PackTypes, PackStep PROVE PackTypes'
  OBVIOUS
<1>1. CASE DashTurn
  BY <1>1 DEF DashTurn, PageMoves, PackTypes
<1>2. CASE Sends
  BY <1>2 DEF Sends, InquiryMoves, PackTypes, Wishes, AsksNames, AsksWeights, AsksRename,
     AsksCard, AsksBind, Asks
<1>3. CASE Reads
  BY <1>3 DEF Reads, InquiryMoves, PackTypes
<1>4. CASE Writes
  <2>1. PICK t \in Tab, z \in Inquiry :
          /\ InquiryMoves(t, z) /\ call[t].stage = "read" /\ z.ask = call[t].ask
          /\ settings' \in Packs!Row /\ act' = z.ask
          /\ dropped' = dropped \cup z.ask.removed
          /\ UNCHANGED <<premium, page, unheard, lapses>>
    BY <1>4 DEF Writes
  <2>2. z.ask \in Packs!Asked /\ z.ask.removed \in SUBSET Name
    BY DEF Inquiry, Packs!Asked
  <2> QED
    BY <2>1, <2>2 DEF InquiryMoves, PackTypes
<1>5. CASE Aborts
  BY <1>5 DEF Aborts, InquiryMoves, PackTypes
<1>6. CASE Hearing
  BY <1>6 DEF Hearing, InquiryMoves, PageMoves, PackTypes
<1>7. CASE Losing
  BY <1>7 DEF Losing, InquiryMoves, PackTypes
<1>8. CASE Lapsing
  <2>1. premium' \in BOOLEAN
    BY ONLY <1>8, Zenon DEF Lapsing
  <2> QED
    BY <1>8, <2>1 DEF Lapsing, PackTypes
<1>9. CASE UNCHANGED <<settings, premium, page, call, act, dropped, unheard, lapses>>
  BY <1>9 DEF PackTypes
<1> QED
  BY <1>1, <1>2, <1>3, <1>4, <1>5, <1>6, <1>7, <1>8, <1>9 DEF PackStep

LEMMA FirstPacks ==
    ASSUME Packs!Init
    PROVE  /\ PackTypes
           /\ \A c \in Card : settings.cards[c] \in settings.catalog \cup {NoPack}
           /\ settings.main = NoPack
           /\ settings.weights.keys = {} /\ ~settings.weights.set
           /\ \A t \in Tab : /\ page[t].names = settings.catalog
                             /\ page[t].cards = settings.cards
                             /\ page[t].modal = "none" /\ call[t].stage = "none"
<1>1. PICK b \in Packs!Row : b = Packs!Blank
  BY BlankTypes
<1>2. PICK N \in SUBSET Name, f \in [Card -> Packs!Pack] :
        settings = [b EXCEPT !.catalog = N, !.cards = f]
  <2>1. PICK N \in SUBSET Name, f \in [Card -> Packs!Pack] :
          settings = [Packs!Blank EXCEPT !.catalog = N, !.cards = f]
    BY DEF Packs!Init
  <2> QED
    BY <1>1, <2>1
<1>3. b.main = NoPack /\ b.weights.keys = {} /\ ~b.weights.set
  BY <1>1 DEF Packs!Blank
<1>4. /\ settings \in Packs!Row /\ settings.main = NoPack
      /\ settings.weights.keys = {} /\ ~settings.weights.set
  BY <1>2, <1>3 DEF Packs!Row
<1>5. PICK y \in Dash : /\ y = Packs!Loaded(settings) /\ y.names = settings.catalog
                        /\ y.cards = settings.cards /\ y.modal = "none"
  BY <1>4, LoadedTypes
<1>6. page = [t \in Tab |-> y]
  BY <1>5 DEF Packs!Init
<1>7. PICK z \in Inquiry : z = Packs!Idle(Packs!Blank) /\ z.stage = "none"
  BY BlankTypes
<1>8. call = [t \in Tab |-> z]
  BY <1>7 DEF Packs!Init
<1>9. act \in Packs!Asked
  BY BlankTypes DEF Packs!Init
<1>10. /\ dropped = {} /\ unheard = 0 /\ lapses = 0
       /\ \A c \in Card : settings.cards[c] \in settings.catalog \cup {NoPack}
  <2>1. \A c \in Card : settings.cards[c] \in settings.catalog \cup {NoPack}
    BY DEF Packs!Init
  <2> QED
    BY <2>1 DEF Packs!Init
<1>p. premium \in BOOLEAN
  BY Zenon DEF Packs!Init
<1>11. PackTypes
  BY <1>4, <1>6, <1>7, <1>8, <1>9, <1>10, <1>p DEF PackTypes
<1> QED
  BY <1>4, <1>5, <1>6, <1>7, <1>8, <1>10, <1>11

LEMMA PacksTyped == Packs!Spec => []PackTypes
<1>1. Packs!Init => PackTypes
  BY FirstPacks
<1>2. PackTypes /\ [Packs!Next]_(Packs!vars) => PackTypes'
  BY PackSteps, TypesKept
<1> QED
  BY <1>1, <1>2, PTL DEF Packs!Spec

(* Only a route that writes changes the settings.                          *)
LEMMA OthersKeep ==
    ASSUME PackStep, ~Writes PROVE settings' = settings /\ act' = act /\ dropped' = dropped
BY DEF PackStep, DashTurn, Sends, Reads, Aborts, Hearing, Losing, Lapsing

(*---------------------------------------------------------------------------*)
(* Requests that only rename packs or set weights, from any pages.           *)

OnlyRenames == Kinds \subseteq {"rename", "weights"} /\ NoPack \notin Name

Filed ==
    /\ \A c \in Card : settings.cards[c] \in settings.catalog \cup {NoPack}
    /\ settings.main \in settings.catalog \cup {NoPack}

(* What a write does then.                                                 *)
LEMMA RenameWrites ==
    ASSUME PackTypes, OnlyRenames, Writes
    PROVE  \/ /\ settings'.catalog = settings.catalog /\ settings'.main = settings.main
              /\ settings'.cards = settings.cards
           \/ \E old, new \in Name :
                /\ old \in settings.catalog /\ new \notin settings.catalog
                /\ act'.old = old /\ act'.new = new
                /\ settings'.catalog = Swapped(old, new, settings.catalog)
                /\ Recalled(old, new, settings.cards, settings'.cards)
                /\ settings'.main = IF settings.main = old THEN new ELSE settings.main
<1>1. PICK t \in Tab, z \in Inquiry :
        /\ call[t].stage = "read" /\ z.ask = call[t].ask
        /\ WritesRow(z, settings, settings') /\ act' = z.ask
        /\ z.ask.kind = "rename" => Admits(z.ask, settings)
  BY DEF Writes
<1>2. Asks(z.ask)
  BY <1>1 DEF PackTypes
<1>3. CASE z.ask.kind = "weights"
  BY <1>1, <1>3 DEF WritesRow, WritesWeights
<1>4. CASE z.ask.kind = "rename"
  BY <1>1, <1>2, <1>4 DEF WritesRow, WritesRename, Asks, Admits
<1> QED
  BY <1>2, <1>3, <1>4 DEF Asks, OnlyRenames

LEMMA FiledKept ==
    ASSUME PackTypes, OnlyRenames, Filed, PackStep PROVE Filed'
<1>1. CASE ~Writes
  BY <1>1, OthersKeep DEF Filed
<1>2. CASE Writes
  <2>1. CASE /\ settings'.catalog = settings.catalog /\ settings'.main = settings.main
             /\ settings'.cards = settings.cards
    BY <2>1 DEF Filed
  <2>2. ASSUME NEW old \in Name, NEW new \in Name, old \in settings.catalog,
               settings'.catalog = Swapped(old, new, settings.catalog),
               Recalled(old, new, settings.cards, settings'.cards),
               settings'.main = IF settings.main = old THEN new ELSE settings.main
        PROVE  Filed'
    BY <2>2 DEF Filed, Swapped, Recalled
  <2> QED
    BY <1>2, <2>1, <2>2, RenameWrites
<1> QED
  BY <1>1, <1>2

LEMMA RenamesFiled ==
    ASSUME OnlyRenames PROVE Packs!Spec => [](PackTypes /\ Filed)
<1>1. Packs!Init => PackTypes /\ Filed
  BY FirstPacks DEF Filed
<1>2. PackTypes /\ Filed /\ [Packs!Next]_(Packs!vars) => (PackTypes /\ Filed)'
  BY PackSteps, TypesKept, FiledKept
<1> QED
  BY <1>1, <1>2, PTL DEF Packs!Spec

(* However the renames of several pages and their answers interleave, what *)
(* names a pack names a registered one (rename_card_pack).                 *)
THEOREM RenamesOrphanNothing ==
    ASSUME OnlyRenames PROVE Packs!Spec => []Packs!NoOrphan
<1>1. Filed => Packs!NoOrphan
  BY DEF Filed, Packs!NoOrphan
<1> QED
  BY <1>1, RenamesFiled, PTL

(* And a rename takes one name off the list and puts one there that was    *)
(* asked for, and moves packs as a whole: it never merges two.             *)
THEOREM RenamesMoveWholePacks ==
    ASSUME OnlyRenames
    PROVE  Packs!Spec => [][Packs!AskedFor /\ Packs!MovesWholePacks]_(Packs!vars)
<1>1. ASSUME PackTypes, Filed, PackStep PROVE Packs!AskedFor /\ Packs!MovesWholePacks
  <2>1. CASE ~Writes
    BY <1>1, <2>1, OthersKeep DEF Packs!AskedFor, Packs!MovesWholePacks
  <2>2. CASE settings'.catalog = settings.catalog
    BY <2>2 DEF Packs!AskedFor, Packs!MovesWholePacks
  <2>3. ASSUME NEW old \in Name, NEW new \in Name, old \in settings.catalog,
               new \notin settings.catalog, act'.old = old, act'.new = new,
               settings'.catalog = Swapped(old, new, settings.catalog),
               Recalled(old, new, settings.cards, settings'.cards)
        PROVE  Packs!AskedFor /\ Packs!MovesWholePacks
    <3>1. Packs!AskedFor
      BY <2>3 DEF Packs!AskedFor, Swapped
    <3>2. \A c \in Card : settings.cards[c] # new
      BY <1>1, <2>3 DEF Filed, OnlyRenames
    <3>3. Packs!MovesWholePacks
      BY <2>3, <3>2 DEF Packs!MovesWholePacks, Recalled
    <3> QED
      BY <3>1, <3>3
  <2> QED
    BY <1>1, <2>1, <2>2, <2>3, RenameWrites
<1>2. PackTypes /\ Filed /\ [Packs!Next]_(Packs!vars) =>
        [Packs!AskedFor /\ Packs!MovesWholePacks]_(Packs!vars)
  BY <1>1, PackSteps
<1> QED
  BY <1>2, RenamesFiled, PTL DEF Packs!Spec

(*---------------------------------------------------------------------------*)
(* Any requests from any pages, when nothing comes between a route's read    *)
(* and its write.                                                            *)

SerialSpec == Packs!Init /\ [][Packs!Next /\ Packs!Serial]_(Packs!vars)

(* At most one route has read and not yet written; what it read is so.     *)
InSeries ==
    /\ settings.weights.keys \subseteq settings.catalog
    /\ ~settings.weights.set => settings.weights.keys = {}
    /\ \A t \in Tab : call[t].stage = "read" =>
         /\ \A s \in Tab : call[s].stage = "read" => s = t
         /\ call[t].seen = settings /\ Admits(call[t].ask, settings)
         /\ ~premium => call[t].persisted \subseteq settings.catalog

(* A write keeps the weights to registered packs, when the row is as the   *)
(* route has read it.                                                      *)
LEMMA WriteKeepsWeights ==
    ASSUME NEW z \in Inquiry, NEW d \in Packs!Row, NEW w \in Packs!Row, Asks(z.ask),
           WritesRow(z, d, w), z.seen = d, Admits(z.ask, d),
           d.weights.keys \subseteq d.catalog,
           ~d.weights.set => d.weights.keys = {}
    PROVE  /\ w.weights.keys \subseteq w.catalog
           /\ ~w.weights.set => w.weights.keys = {}
<1>1. CASE z.ask.kind = "names"
  BY <1>1 DEF WritesRow, WritesNames
<1>2. CASE z.ask.kind = "weights"
  BY <1>2 DEF WritesRow, WritesWeights, Admits
<1>3. CASE z.ask.kind = "rename"
  BY <1>3 DEF WritesRow, WritesRename, Swapped
<1>4. CASE z.ask.kind = "card"
  BY <1>4 DEF WritesRow, WritesCard
<1>5. CASE z.ask.kind = "bind"
  BY <1>5 DEF WritesRow, WritesMain
<1> QED
  BY <1>1, <1>2, <1>3, <1>4, <1>5 DEF Asks

LEMMA InSeriesKept ==
    ASSUME PackTypes, InSeries, PackStep, Packs!Serial PROVE InSeries'
<1>1. CASE DashTurn
  BY <1>1 DEF DashTurn, InSeries
<1>2. CASE Sends
  BY <1>2 DEF Sends, InquiryMoves, InSeries, PackTypes
<1>3. CASE Reads
  <2>1. PICK t \in Tab, z \in Inquiry :
          /\ InquiryMoves(t, z) /\ call[t].stage = "sent"
          /\ z.stage = "refused" \/ (z.stage = "read" /\ Admits(z.ask, settings))
          /\ z.seen = settings /\ z.persisted = Packs!Persisted(z.ask)
          /\ UNCHANGED <<settings, premium>>
    BY <1>3 DEF Reads
  <2>2. \A s \in Tab : s # t => call'[s] = call[s]
    BY <2>1 DEF InquiryMoves, PackTypes
  <2>3. call'[t] = z
    BY <2>1 DEF InquiryMoves, PackTypes
  <2>4. z.stage = "read" => \A s \in Tab : call[s].stage # "read"
    BY <2>1, <2>3 DEF Packs!Serial
  <2>5. ~premium => z.persisted \subseteq settings.catalog
    BY <2>1 DEF Packs!Persisted
  <2> QED
    BY <2>1, <2>2, <2>3, <2>4, <2>5 DEF InSeries
<1>4. CASE Writes
  <2>1. PICK t \in Tab, z \in Inquiry :
          /\ InquiryMoves(t, z) /\ call[t].stage = "read" /\ z.stage = "done"
          /\ z.ask = call[t].ask /\ z.seen = call[t].seen
          /\ settings' \in Packs!Row /\ WritesRow(z, settings, settings')
    BY <1>4 DEF Writes
  <2>2. \A s \in Tab : call'[s].stage # "read"
    BY <2>1 DEF InquiryMoves, PackTypes, InSeries
  <2>3. Asks(z.ask) /\ z.seen = settings /\ Admits(z.ask, settings)
    BY <2>1 DEF PackTypes, InSeries
  <2>4. /\ settings'.weights.keys \subseteq settings'.catalog
        /\ ~settings'.weights.set => settings'.weights.keys = {}
    BY <2>1, <2>3, WriteKeepsWeights DEF PackTypes, InSeries
  <2> QED
    BY <2>2, <2>4 DEF InSeries
<1>5. CASE Aborts
  BY <1>5 DEF Aborts, InquiryMoves, InSeries, PackTypes
<1>6. CASE Hearing
  BY <1>6 DEF Hearing, InquiryMoves, InSeries, PackTypes
<1>7. CASE Losing
  BY <1>7 DEF Losing, InquiryMoves, InSeries, PackTypes
<1>8. CASE Lapsing
  <2>1. (\E t \in Tab : call[t].stage = "read") => (premium <=> premium')
    BY DEF Packs!Serial
  <2>2. settings' = settings /\ call' = call
    BY <1>8 DEF Lapsing
  <2> QED
    BY <2>1, <2>2 DEF InSeries
<1>9. CASE UNCHANGED <<settings, premium, page, call, act, dropped, unheard, lapses>>
  BY <1>9 DEF InSeries
<1> QED
  BY <1>1, <1>2, <1>3, <1>4, <1>5, <1>6, <1>7, <1>8, <1>9 DEF PackStep

LEMMA SeriesInvariance == SerialSpec => [](PackTypes /\ InSeries)
<1>1. Packs!Init => PackTypes /\ InSeries
  BY FirstPacks DEF InSeries
<1>2. PackTypes /\ InSeries /\ [Packs!Next /\ Packs!Serial]_(Packs!vars) =>
        (PackTypes /\ InSeries)'
  <2>1. ASSUME PackTypes, InSeries, UNCHANGED Packs!vars PROVE (PackTypes /\ InSeries)'
    BY <2>1 DEF Packs!vars, PackTypes, InSeries
  <2>2. ASSUME PackTypes, InSeries, Packs!Next, Packs!Serial
        PROVE  (PackTypes /\ InSeries)'
    BY <2>2, PackSteps, TypesKept, InSeriesKept
  <2> QED
    BY <2>1, <2>2
<1> QED
  BY <1>1, <1>2, PTL DEF SerialSpec

(* Weights are kept only for registered packs, whatever lists and maps the *)
(* pages send back (the settings route prunes the map of weights).         *)
THEOREM WeightsStayRegistered == SerialSpec => []Packs!WeightsRegistered
<1>1. InSeries => Packs!WeightsRegistered
  BY DEF InSeries, Packs!WeightsRegistered
<1> QED
  BY <1>1, SeriesInvariance, PTL

LEMMA SwapDoesNotGrow ==
    ASSUME NEW S, IsFiniteSet(S), NEW old, NEW new
    PROVE  Cardinality(Swapped(old, new, S)) <= Cardinality(S)
<1>1. Cardinality(S) \in Nat
  BY FS_CardinalityType
<1>2. CASE old \notin S
  BY <1>1, <1>2 DEF Swapped
<1>3. CASE old \in S
  <2>1. IsFiniteSet(S \ {old}) /\ Cardinality(S \ {old}) = Cardinality(S) - 1
    BY <1>3, FS_RemoveElement
  <2>2. \/ Cardinality((S \ {old}) \cup {new}) = Cardinality(S \ {old})
        \/ Cardinality((S \ {old}) \cup {new}) = Cardinality(S \ {old}) + 1
    <3>1. CASE new \in S \ {old}
      <4>1. (S \ {old}) \cup {new} = S \ {old}
        BY <3>1
      <4> QED
        BY <4>1
    <3>2. CASE new \notin S \ {old}
      BY <2>1, <3>2, FS_AddElement
    <3> QED
      BY <3>1, <3>2
  <2>3. Swapped(old, new, S) = (S \ {old}) \cup {new}
    BY <1>3 DEF Swapped
  <2> QED
    BY <1>1, <2>1, <2>2, <2>3
<1> QED
  BY <1>2, <1>3

(* On the basic plan the list of packs does not grow, whatever a page with *)
(* an old list, or one that was loaded on the premium plan, sends          *)
(* (isNewCardPackNameAdditionGated).                                       *)
THEOREM BasicPlanDoesNotGrow ==
    ASSUME IsFiniteSet(Name)
    PROVE  SerialSpec => [][Packs!NoGrowthOnBasic]_(Packs!vars)
<1>c. \A S : Packs!Cardinality(S) = Cardinality(S)
  BY DEF Packs!Cardinality, Packs!IsFiniteSet, Cardinality, IsFiniteSet
<1>1. ASSUME PackTypes, InSeries, PackStep PROVE Packs!NoGrowthOnBasic
  <2>0. IsFiniteSet(settings.catalog) /\ Cardinality(settings.catalog) \in Nat
    BY <1>1, FS_Subset, FS_CardinalityType DEF PackTypes, Packs!Row
  <2> SUFFICES ASSUME ~premium
               PROVE  Cardinality(settings'.catalog) <= Cardinality(settings.catalog)
    BY <1>c DEF Packs!NoGrowthOnBasic
  <2>1. CASE settings'.catalog = settings.catalog
    BY <2>0, <2>1
  <2>2. CASE Writes
    <3>1. PICK t \in Tab, z \in Inquiry :
            /\ call[t].stage = "read" /\ z.ask = call[t].ask
            /\ z.persisted = call[t].persisted /\ WritesRow(z, settings, settings')
      BY <2>2 DEF Writes
    <3>2. CASE z.ask.kind = "names"
      <4>1. settings'.catalog \subseteq settings.catalog
        BY <1>1, <3>1, <3>2 DEF WritesRow, WritesNames, InSeries
      <4> QED
        BY <2>0, <4>1, FS_Subset
    <3>3. CASE z.ask.kind = "rename"
      <4>1. settings'.catalog = Swapped(z.ask.old, z.ask.new, settings.catalog)
        BY <3>1, <3>3 DEF WritesRow, WritesRename
      <4> QED
        BY <2>0, <4>1, SwapDoesNotGrow
    <3>4. CASE z.ask.kind \notin {"names", "rename"}
      <4>1. Asks(z.ask)
        BY <1>1, <3>1 DEF PackTypes
      <4> QED
        BY <2>1, <3>1, <3>4, <4>1 DEF Asks, WritesRow, WritesWeights, WritesCard, WritesMain
    <3> QED
      BY <3>2, <3>3, <3>4
  <2> QED
    BY <1>1, <2>1, <2>2, OthersKeep
<1>2. PackTypes /\ InSeries /\ [Packs!Next /\ Packs!Serial]_(Packs!vars) =>
        [Packs!NoGrowthOnBasic]_(Packs!vars)
  BY <1>1, PackSteps
<1> QED
  BY <1>2, SeriesInvariance, PTL DEF SerialSpec

(*---------------------------------------------------------------------------*)
(* Every kind of request from one page, until an answer is lost or the plan  *)
(* lapses.                                                                   *)

OnePage == \A s, t \in Tab : s = t
Undisturbed == unheard = 0 /\ lapses = 0

(* What a request has done, the page does once it hears the answer.        *)
Pending(x, r, d) ==
    /\ r.ask.kind = "names" => /\ ~r.gated /\ r.persisted = d.catalog
                               /\ x.cards = d.cards
    /\ r.ask.kind = "rename" => /\ d.catalog = Swapped(r.ask.old, r.ask.new, r.seen.catalog)
                                /\ Recalled(r.ask.old, r.ask.new, x.cards, d.cards)
    /\ r.ask.kind = "card" => /\ x.names = d.catalog
                              /\ \A c \in Card : d.cards[c] = IF c \in r.ask.card
                                                              THEN r.ask.new ELSE x.cards[c]
    /\ r.ask.kind \in {"weights", "bind"} => x.names = d.catalog /\ x.cards = d.cards

(* Page and request against the settings.                                  *)
Follows(x, r, d) ==
    /\ r.stage # "done" => x.names = d.catalog /\ x.cards = d.cards
    /\ x.modal = "packs" => x.removed = x.names \ x.list /\ x.added = x.list \ x.names
    /\ r.stage # "none" /\ r.ask.kind = "rename" => x.modal = "packs" /\ x.list = x.names
    /\ r.stage \in {"sent", "read"} /\ r.ask.kind = "names" =>
         /\ r.ask.removed = d.catalog \ r.ask.names
         /\ r.ask.added = r.ask.names \ d.catalog
    /\ r.stage = "read" => /\ r.seen = d /\ Admits(r.ask, d)
                           /\ r.persisted = r.ask.names /\ ~r.gated
    /\ r.stage = "done" => Pending(x, r, d)

(* The settings by themselves.                                             *)
Registered(d, D) ==
    /\ \A c \in Card : d.cards[c] \in d.catalog \cup D \cup {NoPack}
    /\ d.main \in d.catalog \cup D \cup {NoPack}
    /\ d.weights.keys \subseteq d.catalog
    /\ ~d.weights.set => d.weights.keys = {}

AloneInv ==
    Undisturbed => /\ premium /\ Registered(settings, dropped)
                   /\ \A t \in Tab : Follows(page[t], call[t], settings)

LEMMA AloneWrites ==
    ASSUME NEW x \in Dash, NEW r \in Inquiry, NEW z \in Inquiry, NEW d \in Packs!Row,
           NEW w \in Packs!Row, NEW D, Asks(z.ask), Registered(d, D), Follows(x, r, d),
           r.stage = "read", z.stage = "done", z.ask = r.ask, z.seen = r.seen,
           z.persisted = r.persisted, z.gated = r.gated, WritesRow(z, d, w)
    PROVE  /\ Registered(w, D \cup z.ask.removed) /\ Follows(x, z, w)
           /\ d.catalog \ w.catalog \subseteq z.ask.removed \cup {z.ask.old}
           /\ w.catalog \ d.catalog \subseteq z.ask.added \cup {z.ask.new}
<1> DEFINE Stays == /\ \A c \in Card : w.cards[c] \in w.catalog \cup D \cup z.ask.removed \cup {NoPack}
                   /\ w.main \in w.catalog \cup D \cup z.ask.removed \cup {NoPack}
                   /\ d.catalog \ w.catalog \subseteq z.ask.removed \cup {z.ask.old}
                   /\ w.catalog \ d.catalog \subseteq z.ask.added \cup {z.ask.new}
                   /\ Pending(x, z, w)
<1>1. ASSUME z.ask.kind = "names" PROVE Stays
  BY <1>1 DEF WritesRow, WritesNames, Registered, Follows, Pending
<1>2. ASSUME z.ask.kind = "weights" PROVE Stays
  <2>1. Pending(x, z, w)
    BY <1>2 DEF WritesRow, WritesWeights, Follows, Pending
  <2> QED
    BY <1>2, <2>1 DEF WritesRow, WritesWeights, Registered
<1>3. ASSUME z.ask.kind = "rename" PROVE Stays
  <2>1. /\ w.catalog = Swapped(z.ask.old, z.ask.new, d.catalog)
        /\ Recalled(z.ask.old, z.ask.new, d.cards, w.cards)
        /\ w.main = IF d.main = z.ask.old THEN z.ask.new ELSE d.main
        /\ z.seen = d /\ z.ask.old \in d.catalog
    BY <1>3 DEF WritesRow, WritesRename, Follows, Admits
  <2>2. Pending(x, z, w)
    BY <1>3, <2>1 DEF Pending, Follows
  <2>3. /\ \A c \in Card : w.cards[c] \in w.catalog \cup D \cup {NoPack}
        /\ w.main \in w.catalog \cup D \cup {NoPack}
    BY <2>1 DEF Registered, Swapped, Recalled
  <2>4. /\ d.catalog \ w.catalog \subseteq {z.ask.old}
        /\ w.catalog \ d.catalog \subseteq {z.ask.new}
    BY <2>1 DEF Swapped
  <2> QED
    BY <2>2, <2>3, <2>4
<1>4. ASSUME z.ask.kind = "card" PROVE Stays
  <2>1. Pending(x, z, w)
    BY <1>4 DEF WritesRow, WritesCard, Follows, Pending
  <2> QED
    BY <1>4, <2>1 DEF WritesRow, WritesCard, Registered, Follows, Admits
<1>5. ASSUME z.ask.kind = "bind" PROVE Stays
  BY <1>5 DEF WritesRow, WritesMain, Registered, Follows, Pending, Admits
<1>6. Stays
  <2> HIDE DEF Stays
  <2> QED
    BY <1>1, <1>2, <1>3, <1>4, <1>5 DEF Asks
<1>7. /\ w.weights.keys \subseteq w.catalog
      /\ ~w.weights.set => w.weights.keys = {}
  BY WriteKeepsWeights DEF Follows, Registered
<1> QED
  BY <1>6, <1>7 DEF Registered, Follows

LEMMA AloneHears ==
    ASSUME NEW x \in Dash, NEW r \in Inquiry, NEW y \in Dash, NEW z \in Inquiry,
           NEW d \in Packs!Row, Asks(r.ask), Follows(x, r, d), z.stage = "none",
           \/ r.stage = "done" /\ Hears(r, x, y)
           \/ r.stage = "refused" /\ y = x
    PROVE  Follows(y, z, d)
<1>1. CASE r.stage = "refused"
  BY <1>1 DEF Follows
<1>2. CASE r.stage = "done" /\ r.ask.kind = "names"
  BY <1>2 DEF Follows, Hears, HearsNames, Pending
<1>3. CASE r.stage = "done" /\ r.ask.kind = "rename"
  <2>1. HearsRename(r, x, y) /\ Pending(x, r, d)
    BY <1>3 DEF Follows, Hears
  <2>2. \A c \in Card : y.cards[c] = d.cards[c]
    BY <1>3, <2>1 DEF HearsRename, Pending, Recalled
  <2>3. y.cards = d.cards
    BY <2>2 DEF Dash, Packs!Row
  <2>4. y.names = d.catalog
    BY <1>3, <2>1 DEF HearsRename, Pending
  <2> QED
    BY <1>3, <2>1, <2>3, <2>4 DEF Follows, HearsRename
<1>4. CASE r.stage = "done" /\ r.ask.kind = "card"
  <2>1. HearsCard(r, x, y) /\ Pending(x, r, d)
    BY <1>4 DEF Follows, Hears
  <2>2. \A c \in Card : y.cards[c] = d.cards[c]
    BY <1>4, <2>1 DEF HearsCard, Pending
  <2>3. y.cards = d.cards
    BY <2>2 DEF Dash, Packs!Row
  <2>4. y.names = d.catalog
    BY <1>4, <2>1 DEF HearsCard, Pending
  <2> QED
    BY <1>4, <2>1, <2>3, <2>4 DEF Follows, HearsCard
<1>5. CASE r.stage = "done" /\ r.ask.kind \in {"weights", "bind"}
  BY <1>5 DEF Follows, Hears, Unmoved, Pending
<1> QED
  BY <1>1, <1>2, <1>3, <1>4, <1>5 DEF Asks

LEMMA AloneDash ==
    ASSUME NEW t \in Tab, NEW y \in Dash, NEW d, DashStep(t, y), d = settings,
           Follows(page[t], call[t], d), call[t].stage = "none"
    PROVE  Follows(y, call[t], d)
<1>1. CASE DashReloads(t, y)
  BY <1>1 DEF DashReloads, Follows
<1>2. CASE DashOpens(t, y)
  BY <1>2 DEF DashOpens, DashKeeps, Follows
<1>3. CASE DashCloses(t, y)
  BY <1>3 DEF DashCloses, DashKeeps, Follows
<1>4. ASSUME NEW n \in Name, DashAdds(t, y, n) PROVE Follows(y, call[t], d)
  BY <1>4 DEF DashAdds, DashKeeps, Follows
<1>5. ASSUME NEW n \in Name, DashRemoves(t, y, n) PROVE Follows(y, call[t], d)
  BY <1>5 DEF DashRemoves, DashKeeps, Follows
<1> QED
  BY <1>1, <1>2, <1>3, <1>4, <1>5 DEF DashStep

LEMMA AloneKept ==
    ASSUME PackTypes, OnePage, AloneInv, PackStep PROVE AloneInv'
<1> SUFFICES ASSUME Undisturbed'
             PROVE  /\ premium' /\ Registered(settings', dropped')
                    /\ \A t \in Tab : Follows(page'[t], call'[t], settings')
  BY DEF AloneInv
<1>1. ASSUME Undisturbed
      PROVE  /\ premium /\ Registered(settings, dropped)
             /\ \A t \in Tab : Follows(page[t], call[t], settings)
  BY <1>1 DEF AloneInv
<1>2. CASE DashTurn
  <2>1. PICK t \in Tab, y \in Dash :
          /\ PageMoves(t, y) /\ DashStep(t, y) /\ call[t].stage = "none"
          /\ UNCHANGED <<settings, premium, call, dropped, unheard, lapses>>
    BY <1>2 DEF DashTurn
  <2>2. Undisturbed
    BY <2>1 DEF Undisturbed
  <2>3. page'[t] = y /\ call' = call
    BY <2>1 DEF PageMoves, PackTypes
  <2>4. Follows(y, call[t], settings)
    BY <1>1, <2>1, <2>2, AloneDash
  <2> QED
    BY <1>1, <2>1, <2>2, <2>3, <2>4 DEF OnePage
<1>3. CASE Sends
  <2>1. PICK t \in Tab, z \in Inquiry :
          /\ InquiryMoves(t, z) /\ call[t].stage = "none" /\ z.stage = "sent"
          /\ Wishes(t, z.ask)
          /\ UNCHANGED <<settings, premium, page, dropped, unheard, lapses>>
    BY <1>3 DEF Sends
  <2>2. Undisturbed
    BY <2>1 DEF Undisturbed
  <2>3. call'[t] = z
    BY <2>1 DEF InquiryMoves, PackTypes
  <2>4. Follows(page[t], z, settings)
    BY <1>1, <2>1, <2>2 DEF Follows, Wishes, AsksNames, AsksWeights, AsksRename, AsksCard,
       AsksBind
  <2> QED
    BY <1>1, <2>1, <2>2, <2>3, <2>4 DEF OnePage
<1>4. CASE Reads
  <2>1. PICK t \in Tab, z \in Inquiry :
          /\ InquiryMoves(t, z) /\ call[t].stage = "sent" /\ z.ask = call[t].ask
          /\ z.stage = "refused" \/ (z.stage = "read" /\ Admits(z.ask, settings))
          /\ z.seen = settings /\ z.persisted = Packs!Persisted(z.ask)
          /\ z.gated <=> z.persisted # z.ask.names
          /\ UNCHANGED <<settings, premium, page, dropped, unheard, lapses>>
    BY <1>4 DEF Reads
  <2>2. Undisturbed
    BY <2>1 DEF Undisturbed
  <2>3. call'[t] = z
    BY <2>1 DEF InquiryMoves, PackTypes
  <2>4. z.persisted = z.ask.names /\ ~z.gated
    BY <1>1, <2>1, <2>2 DEF Packs!Persisted
  <2>5. Follows(page[t], z, settings)
    BY <1>1, <2>1, <2>2, <2>4 DEF Follows
  <2> QED
    BY <1>1, <2>1, <2>2, <2>3, <2>5 DEF OnePage
<1>5. CASE Writes
  <2>1. PICK t \in Tab, z \in Inquiry :
          /\ InquiryMoves(t, z) /\ call[t].stage = "read" /\ z.stage = "done"
          /\ z.ask = call[t].ask /\ z.seen = call[t].seen
          /\ z.persisted = call[t].persisted /\ z.gated = call[t].gated
          /\ settings' \in Packs!Row /\ WritesRow(z, settings, settings')
          /\ dropped' = dropped \cup z.ask.removed
          /\ UNCHANGED <<premium, page, unheard, lapses>>
    BY <1>5 DEF Writes
  <2>2. Undisturbed
    BY <2>1 DEF Undisturbed
  <2>3. call'[t] = z
    BY <2>1 DEF InquiryMoves, PackTypes
  <2>4. /\ page[t] \in Dash /\ call[t] \in Inquiry /\ settings \in Packs!Row /\ Asks(z.ask)
    BY <2>1 DEF PackTypes
  <2>5. Registered(settings', dropped') /\ Follows(page[t], z, settings')
    BY <1>1, <2>1, <2>2, <2>4, AloneWrites
  <2> QED
    BY <1>1, <2>1, <2>2, <2>3, <2>5 DEF OnePage
<1>6. CASE Aborts
  <2>1. PICK t \in Tab, z \in Inquiry :
          /\ InquiryMoves(t, z) /\ call[t].stage = "read" /\ z.stage = "refused"
          /\ z.ask = call[t].ask
          /\ UNCHANGED <<settings, premium, page, dropped, unheard, lapses>>
    BY <1>6 DEF Aborts
  <2>2. Undisturbed
    BY <2>1 DEF Undisturbed
  <2>3. call'[t] = z
    BY <2>1 DEF InquiryMoves, PackTypes
  <2>4. Follows(page[t], z, settings)
    BY <1>1, <2>1, <2>2 DEF Follows
  <2> QED
    BY <1>1, <2>1, <2>2, <2>3, <2>4 DEF OnePage
<1>7. CASE Hearing
  <2>1. PICK t \in Tab, y \in Dash, z \in Inquiry :
          /\ PageMoves(t, y) /\ InquiryMoves(t, z) /\ z.stage = "none"
          /\ \/ call[t].stage = "done" /\ Hears(call[t], page[t], y)
             \/ call[t].stage = "refused" /\ y = page[t]
          /\ UNCHANGED <<settings, premium, dropped, unheard, lapses>>
    BY <1>7 DEF Hearing
  <2>2. Undisturbed
    BY <2>1 DEF Undisturbed
  <2>3. call'[t] = z /\ page'[t] = y
    BY <2>1 DEF InquiryMoves, PageMoves, PackTypes
  <2>4. /\ page[t] \in Dash /\ call[t] \in Inquiry /\ settings \in Packs!Row
        /\ Asks(call[t].ask)
    BY <2>1 DEF PackTypes
  <2>5. Follows(y, z, settings)
    BY <1>1, <2>1, <2>2, <2>4, AloneHears
  <2> QED
    BY <1>1, <2>1, <2>2, <2>3, <2>5 DEF OnePage
<1>8. ~Losing /\ ~Lapsing
  BY DEF Losing, Lapsing, Undisturbed, PackTypes
<1>9. CASE UNCHANGED <<settings, premium, page, call, act, dropped, unheard, lapses>>
  BY <1>1, <1>9 DEF Undisturbed
<1> QED
  BY <1>2, <1>3, <1>4, <1>5, <1>6, <1>7, <1>8, <1>9 DEF PackStep

LEMMA AloneInvariance == ASSUME OnePage PROVE Packs!Spec => [](PackTypes /\ AloneInv)
<1>1. Packs!Init => PackTypes /\ AloneInv
  <2> SUFFICES ASSUME Packs!Init PROVE PackTypes /\ AloneInv
    OBVIOUS
  <2>1. premium
    BY Zenon DEF Packs!Init
  <2> QED
    BY <2>1, FirstPacks DEF AloneInv, Registered, Follows
<1>2. PackTypes /\ AloneInv /\ [Packs!Next]_(Packs!vars) => (PackTypes /\ AloneInv)'
  BY PackSteps, TypesKept, AloneKept
<1> QED
  BY <1>1, <1>2, PTL DEF Packs!Spec

(* A page alone shows what the server has, once its request is answered;   *)
(* what names a pack names one that is registered or was removed on        *)
(* purpose; weights are for registered packs.                              *)
THEOREM AlonePageFollows ==
    ASSUME OnePage
    PROVE  Packs!Spec => [](Undisturbed => /\ Packs!PageFollows /\ Packs!NoOrphan
                                           /\ Packs!WeightsRegistered)
<1>1. AloneInv => (Undisturbed => /\ Packs!PageFollows /\ Packs!NoOrphan
                                  /\ Packs!WeightsRegistered)
  BY DEF AloneInv, Registered, Follows, Packs!PageFollows, Packs!Free, Packs!NoOrphan,
     Packs!WeightsRegistered
<1> QED
  BY <1>1, AloneInvariance, PTL

(* No save of such a page undoes another: a name comes or goes only when   *)
(* the streamer has asked for this.                                        *)
THEOREM AlonePageAsks ==
    ASSUME OnePage
    PROVE  Packs!Spec => [][Undisturbed => Packs!AskedFor]_(Packs!vars)
<1>1. ASSUME PackTypes, AloneInv, Undisturbed, PackStep PROVE Packs!AskedFor
  <2>1. CASE ~Writes
    BY <1>1, <2>1, OthersKeep DEF Packs!AskedFor
  <2>2. CASE Writes
    <3>1. PICK t \in Tab, z \in Inquiry :
            /\ call[t].stage = "read" /\ z.stage = "done"
            /\ z.ask = call[t].ask /\ z.seen = call[t].seen
            /\ z.persisted = call[t].persisted /\ z.gated = call[t].gated
            /\ settings' \in Packs!Row /\ WritesRow(z, settings, settings')
            /\ act' = z.ask
      BY <2>2 DEF Writes
    <3>2. /\ page[t] \in Dash /\ call[t] \in Inquiry /\ settings \in Packs!Row /\ Asks(z.ask)
          /\ Registered(settings, dropped) /\ Follows(page[t], call[t], settings)
      BY <1>1, <3>1 DEF PackTypes, AloneInv
    <3>3. /\ settings.catalog \ settings'.catalog \subseteq z.ask.removed \cup {z.ask.old}
          /\ settings'.catalog \ settings.catalog \subseteq z.ask.added \cup {z.ask.new}
      BY <3>1, <3>2, AloneWrites
    <3> QED
      BY <3>1, <3>3 DEF Packs!AskedFor
  <2> QED
    BY <2>1, <2>2
<1>2. PackTypes /\ AloneInv /\ [Packs!Next]_(Packs!vars) =>
        [Undisturbed => Packs!AskedFor]_(Packs!vars)
  BY <1>1, PackSteps
<1> QED
  BY <1>2, AloneInvariance, PTL DEF Packs!Spec

=============================================================================
