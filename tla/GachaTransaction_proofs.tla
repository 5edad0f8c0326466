----------------------- MODULE GachaTransaction_proofs -----------------------
(***************************************************************************)
(* Proofs about GachaTransaction for every set of sessions, batches and    *)
(* cards and every value of the limits; about the rewards that start its   *)
(* draws (RewardSetup), for every set of rewards and pages; and about the  *)
(* rates that cards are drawn by (DropRates), for every set of cards,      *)
(* requests and settings.                                                  *)
(***************************************************************************)
EXTENDS GachaTransaction, TLAPS

CONSTANTS Reward, Page, Compact, Overlap, MaxOps, MaxTrouble  \* RewardSetup
VARIABLES main, extra, subs, view, work, ops, trouble, smooth, last
CONSTANTS Rarity, Request, Share, Scheme, MaxForms, MaxFaults  \* DropRates
VARIABLES cardRow, weights, editForm, request, opened, failures

Setup == INSTANCE RewardSetup WITH page <- view, req <- work
Rates == INSTANCE DropRates WITH
    Setting <- Scheme, card <- cardRow, form <- editForm, req <- request,
    forms <- opened, faults <- failures

(* A new call has its arguments and holds no lock.                         *)
LEMMA BeginInductive ==
    ASSUME NEW t \in Session, NEW e \in Event, NEW i \in 1..Draws[e], NEW c \in Card, IInv,
           Begin(t, e, i, c)
    PROVE  IInv'
<1> USE DrawsAssumption, LimitAssumption, NoneAssumption
<1>1. TypeOK'
  BY DEF IInv, TypeOK, Arguments, Begin, tables, callVars, Phase,
     Ledger!Reply
<1>2. Arguments'
  BY DEF IInv, TypeOK, Arguments, Begin, tables, callVars
<1>3. EventLocked'
  BY DEF IInv, TypeOK, Arguments, Begin, tables, callVars, EventLocked,
     HoldsEvent
<1>4. CardLocked'
  BY DEF IInv, TypeOK, Arguments, Begin, tables, callVars, CardLocked,
     CardHeld, HoldsCard
<1>5. CardHeld'
  BY DEF IInv, TypeOK, Arguments, Begin, tables, callVars, CardHeld,
     CardLocked, HoldsCard
<1>6. DrawKnown'
  BY DEF IInv, TypeOK, Arguments, Begin, tables, callVars, DrawKnown,
     EventLocked, HoldsEvent, CardHeld
<1>7. RoomReserved'
  <2> SUFFICES ASSUME NEW u \in Session, (phase[u] = "insert" \/ fresh[u])'
               PROVE  Ledger!Room(card[u])'
    BY DEF RoomReserved
  <2>1. u # t /\ (phase[u] = "insert" \/ fresh[u])
    BY DEF IInv, TypeOK, DrawKnown, Begin
  <2>2. Ledger!Room(card[u])
    BY <2>1 DEF IInv, RoomReserved
  <2> QED
    BY <2>1, <2>2 DEF Begin, Ledger!Room, IInv, TypeOK, tables
<1>8. BatchReady'
  BY DEF IInv, TypeOK, Arguments, Begin, tables, callVars, BatchReady,
     Assembled
<1>9. BatchComplete'
  BY DEF IInv, TypeOK, Arguments, Begin, tables, callVars, BatchComplete,
     BatchReady, Assembled
<1>10. QueuedWithFinalDraw'
  BY DEF IInv, TypeOK, Arguments, Begin, tables, callVars,
     QueuedWithFinalDraw, DrawKnown
<1> QED
  BY <1>1, <1>2, <1>3, <1>4, <1>5, <1>6, <1>7, <1>8, <1>9, <1>10 DEF IInv

(* The advisory lock is only taken when it is free.                        *)
LEMMA LockInductive ==
    ASSUME NEW t \in Session, IInv,
           Lock(t)
    PROVE  IInv'
<1> USE DrawsAssumption, LimitAssumption, NoneAssumption
<1>1. TypeOK'
  BY DEF IInv, TypeOK, Arguments, Lock, EventFree, tables, callVars, Phase,
     Ledger!Reply
<1>2. Arguments'
  BY DEF IInv, TypeOK, Arguments, Lock, EventFree, tables, callVars
<1>3. EventLocked'
  BY DEF IInv, TypeOK, Arguments, Lock, EventFree, tables, callVars,
     EventLocked, HoldsEvent
<1>4. CardLocked'
  BY DEF IInv, TypeOK, Arguments, Lock, EventFree, tables, callVars,
     CardLocked, CardHeld, HoldsCard
<1>5. CardHeld'
  BY DEF IInv, TypeOK, Arguments, Lock, EventFree, tables, callVars,
     CardHeld, CardLocked, HoldsCard
<1>6. DrawKnown'
  BY DEF IInv, TypeOK, Arguments, Lock, EventFree, tables, callVars,
     DrawKnown, EventLocked, HoldsEvent, CardHeld
<1>7. RoomReserved'
  BY DEF IInv, TypeOK, Arguments, Lock, EventFree, tables, callVars,
     RoomReserved, CardHeld, CardLocked, HoldsCard, DrawKnown, Ledger!Room
<1>8. BatchReady'
  BY DEF IInv, TypeOK, Arguments, Lock, EventFree, tables, callVars,
     BatchReady, Assembled
<1>9. BatchComplete'
  BY DEF IInv, TypeOK, Arguments, Lock, EventFree, tables, callVars,
     BatchComplete, BatchReady, Assembled
<1>10. QueuedWithFinalDraw'
  BY DEF IInv, TypeOK, Arguments, Lock, EventFree, tables, callVars,
     QueuedWithFinalDraw, DrawKnown
<1> QED
  BY <1>1, <1>2, <1>3, <1>4, <1>5, <1>6, <1>7, <1>8, <1>9, <1>10 DEF IInv

(* The duplicate check learns whether the draw is on record.               *)
LEMMA CheckDuplicateInductive ==
    ASSUME NEW t \in Session, IInv,
           CheckDuplicate(t)
    PROVE  IInv'
<1> USE DrawsAssumption, LimitAssumption, NoneAssumption
<1>1. TypeOK'
  BY DEF IInv, TypeOK, Arguments, CheckDuplicate, tables, callVars, Phase,
     Ledger!Reply
<1>2. Arguments'
  BY DEF IInv, TypeOK, Arguments, CheckDuplicate, tables, callVars
<1>3. EventLocked'
  BY DEF IInv, TypeOK, Arguments, CheckDuplicate, tables, callVars,
     EventLocked, HoldsEvent
<1>4. CardLocked'
  BY DEF IInv, TypeOK, Arguments, CheckDuplicate, tables, callVars,
     CardLocked, CardHeld, HoldsCard
<1>5. CardHeld'
  BY DEF IInv, TypeOK, Arguments, CheckDuplicate, tables, callVars, CardHeld,
     CardLocked, HoldsCard
<1>6. DrawKnown'
  BY DEF IInv, TypeOK, Arguments, CheckDuplicate, tables, callVars,
     DrawKnown, EventLocked, HoldsEvent, CardHeld
<1>7. RoomReserved'
  BY DEF IInv, TypeOK, Arguments, CheckDuplicate, tables, callVars,
     RoomReserved, CardHeld, CardLocked, HoldsCard, DrawKnown, Ledger!Room
<1>8. BatchReady'
  BY DEF IInv, TypeOK, Arguments, CheckDuplicate, tables, callVars,
     BatchReady, Assembled
<1>9. BatchComplete'
  BY DEF IInv, TypeOK, Arguments, CheckDuplicate, tables, callVars,
     BatchComplete, BatchReady, Assembled
<1>10. QueuedWithFinalDraw'
  BY DEF IInv, TypeOK, Arguments, CheckDuplicate, tables, callVars,
     QueuedWithFinalDraw, DrawKnown
<1> QED
  BY <1>1, <1>2, <1>3, <1>4, <1>5, <1>6, <1>7, <1>8, <1>9, <1>10 DEF IInv

(* The row lock is only taken when it is free, and reads the row.          *)
LEMMA LockCardInductive ==
    ASSUME NEW t \in Session, IInv,
           LockCard(t)
    PROVE  IInv'
<1> USE DrawsAssumption, LimitAssumption, NoneAssumption
<1>0. /\ card[t] \in Card /\ limit[card[t]] \in Limits
      /\ cap' \in {cap, [cap EXCEPT ![t] = limit[card[t]]]}
      /\ phase' \in {[phase EXCEPT ![t] = "count"], [phase EXCEPT ![t] = "limited"]}
      /\ UNCHANGED <<tables, callVars, fresh, reply>>
  BY DEF LockCard, IInv, Arguments, TypeOK
<1>1. TypeOK'
  BY <1>0 DEF IInv, TypeOK, Phase, Ledger!Reply, tables, callVars
<1>2. Arguments'
  BY DEF IInv, TypeOK, Arguments, LockCard, CardFree, tables, callVars
<1>3. EventLocked'
  BY DEF IInv, TypeOK, Arguments, LockCard, CardFree, tables, callVars,
     EventLocked, HoldsEvent
<1>4. CardLocked'
  <2>1. CASE UNCHANGED cap
    BY <1>0, <2>1 DEF IInv, CardLocked, HoldsCard, callVars
  <2>2. CASE CardFree(card[t]) /\ cap' = [cap EXCEPT ![t] = limit[card[t]]]
    BY <1>0, <2>2 DEF IInv, TypeOK, CardLocked, HoldsCard, CardFree, callVars
  <2> QED
    BY <2>1, <2>2 DEF LockCard
<1>5. CardHeld'
  <2>1. CASE /\ card[t] \in active /\ cap' = [cap EXCEPT ![t] = limit[card[t]]]
             /\ phase' = [phase EXCEPT ![t] = "count"]
    BY <1>0, <2>1 DEF LockCard, IInv, TypeOK, CardHeld, HoldsCard, DrawKnown, callVars, tables
  <2>2. CASE UNCHANGED cap /\ phase' = [phase EXCEPT ![t] = "limited"]
    BY <1>0, <2>2 DEF LockCard, IInv, TypeOK, CardHeld, HoldsCard, DrawKnown, callVars, tables
  <2> QED
    BY <2>1, <2>2 DEF LockCard
<1>6. DrawKnown'
  <2> SUFFICES ASSUME NEW u \in Session
               PROVE  /\ (phase[u] \in {"card", "count", "insert", "limited"} \/ fresh[u])'
                           => history[batch[u]][draw[u]] = None
                      /\ (phase[u] \in {"assemble", "commit"} /\ ~fresh[u])'
                           => history[batch[u]][draw[u]] # None
                      /\ fresh'[u] => phase'[u] \in {"assemble", "commit"}
    BY <1>0 DEF DrawKnown, tables, callVars
  <2>1. CASE u = t
    BY ZenonT(60), <1>0, <2>1 DEF LockCard, IInv, TypeOK, DrawKnown
  <2>2. CASE u # t
    <3>1. phase'[u] = phase[u] /\ fresh'[u] = fresh[u]
      BY <1>0, <2>2 DEF IInv, TypeOK
    <3> QED
      BY <3>1 DEF IInv, DrawKnown
  <2> QED
    BY <2>1, <2>2
<1>7. RoomReserved'
  BY DEF IInv, TypeOK, Arguments, LockCard, CardFree, tables, callVars,
     RoomReserved, CardHeld, CardLocked, HoldsCard, DrawKnown, Ledger!Room
<1>8. BatchReady'
  BY DEF IInv, TypeOK, Arguments, LockCard, CardFree, tables, callVars,
     BatchReady, Assembled
<1>9. BatchComplete'
  BY DEF IInv, TypeOK, Arguments, LockCard, CardFree, tables, callVars,
     BatchComplete, BatchReady, Assembled
<1>10. QueuedWithFinalDraw'
  BY DEF IInv, TypeOK, Arguments, LockCard, CardFree, tables, callVars,
     QueuedWithFinalDraw, DrawKnown
<1> QED
  BY <1>1, <1>2, <1>3, <1>4, <1>5, <1>6, <1>7, <1>8, <1>9, <1>10 DEF IInv

(* A count below the limit is room for one more copy.                      *)
LEMMA CountInductive ==
    ASSUME NEW t \in Session, IInv,
           Count(t)
    PROVE  IInv'
<1> USE DrawsAssumption, LimitAssumption, NoneAssumption
<1>1. TypeOK'
  BY DEF IInv, TypeOK, Arguments, Count, tables, callVars, Phase,
     Ledger!Reply
<1>2. Arguments'
  BY DEF IInv, TypeOK, Arguments, Count, tables, callVars
<1>3. EventLocked'
  BY DEF IInv, TypeOK, Arguments, Count, tables, callVars, EventLocked,
     HoldsEvent
<1>4. CardLocked'
  BY DEF IInv, TypeOK, Arguments, Count, tables, callVars, CardLocked,
     CardHeld, HoldsCard
<1>5. CardHeld'
  BY DEF IInv, TypeOK, Arguments, Count, tables, callVars, CardHeld,
     CardLocked, HoldsCard
<1>6. DrawKnown'
  BY DEF IInv, TypeOK, Arguments, Count, tables, callVars, DrawKnown,
     EventLocked, HoldsEvent, CardHeld
<1>7. RoomReserved'
  <2> SUFFICES ASSUME NEW u \in Session, (phase[u] = "insert" \/ fresh[u])'
               PROVE  Ledger!Room(card[u])
    BY DEF RoomReserved, Count, Ledger!Room, callVars, tables
  <2>1. CASE phase[u] = "insert" \/ fresh[u]
    BY <2>1 DEF IInv, RoomReserved
  <2>2. CASE u = t /\ ~(cap[t] # Unlimited /\ copies[card[t]] >= cap[t])
    <3>1. cap[t] = limit[card[t]] /\ card[t] \in active /\ card[t] \in Card
      BY DEF IInv, CardHeld, Arguments, Count
    <3>2. copies[card[t]] \in Nat /\ limit[card[t]] \in Nat \cup {Unlimited}
      BY <3>1 DEF IInv, TypeOK
    <3> QED
      BY <2>2, <3>1, <3>2 DEF Ledger!Room
  <2> QED
    BY <2>1, <2>2 DEF Count, IInv, TypeOK
<1>8. BatchReady'
  BY DEF IInv, TypeOK, Arguments, Count, tables, callVars, BatchReady,
     Assembled
<1>9. BatchComplete'
  BY DEF IInv, TypeOK, Arguments, Count, tables, callVars, BatchComplete,
     BatchReady, Assembled
<1>10. QueuedWithFinalDraw'
  BY DEF IInv, TypeOK, Arguments, Count, tables, callVars,
     QueuedWithFinalDraw, DrawKnown
<1> QED
  BY <1>1, <1>2, <1>3, <1>4, <1>5, <1>6, <1>7, <1>8, <1>9, <1>10 DEF IInv

(* The insertion keeps the row lock and the room.                          *)
LEMMA InsertInductive ==
    ASSUME NEW t \in Session, IInv,
           Insert(t)
    PROVE  IInv'
<1> USE DrawsAssumption, LimitAssumption, NoneAssumption
<1>1. TypeOK'
  BY DEF IInv, TypeOK, Arguments, Insert, tables, callVars, Phase,
     Ledger!Reply
<1>2. Arguments'
  BY DEF IInv, TypeOK, Arguments, Insert, tables, callVars
<1>3. EventLocked'
  BY DEF IInv, TypeOK, Arguments, Insert, tables, callVars, EventLocked,
     HoldsEvent
<1>4. CardLocked'
  BY DEF IInv, TypeOK, Arguments, Insert, tables, callVars, CardLocked,
     CardHeld, HoldsCard
<1>5. CardHeld'
  BY DEF IInv, TypeOK, Arguments, Insert, tables, callVars, CardHeld,
     CardLocked, HoldsCard
<1>6. DrawKnown'
  <2> SUFFICES ASSUME NEW u \in Session
               PROVE  /\ (phase[u] \in {"card", "count", "insert", "limited"} \/ fresh[u])'
                           => history[batch[u]][draw[u]] = None
                      /\ (phase[u] \in {"assemble", "commit"} /\ ~fresh[u])'
                           => history[batch[u]][draw[u]] # None
                      /\ fresh'[u] => phase'[u] \in {"assemble", "commit"}
    BY DEF DrawKnown, Insert, tables, callVars
  <2>1. CASE u = t
    BY <2>1 DEF Insert, IInv, TypeOK, DrawKnown
  <2>2. CASE u # t
    <3>1. phase'[u] = phase[u] /\ fresh'[u] = fresh[u]
      BY <2>2 DEF Insert, IInv, TypeOK
    <3> QED
      BY <3>1 DEF IInv, DrawKnown
  <2> QED
    BY <2>1, <2>2
<1>7. RoomReserved'
  BY DEF IInv, TypeOK, Arguments, Insert, tables, callVars, RoomReserved,
     CardHeld, CardLocked, HoldsCard, DrawKnown, Ledger!Room
<1>8. BatchReady'
  BY DEF IInv, TypeOK, Arguments, Insert, tables, callVars, BatchReady,
     Assembled
<1>9. BatchComplete'
  BY DEF IInv, TypeOK, Arguments, Insert, tables, callVars, BatchComplete,
     BatchReady, Assembled
<1>10. QueuedWithFinalDraw'
  BY DEF IInv, TypeOK, Arguments, Insert, tables, callVars,
     QueuedWithFinalDraw, DrawKnown
<1> QED
  BY <1>1, <1>2, <1>3, <1>4, <1>5, <1>6, <1>7, <1>8, <1>9, <1>10 DEF IInv

(* A final draw that passes has its batch together.                        *)
LEMMA AssembleInductive ==
    ASSUME NEW t \in Session, IInv,
           Assemble(t)
    PROVE  IInv'
<1> USE DrawsAssumption, LimitAssumption, NoneAssumption
<1>1. TypeOK'
  BY DEF IInv, TypeOK, Arguments, Assemble, tables, callVars, Phase,
     Ledger!Reply
<1>2. Arguments'
  BY DEF IInv, TypeOK, Arguments, Assemble, tables, callVars
<1>3. EventLocked'
  BY DEF IInv, TypeOK, Arguments, Assemble, tables, callVars, EventLocked,
     HoldsEvent
<1>4. CardLocked'
  BY DEF IInv, TypeOK, Arguments, Assemble, tables, callVars, CardLocked,
     CardHeld, HoldsCard
<1>5. CardHeld'
  BY DEF IInv, TypeOK, Arguments, Assemble, tables, callVars, CardHeld,
     CardLocked, HoldsCard
<1>6. DrawKnown'
  BY DEF IInv, TypeOK, Arguments, Assemble, tables, callVars, DrawKnown,
     EventLocked, HoldsEvent, CardHeld
<1>7. RoomReserved'
  BY DEF IInv, TypeOK, Arguments, Assemble, tables, callVars, RoomReserved,
     CardHeld, CardLocked, HoldsCard, DrawKnown, Ledger!Room
<1>8. BatchReady'
  BY DEF IInv, TypeOK, Arguments, Assemble, tables, callVars, BatchReady,
     Assembled
<1>9. BatchComplete'
  BY DEF IInv, TypeOK, Arguments, Assemble, tables, callVars, BatchComplete,
     BatchReady, Assembled
<1>10. QueuedWithFinalDraw'
  BY DEF IInv, TypeOK, Arguments, Assemble, tables, callVars,
     QueuedWithFinalDraw, DrawKnown
<1> QED
  BY <1>1, <1>2, <1>3, <1>4, <1>5, <1>6, <1>7, <1>8, <1>9, <1>10 DEF IInv

(* A commit records a draw that nobody else has locked, in a room nobody   *)
(* else holds.                                                             *)
LEMMA CommitInductive ==
    ASSUME NEW t \in Session, IInv,
           Commit(t)
    PROVE  IInv'
<1> USE DrawsAssumption, LimitAssumption, NoneAssumption
<1>1. TypeOK'
  BY DEF IInv, TypeOK, Arguments, Commit, End, tables, callVars, Phase,
     Ledger!Reply
<1>2. Arguments'
  BY DEF IInv, TypeOK, Arguments, Commit, End, tables, callVars
<1>3. EventLocked'
  BY DEF IInv, TypeOK, Arguments, Commit, End, tables, callVars, EventLocked,
     HoldsEvent
<1>4. CardLocked'
  BY DEF IInv, TypeOK, Arguments, Commit, End, tables, callVars, CardLocked,
     CardHeld, HoldsCard
<1>5. CardHeld'
  BY DEF IInv, TypeOK, Arguments, Commit, End, tables, callVars, CardHeld,
     CardLocked, HoldsCard
<1>6. DrawKnown'
  <2> SUFFICES ASSUME NEW u \in Session
               PROVE  /\ (phase[u] \in {"card", "count", "insert", "limited"} \/ fresh[u])'
                           => (history[batch[u]][draw[u]] = None)'
                      /\ (phase[u] \in {"assemble", "commit"} /\ ~fresh[u])'
                           => (history[batch[u]][draw[u]] # None)'
                      /\ fresh'[u] => phase'[u] \in {"assemble", "commit"}
    BY DEF DrawKnown
  <2>1. CASE u = t
    BY <2>1 DEF Commit, End, IInv, TypeOK
  <2>2. CASE u # t /\ phase[u] = "idle"
    BY <2>2 DEF Commit, End, IInv, TypeOK, DrawKnown
  <2>3. CASE u # t /\ phase[u] = "lock"
    BY <2>3 DEF Commit, End, IInv, TypeOK, DrawKnown
  <2>4. CASE u # t /\ HoldsEvent(u)
    <3>1. /\ phase'[u] = phase[u] /\ fresh'[u] = fresh[u]
          /\ batch'[u] = batch[u] /\ draw'[u] = draw[u]
      BY <2>4 DEF Commit, End, IInv, TypeOK
    <3>2. ~(batch[u] = batch[t] /\ draw[u] = draw[t])
      BY <2>4 DEF Commit, IInv, EventLocked, HoldsEvent
    <3>3. /\ batch[t] \in Event /\ draw[t] \in 1..MaxDraws /\ card[t] \in Card
          /\ batch[u] \in Event /\ draw[u] \in 1..MaxDraws
      BY <2>4 DEF Commit, HoldsEvent, IInv, Arguments
    <3>4. history'[batch[u]][draw[u]] = history[batch[u]][draw[u]]
      BY <3>2, <3>3 DEF Commit, IInv, TypeOK
    <3> QED
      BY <3>1, <3>4 DEF IInv, DrawKnown
  <2> QED
    BY <2>1, <2>2, <2>3, <2>4 DEF HoldsEvent
<1>7. RoomReserved'
  BY DEF IInv, TypeOK, Arguments, Commit, End, tables, callVars,
     RoomReserved, CardHeld, CardLocked, HoldsCard, DrawKnown, Ledger!Room
<1>8. BatchReady'
  BY DEF IInv, TypeOK, Arguments, Commit, End, tables, callVars, BatchReady,
     Assembled
<1>9. BatchComplete'
  BY DEF IInv, TypeOK, Arguments, Commit, End, tables, callVars,
     BatchComplete, BatchReady, Assembled
<1>10. QueuedWithFinalDraw'
  BY DEF IInv, TypeOK, Arguments, Commit, End, tables, callVars,
     QueuedWithFinalDraw, DrawKnown
<1> QED
  BY <1>1, <1>2, <1>3, <1>4, <1>5, <1>6, <1>7, <1>8, <1>9, <1>10 DEF IInv

(* A call that ends without writing only gives its locks back.             *)
LEMMA EndsInductive ==
    ASSUME NEW t \in Session, NEW a \in Ledger!Reply, IInv,
           End(t, a), UNCHANGED tables
    PROVE  IInv'
<1> USE DrawsAssumption, LimitAssumption, NoneAssumption
<1>1. TypeOK'
  BY DEF IInv, TypeOK, Arguments, End, tables, callVars, Phase, Ledger!Reply
<1>2. Arguments'
  BY DEF IInv, TypeOK, Arguments, End, tables, callVars
<1>3. EventLocked'
  BY DEF IInv, TypeOK, Arguments, End, tables, callVars, EventLocked,
     HoldsEvent
<1>4. CardLocked'
  BY DEF IInv, TypeOK, Arguments, End, tables, callVars, CardLocked,
     CardHeld, HoldsCard
<1>5. CardHeld'
  BY DEF IInv, TypeOK, Arguments, End, tables, callVars, CardHeld,
     CardLocked, HoldsCard
<1>6. DrawKnown'
  BY DEF IInv, TypeOK, Arguments, End, tables, callVars, DrawKnown,
     EventLocked, HoldsEvent, CardHeld
<1>7. RoomReserved'
  BY DEF IInv, TypeOK, Arguments, End, tables, callVars, RoomReserved,
     CardHeld, CardLocked, HoldsCard, DrawKnown, Ledger!Room
<1>8. BatchReady'
  BY DEF IInv, TypeOK, Arguments, End, tables, callVars, BatchReady,
     Assembled
<1>9. BatchComplete'
  BY DEF IInv, TypeOK, Arguments, End, tables, callVars, BatchComplete,
     BatchReady, Assembled
<1>10. QueuedWithFinalDraw'
  BY DEF IInv, TypeOK, Arguments, End, tables, callVars, QueuedWithFinalDraw,
     DrawKnown
<1> QED
  BY <1>1, <1>2, <1>3, <1>4, <1>5, <1>6, <1>7, <1>8, <1>9, <1>10 DEF IInv

(* An edit waits for the row lock, so no holder's card changes.            *)
LEMMA EditCardInductive ==
    ASSUME NEW c \in Card, NEW n \in Limits, NEW on \in BOOLEAN, IInv,
           EditCard(c, n, on)
    PROVE  IInv'
<1> USE DrawsAssumption, LimitAssumption, NoneAssumption
<1>1. TypeOK'
  BY DEF IInv, TypeOK, Arguments, EditCard, CardFree, tables, callVars,
     Phase, Ledger!Reply
<1>2. Arguments'
  BY DEF IInv, TypeOK, Arguments, EditCard, CardFree, tables, callVars
<1>3. EventLocked'
  BY DEF IInv, TypeOK, Arguments, EditCard, CardFree, tables, callVars,
     EventLocked, HoldsEvent
<1>4. CardLocked'
  BY DEF IInv, TypeOK, Arguments, EditCard, CardFree, tables, callVars,
     CardLocked, CardHeld, HoldsCard
<1>5. CardHeld'
  BY DEF IInv, TypeOK, Arguments, EditCard, CardFree, tables, callVars,
     CardHeld, CardLocked, HoldsCard
<1>6. DrawKnown'
  BY DEF IInv, TypeOK, Arguments, EditCard, CardFree, tables, callVars,
     DrawKnown, EventLocked, HoldsEvent, CardHeld
<1>7. RoomReserved'
  BY DEF IInv, TypeOK, Arguments, EditCard, CardFree, tables, callVars,
     RoomReserved, CardHeld, CardLocked, HoldsCard, DrawKnown, Ledger!Room
<1>8. BatchReady'
  BY DEF IInv, TypeOK, Arguments, EditCard, CardFree, tables, callVars,
     BatchReady, Assembled
<1>9. BatchComplete'
  BY DEF IInv, TypeOK, Arguments, EditCard, CardFree, tables, callVars,
     BatchComplete, BatchReady, Assembled
<1>10. QueuedWithFinalDraw'
  BY DEF IInv, TypeOK, Arguments, EditCard, CardFree, tables, callVars,
     QueuedWithFinalDraw, DrawKnown
<1> QED
  BY <1>1, <1>2, <1>3, <1>4, <1>5, <1>6, <1>7, <1>8, <1>9, <1>10 DEF IInv
(* The invariant holds initially.                                          *)
LEMMA InitIInv == Init => IInv
<1> SUFFICES ASSUME Init PROVE IInv
  OBVIOUS
<1> USE DrawsAssumption, LimitAssumption, NoneAssumption
<1>1. TypeOK
  BY DEF Init, TypeOK, Phase, Ledger!Reply
<1>2. Arguments /\ EventLocked /\ CardLocked /\ CardHeld
  BY DEF Init, Arguments, EventLocked, CardLocked, CardHeld, HoldsEvent, HoldsCard
<1>3. DrawKnown /\ RoomReserved /\ BatchReady
  BY DEF Init, DrawKnown, RoomReserved, BatchReady
<1>4. BatchComplete /\ QueuedWithFinalDraw
  BY DEF Init, BatchComplete, QueuedWithFinalDraw
<1> QED
  BY <1>1, <1>2, <1>3, <1>4 DEF IInv

(* Every step of a session and of the streamer preserves it.               *)
LEMMA NextIInv == IInv /\ [Next]_vars => IInv'
<1> SUFFICES ASSUME IInv, [Next]_vars PROVE IInv'
  OBVIOUS
<1>1. ASSUME NEW t \in Session, Run(t) \/ Abort(t) PROVE IInv'
  <2>1. CASE CommitLimited(t) \/ RaiseIncomplete(t) \/ Abort(t)
    BY <2>1, EndsInductive DEF CommitLimited, RaiseIncomplete, Abort, Ledger!Reply
  <2> QED
    BY <1>1, <2>1, LockInductive, CheckDuplicateInductive, LockCardInductive,
       CountInductive, InsertInductive, AssembleInductive, CommitInductive
    DEF Run
<1>2. CASE UNCHANGED vars
  BY <1>2 DEF vars, IInv, TypeOK, Arguments, EventLocked, CardLocked, CardHeld,
     DrawKnown, RoomReserved, BatchReady, BatchComplete, QueuedWithFinalDraw,
     HoldsEvent, HoldsCard, Assembled, Ledger!Room
<1> QED
  BY <1>1, <1>2, BeginInductive, EditCardInductive DEF Next

(* Every reachable state satisfies the invariant.                          *)
THEOREM Invariance == Spec => []IInv
BY InitIInv, NextIInv, PTL DEF Spec

(* Types; "limit" only for draws nobody has been granted; a final draw     *)
(* means the whole batch; the notification is queued with the final draw.  *)
THEOREM StateInvariants ==
    Spec => [](TypeOK /\ LimitOnlyUngranted /\ BatchComplete /\ QueuedWithFinalDraw)
<1>1. IInv => TypeOK /\ LimitOnlyUngranted /\ BatchComplete /\ QueuedWithFinalDraw
  BY DEF IInv, DrawKnown, LimitOnlyUngranted
<1> QED
  BY <1>1, Invariance, PTL

(* Only a commit that has inserted the draw changes history and copies,    *)
(* and what it commits is Grant.                                           *)
LEMMA WhoGrants ==
    ASSUME IInv, [Next]_vars
    PROVE  \/ UNCHANGED <<history, copies>>
           \/ \E t \in Session : fresh[t] /\ Commit(t)
<1>1. ASSUME NEW t \in Session, Commit(t), ~fresh[t]
      PROVE  UNCHANGED <<history, copies>>
  BY <1>1 DEF Commit
<1>2. ASSUME NEW t \in Session, Run(t) \/ Abort(t), ~Commit(t)
      PROVE  UNCHANGED <<history, copies>>
  BY <1>2 DEF Run, Lock, CheckDuplicate, LockCard, Count, Insert, Assemble,
     RaiseIncomplete, CommitLimited, Abort, tables
<1>3. CASE UNCHANGED vars
  BY <1>3 DEF vars
<1> QED
  BY <1>1, <1>2, <1>3 DEF Next, Begin, EditCard, tables

(* What a commit writes.                                                   *)
LEMMA CommitGrants ==
    ASSUME IInv, NEW t \in Session, Commit(t), fresh[t]
    PROVE  /\ batch[t] \in Event /\ draw[t] \in 1..Draws[batch[t]] /\ card[t] \in Card
           /\ history[batch[t]][draw[t]] = None
           /\ Ledger!Room(card[t])
           /\ Assembled(batch[t], draw[t])
           /\ history' = [history EXCEPT ![batch[t]] = [@ EXCEPT ![draw[t]] = card[t]]]
           /\ copies' = [copies EXCEPT ![card[t]] = @ + 1]
BY DEF IInv, Arguments, DrawKnown, RoomReserved, BatchReady, Commit

(* No commit issues a copy beyond the limit of the card at that moment.    *)
THEOREM CapRespectedHolds == Spec => CapRespected
<1>1. ASSUME IInv, [Next]_vars
      PROVE  \A c \in Card : copies'[c] > copies[c]
               => c \in active /\ (limit[c] = Unlimited \/ copies'[c] <= limit[c])
  <2> SUFFICES ASSUME NEW c \in Card, copies'[c] > copies[c]
               PROVE  c \in active /\ (limit[c] = Unlimited \/ copies'[c] <= limit[c])
    OBVIOUS
  <2>1. copies \in [Card -> Nat] /\ limit[c] \in Nat \cup {Unlimited}
    BY <1>1, LimitAssumption DEF IInv, TypeOK
  <2>2. PICK t \in Session : fresh[t] /\ Commit(t)
    BY <1>1, <2>1, WhoGrants
  <2>3. c = card[t] /\ copies'[c] = copies[c] + 1
    <3>1. card[t] \in Card /\ copies' = [copies EXCEPT ![card[t]] = @ + 1]
      BY <1>1, <2>2, CommitGrants
    <3>2. copies[c] \in Nat
      BY <2>1
    <3> QED
      BY <2>1, <3>1, <3>2
  <2>4. Ledger!Room(c)
    BY <1>1, <2>2, <2>3, CommitGrants
  <2> QED
    BY <2>1, <2>3, <2>4 DEF Ledger!Room
<1> QED
  BY <1>1, Invariance, PTL DEF Spec, CapRespected

(* A draw is granted once, with one copy of its card.                      *)
THEOREM GrantedOnceHolds == Spec => GrantedOnce
<1>1. ASSUME IInv, [Next]_vars
      PROVE  /\ \A e \in Event, i \in 1..MaxDraws :
                   history'[e][i] # history[e][i] =>
                     /\ history[e][i] = None
                     /\ copies' = [copies EXCEPT ![history'[e][i]] = @ + 1]
             /\ history' = history => copies' = copies
  <2>1. ASSUME NEW t \in Session, fresh[t], Commit(t),
               NEW e \in Event, NEW i \in 1..MaxDraws,
               history'[e][i] # history[e][i]
        PROVE  /\ history[e][i] = None
               /\ copies' = [copies EXCEPT ![history'[e][i]] = @ + 1]
    <3>1. /\ batch[t] \in Event /\ draw[t] \in 1..Draws[batch[t]]
          /\ history[batch[t]][draw[t]] = None
          /\ history' = [history EXCEPT ![batch[t]] = [@ EXCEPT ![draw[t]] = card[t]]]
          /\ copies' = [copies EXCEPT ![card[t]] = @ + 1]
      BY <1>1, <2>1, CommitGrants
    <3>2. history \in [Event -> [1..MaxDraws -> Card \cup {None}]]
      BY <1>1 DEF IInv, TypeOK
    <3>3. e = batch[t] /\ i = draw[t] /\ history'[e][i] = card[t]
      BY <2>1, <3>1, <3>2
    <3> QED
      BY <3>1, <3>3
  <2>2. ASSUME NEW t \in Session, fresh[t], Commit(t)
        PROVE  history' # history
    <3>1. /\ batch[t] \in Event /\ draw[t] \in 1..Draws[batch[t]] /\ card[t] \in Card
          /\ history[batch[t]][draw[t]] = None
          /\ history' = [history EXCEPT ![batch[t]] = [@ EXCEPT ![draw[t]] = card[t]]]
      BY <1>1, <2>2, CommitGrants
    <3>2. /\ history \in [Event -> [1..MaxDraws -> Card \cup {None}]]
          /\ draw[t] \in 1..MaxDraws /\ card[t] # None
      BY <1>1, <3>1, DrawsAssumption, NoneAssumption DEF IInv, TypeOK
    <3>3. history'[batch[t]][draw[t]] # history[batch[t]][draw[t]]
      BY <3>1, <3>2
    <3> QED
      BY <3>3
  <2> QED
    BY <1>1, <2>1, <2>2, WhoGrants
<1> QED
  BY <1>1, Invariance, PTL DEF Spec, GrantedOnce

-----------------------------------------------------------------------------
(* The refinement of GachaLedger                                           *)

(* Initial states map to initial states.                                   *)
LEMMA LedgerInitially == Init => Ledger!LedgerInit
BY DEF Init, Answer, Ledger!LedgerInit

(* A step that writes nothing and leaves the answers alone, or takes one   *)
(* back, is a stutter or Lose.                                             *)
LEMMA LedgerLoses ==
    ASSUME NEW t \in Session, UNCHANGED tables,
           \A u \in Session : u # t => Answer(u)' = Answer(u),
           Answer(t)' \in {"none", Answer(t)}
    PROVE  [Ledger!LedgerNext]_(Ledger!ledgerVars)
<1>1. CASE Answer(t)' = Answer(t)
  BY <1>1 DEF Ledger!ledgerVars, tables
<1>2. CASE Answer(t)' = "none"
  <2>1. Ledger!Lose(t)
    BY <1>2 DEF Ledger!Lose, Ledger!tables, tables
  <2> QED
    BY <2>1 DEF Ledger!LedgerNext
<1> QED
  BY <1>1, <1>2

(* The statement that finds the card inactive or its limit used up is      *)
(* LimitReached.                                                           *)
LEMMA LedgerLimits ==
    ASSUME NEW t \in Session, IInv, LockCard(t) \/ Count(t), phase'[t] = "limited"
    PROVE  Ledger!LedgerNext
<1>1. /\ batch[t] \in Event /\ draw[t] \in 1..Draws[batch[t]] /\ card[t] \in Card
      /\ history[batch[t]][draw[t]] = None
  BY DEF IInv, Arguments, DrawKnown, LockCard, Count
<1>2. ~Ledger!Room(card[t])
  <2>1. CASE LockCard(t)
    BY <2>1 DEF LockCard, IInv, TypeOK, Ledger!Room
  <2>2. CASE Count(t)
    <3>1. cap[t] # Unlimited /\ copies[card[t]] >= cap[t] /\ cap[t] = limit[card[t]]
      BY <2>2 DEF Count, IInv, TypeOK, CardHeld
    <3>2. copies[card[t]] \in Nat /\ limit[card[t]] \in Nat
      BY <1>1, <3>1, LimitAssumption DEF IInv, TypeOK
    <3> QED
      BY <3>1, <3>2 DEF Ledger!Room
  <2> QED
    BY <2>1, <2>2
<1>3. /\ UNCHANGED tables
      /\ [u \in Session |-> Answer(u)]' = [[u \in Session |-> Answer(u)] EXCEPT ![t] = "limit"]
  BY DEF LockCard, Count, Answer, IInv, TypeOK, tables
<1>4. Ledger!LimitReached(t, batch[t], draw[t], card[t])
  BY <1>1, <1>2, <1>3 DEF Ledger!LimitReached, Ledger!tables, tables
<1> QED
  BY <1>1, <1>4 DEF Ledger!LedgerNext, Ledger!Call

(* A COMMIT is Grant or Duplicate.                                         *)
LEMMA LedgerCommits ==
    ASSUME NEW t \in Session, IInv, Commit(t)
    PROVE  Ledger!LedgerNext
<1>1. batch[t] \in Event /\ draw[t] \in 1..Draws[batch[t]] /\ card[t] \in Card
  BY DEF IInv, Arguments, Commit
<1>2. /\ UNCHANGED <<limit, active>>
      /\ outbox' = Ledger!Queued(batch[t], draw[t])
      /\ Ledger!Assembled(batch[t], draw[t])
  BY DEF Commit, Ledger!Queued, Ledger!Assembled, IInv, BatchReady, Assembled
<1>3. [u \in Session |-> Answer(u)]'
        = [[u \in Session |-> Answer(u)]
             EXCEPT ![t] = IF fresh[t] THEN "granted" ELSE "duplicate"]
  BY DEF Commit, End, Answer, IInv, TypeOK
<1>4. CASE fresh[t]
  <2>1. Ledger!Grant(t, batch[t], draw[t], card[t])
    BY <1>2, <1>3, <1>4, CommitGrants DEF Ledger!Grant
  <2> QED
    BY <1>1, <2>1 DEF Ledger!LedgerNext, Ledger!Call
<1>5. CASE ~fresh[t]
  <2>1. Ledger!Duplicate(t, batch[t], draw[t])
    BY <1>2, <1>3, <1>5 DEF Ledger!Duplicate, Commit, IInv, DrawKnown
  <2> QED
    BY <1>1, <2>1 DEF Ledger!LedgerNext, Ledger!Call
<1> QED
  BY <1>4, <1>5

(* Every step is a step of the ledger or a stutter.                        *)
LEMMA LedgerSteps == IInv /\ [Next]_vars => [Ledger!LedgerNext]_(Ledger!ledgerVars)
<1> SUFFICES ASSUME IInv, [Next]_vars
             PROVE  [Ledger!LedgerNext]_(Ledger!ledgerVars)
  OBVIOUS
<1>1. ASSUME NEW t \in Session, NEW e \in Event, NEW i \in 1..Draws[e],
             NEW c \in Card, Begin(t, e, i, c)
      PROVE  [Ledger!LedgerNext]_(Ledger!ledgerVars)
  BY <1>1, LedgerLoses DEF Begin, Answer, IInv, TypeOK
<1>2. ASSUME NEW t \in Session, LockCard(t) \/ Count(t), phase'[t] # "limited"
      PROVE  [Ledger!LedgerNext]_(Ledger!ledgerVars)
  BY <1>2, LedgerLoses DEF LockCard, Count, Answer, IInv, TypeOK, tables
<1>3. ASSUME NEW t \in Session,
             Lock(t) \/ CheckDuplicate(t) \/ Insert(t) \/ Assemble(t)
      PROVE  [Ledger!LedgerNext]_(Ledger!ledgerVars)
  BY <1>3, LedgerLoses
  DEF Lock, CheckDuplicate, Insert, Assemble, Answer, IInv, TypeOK, tables
<1>4. ASSUME NEW t \in Session, NEW a \in {"none", "limit"}, End(t, a),
             UNCHANGED tables, phase[t] = "limited" \/ a = "none"
      PROVE  [Ledger!LedgerNext]_(Ledger!ledgerVars)
  BY <1>4, LedgerLoses DEF End, Answer, IInv, TypeOK
<1>5. ASSUME NEW c \in Card, NEW n \in Limits, NEW on \in BOOLEAN, EditCard(c, n, on)
      PROVE  Ledger!LedgerNext
  <2>1. Ledger!EditCard(c, n, on)
    BY <1>5 DEF EditCard, Answer, Ledger!EditCard
  <2> QED
    BY <2>1 DEF Ledger!LedgerNext
<1>6. CASE UNCHANGED vars
  BY <1>6 DEF vars, Answer, Ledger!ledgerVars
<1>7. ASSUME NEW t \in Session, Run(t) \/ Abort(t)
      PROVE  [Ledger!LedgerNext]_(Ledger!ledgerVars)
  <2>1. CASE CommitLimited(t) \/ RaiseIncomplete(t) \/ Abort(t)
    BY <2>1, <1>4 DEF CommitLimited, RaiseIncomplete, Abort
  <2> QED
    BY <1>2, <1>3, <1>7, <2>1, LedgerLimits, LedgerCommits DEF Run
<1> QED
  BY <1>1, <1>5, <1>6, <1>7 DEF Next

(* The statements and locks of the concurrent transactions implement the   *)
(* atomic ledger that the callers rely on.                                 *)
THEOREM LedgerRefinement == Spec => ImplementsLedger
BY LedgerInitially, LedgerSteps, Invariance, PTL
DEF Spec, ImplementsLedger, Ledger!LedgerSpec

(*****************************************************************************)
(* RewardSetup.  What a step does to the rewards, the subscriptions, the     *)
(* pages (view) and their requests (work).                                   *)
(*****************************************************************************)
NoReward == Setup!NoReward
Raid == Setup!Raid

\* none and raid are no rewards.
Rewards == NoReward \notin Reward /\ Raid \notin Reward

\* The stages of each operation.
Allowed(op, at) ==
    \/ op = "save" /\ at \in {"unlist", "undrop", "settings", "list", "drop", "raid",
                              "recheck", "clean", "told", "look", "failed", "refused"}
    \/ op = "add" /\ at \in {"list", "drop", "raid", "recheck", "clean", "told", "insert",
                             "rewards", "look", "failed", "refused"}
    \/ op = "remove" /\ at \in {"unlist", "undrop", "row", "rewards", "look", "refused"}
    \/ op = "disconnect" /\ at \in {"unlist", "undrop", "rows", "settings", "cleared",
                                    "refused"}

IsSub(s) == s \in [id : {s.id}, on : Reward \cup {Raid}, is : {s.is}]
IsView(v) == v \in [picked : Reward \cup {NoReward}, saved : {v.saved}, extra : SUBSET Reward,
                    seen : {v.seen}, status : {v.status}]
IsWork(w) ==
    /\ w \in [at : {w.at}, op : {w.op}, r : {w.r}, todo : {w.todo}, raids : {w.raids}]
    /\ w.at # "idle" => /\ Allowed(w.op, w.at)
                        /\ w.op = "disconnect" => w.r = NoReward
                        /\ w.op # "disconnect" => w.r \in Reward

SubsHold(S) == /\ \A s \in S : IsSub(s)
               /\ \A s, t \in S : s.on = t.on => s = t
ViewsHold(V) == V = [p \in Page |-> V[p]] /\ \A p \in Page : IsView(V[p])
WorkHolds(W) == W = [p \in Page |-> W[p]] /\ \A p \in Page : IsWork(W[p])
PlacesHold(m, x) == m \in Reward \cup {NoReward} /\ x \subseteq Reward

SetupTypes == /\ PlacesHold(main, extra) /\ SubsHold(subs) /\ ViewsHold(view)
              /\ WorkHolds(work) /\ trouble \in Nat
TypesKeep == /\ PlacesHold(main', extra') /\ SubsHold(subs') /\ ViewsHold(view')
             /\ WorkHolds(work') /\ trouble' \in Nat

Well == trouble' = trouble /\ (smooth' <=> smooth) /\ last' = last
Ill == trouble' = trouble + 1 /\ ~smooth' /\ last'.op = NoReward

OthersWork(p) == \A q \in Page : q # p => work'[q] = work[q]
OthersView(p) == \A q \in Page : q # p => view'[q] = view[q]

\* p goes on to another stage of its operation.
Turn(p, at, T, R) ==
    /\ work'[p].at = at /\ work'[p].op = work[p].op /\ work'[p].r = work[p].r
    /\ work'[p].todo = T /\ work'[p].raids = R /\ OthersWork(p)

LEMMA SetupFine == Setup!Fine => Well
BY DEF Setup!Fine, Well

LEMMA SetupFails == SetupTypes /\ Setup!Fails => Ill /\ trouble' \in Nat
<1>1. Setup!Fails => Ill
  BY DEF Setup!Fails, Ill, Setup!Ended, NoReward
<1>2. SetupTypes /\ Ill => trouble' \in Nat
  BY DEF SetupTypes, Ill
<1> QED
  BY <1>1, <1>2

\* A request is replaced by another one.
LEMMA WorkChanges ==
    ASSUME SetupTypes, NEW p \in Page, NEW y, IsWork(y), work' = [work EXCEPT ![p] = y]
    PROVE  WorkHolds(work') /\ work'[p] = y /\ OthersWork(p)
<1>1. work'[p] = y /\ OthersWork(p) /\ work' = [q \in Page |-> work'[q]]
  BY DEF SetupTypes, WorkHolds, OthersWork
<1>2. ASSUME NEW q \in Page PROVE IsWork(work'[q])
  <2>1. CASE q = p
    BY <1>1, <2>1
  <2>2. CASE q # p
    BY <1>1, <2>2 DEF SetupTypes, WorkHolds, OthersWork
  <2> QED
    BY <2>1, <2>2
<1> QED
  BY <1>1, <1>2 DEF WorkHolds

LEMMA ViewChanges ==
    ASSUME SetupTypes, NEW p \in Page, NEW y, IsView(y), view' = [view EXCEPT ![p] = y]
    PROVE  ViewsHold(view') /\ view'[p] = y /\ OthersView(p)
<1>1. view'[p] = y /\ OthersView(p) /\ view' = [q \in Page |-> view'[q]]
  BY DEF SetupTypes, ViewsHold, OthersView
<1>2. ASSUME NEW q \in Page PROVE IsView(view'[q])
  <2>1. CASE q = p
    BY <1>1, <2>1
  <2>2. CASE q # p
    BY <1>1, <2>2 DEF SetupTypes, ViewsHold, OthersView
  <2> QED
    BY <2>1, <2>2
<1> QED
  BY <1>1, <1>2 DEF ViewsHold

\* A step of a request sets its stage, what it has to delete, what it knows.
LEMMA GoesOn ==
    ASSUME SetupTypes, NEW p \in Page, work[p].at # "idle", NEW at, NEW T, NEW R,
           Allowed(work[p].op, at),
           \/ work' = [work EXCEPT ![p].at = at, ![p].todo = T] /\ R = work[p].raids
           \/ work' = [work EXCEPT ![p].at = at, ![p].raids = R, ![p].todo = T]
    PROVE  WorkHolds(work') /\ Turn(p, at, T, R)
<1>1. IsWork(work[p]) /\ work = [q \in Page |-> work[q]]
  BY DEF SetupTypes, WorkHolds
<1>2. PICK y : y = [work[p] EXCEPT !.at = at, !.raids = R, !.todo = T]
  OBVIOUS
<1>3. /\ y.at = at /\ y.op = work[p].op /\ y.r = work[p].r /\ y.todo = T /\ y.raids = R
      /\ y \in [at : {y.at}, op : {y.op}, r : {y.r}, todo : {y.todo}, raids : {y.raids}]
  BY <1>1, <1>2 DEF IsWork
<1>4. work' = [work EXCEPT ![p] = y]
  <2>1. CASE work' = [work EXCEPT ![p].at = at, ![p].raids = R, ![p].todo = T]
    BY <1>1, <1>2, <2>1
  <2>2. CASE work' = [work EXCEPT ![p].at = at, ![p].todo = T] /\ R = work[p].raids
    <3>1. y = [work[p] EXCEPT !.at = at, !.todo = T]
      BY <1>1, <1>2, <2>2 DEF IsWork
    <3> QED
      BY <1>1, <3>1, <2>2
  <2> QED
    BY <2>1, <2>2
<1>5. IsWork(y)
  BY <1>1, <1>3 DEF IsWork
<1> QED
  BY <1>3, <1>4, <1>5, WorkChanges DEF Turn, OthersWork

(* The steps, one by one.                                                  *)
Rest == main' = main /\ extra' = extra /\ view' = view
Adds(t) == /\ \A s \in subs : s.on # t
           /\ \E x : IsSub(x) /\ x.on = t /\ x.is = "pending" /\ subs' = subs \cup {x}
Done(p) == \/ smooth /\ last'.op = work[p].op /\ last'.r = work[p].r
           \/ ~smooth /\ last'.op = NoReward
Ends(p) == work'[p].at = "idle" /\ OthersWork(p) /\ trouble' = trouble /\ (smooth' <=> smooth)

Marking ==
    /\ Rest /\ work' = work
    /\ \E s \in subs : \E x :
         /\ IsSub(x) /\ x.id = s.id /\ x.on = s.on
         /\ subs' = (subs \ {s}) \cup {x}
         /\ (x.is = "enabled" /\ Well) \/ Ill

Viewing(p) ==
    /\ work[p].at = "idle" /\ main' = main /\ extra' = extra /\ subs' = subs /\ work' = work
    /\ Well /\ OthersView(p)
    /\ \/ /\ view'[p].saved = view[p].saved /\ view'[p].extra = view[p].extra
          /\ view'[p].seen = view[p].seen /\ view'[p].status = view[p].status
       \/ /\ view'[p].saved = main
          /\ p \notin Compact => /\ view'[p].extra = extra
                                 /\ view'[p].seen = {s.on : s \in subs}
                                 /\ view'[p].status = Setup!Status(subs, main)

Begins(p, op, r, at) ==
    /\ work[p].at = "idle" /\ Rest /\ subs' = subs
    /\ trouble' = trouble /\ (smooth' <=> Setup!Quiet) /\ last'.op = NoReward
    /\ work'[p].at = at /\ work'[p].op = op /\ work'[p].r = r /\ OthersWork(p)

Beginning(p) ==
    \/ /\ view[p].picked \in Reward /\ view[p].picked \notin view[p].extra
       /\ \/ /\ Begins(p, "save", view[p].picked, "unlist")
             /\ view[p].saved \notin {NoReward, view[p].picked}
          \/ /\ Begins(p, "save", view[p].picked, "settings")
             /\ \/ view[p].saved \in {NoReward, view[p].picked}
                \/ view[p].saved \notin view[p].seen
    \/ \E r \in Reward \ view[p].extra :
         view[p].status = "active" /\ Begins(p, "add", r, "list")
    \/ \E r \in view[p].extra :
         view[p].status = "active" /\ Begins(p, "remove", r, "unlist")
    \/ Begins(p, "disconnect", NoReward, "unlist")

\* A call that fails, and what only follows on failures.
Strays(p) ==
    /\ OthersWork(p)
    /\ \/ Ill
       \/ /\ work[p].at \in {"recheck", "clean", "failed"} /\ trouble' = trouble
          /\ (smooth' <=> smooth) /\ (last' = last \/ last'.op = NoReward)

Unlisting(p) ==
    /\ work[p].at = "unlist" /\ Rest /\ subs' = subs
    /\ Turn(p, "undrop", {s \in subs : s.on \in Setup!Target(p)}, work[p].raids)

Dropping(p) ==
    /\ work[p].at \in {"undrop", "drop", "clean", "raid"} /\ Rest
    /\ \E s \in work[p].todo :
         /\ Turn(p, work[p].at, work[p].todo \ {s}, work[p].raids)
         /\ subs' = {t \in subs : ~(t.on = s.on /\ t.id = s.id)}

Unlisted(p) ==
    /\ work[p].at = "undrop" /\ work[p].todo = {} /\ Rest /\ subs' = subs
    /\ \/ work[p].op = "save" /\ Turn(p, "settings", {}, work[p].raids)
       \/ work[p].op = "remove" /\ Turn(p, "row", {}, work[p].raids)
       \/ work[p].op = "disconnect" /\ Turn(p, "rows", {}, work[p].raids)

Listing(p) ==
    /\ work[p].at = "list" /\ Rest /\ subs' = subs
    /\ Turn(p, "drop", {s \in subs : s.on = work[p].r}, {s \in subs : s.on = Raid})

Creating(p) ==
    /\ work[p].at = "drop" /\ work[p].todo = {} /\ Rest
    /\ \/ /\ Adds(work[p].r)
          /\ Turn(p, "raid", {s \in work[p].raids : s.is = "failed"}, work[p].raids)
       \/ /\ \E s \in subs : s.on = work[p].r
          /\ subs' = subs /\ Turn(p, "recheck", {}, work[p].raids)

Ensuring(p) ==
    /\ work[p].at = "raid" /\ work[p].todo = {} /\ Rest /\ Turn(p, "told", {}, work[p].raids)
    /\ \/ (\E s \in work[p].raids : s.is # "failed") /\ subs' = subs
       \/ (\A s \in work[p].raids : s.is = "failed") /\ Adds(Raid)
       \/ /\ \A s \in work[p].raids : s.is = "failed"
          /\ \E s \in subs : s.on = Raid
          /\ subs' = subs

Setting(p) ==
    /\ work[p].at = "settings" /\ main' = work[p].r
    /\ extra' = extra /\ view' = view /\ subs' = subs
    /\ \/ work[p].op = "save" /\ Turn(p, "list", {}, work[p].raids)
       \/ work[p].op = "disconnect" /\ Turn(p, "cleared", {}, work[p].raids)

Telling(p) ==
    /\ work[p].at = "told" /\ main' = main /\ extra' = extra /\ subs' = subs
    /\ \/ /\ work[p].op = "save" /\ Turn(p, "look", {}, work[p].raids) /\ OthersView(p)
          /\ view'[p].saved = work[p].r /\ view'[p].extra = view[p].extra
       \/ work[p].op = "add" /\ Turn(p, "insert", {}, work[p].raids) /\ view' = view

Inserting(p) ==
    /\ work[p].at = "insert" /\ main' = main /\ view' = view /\ subs' = subs
    /\ \/ /\ ~Setup!Refusable(p) /\ extra' = extra \cup {work[p].r}
          /\ Turn(p, "rewards", {}, work[p].raids)
       \/ /\ Setup!Refusable(p) /\ extra' = extra
          /\ Turn(p, "refused", {}, work[p].raids)

DeletingRow(p) ==
    /\ work[p].at = "row" /\ main' = main /\ view' = view /\ subs' = subs
    /\ extra' = extra \ {work[p].r} /\ Turn(p, "rewards", {}, work[p].raids)

DeletingRows(p) ==
    /\ work[p].at = "rows" /\ main' = main /\ view' = view /\ subs' = subs
    /\ extra' = {} /\ Turn(p, "settings", {}, work[p].raids)

Fetching(p) ==
    /\ work[p].at = "rewards" /\ main' = main /\ extra' = extra /\ subs' = subs
    /\ Turn(p, "look", {}, work[p].raids) /\ OthersView(p)
    /\ view'[p].extra = extra /\ view'[p].saved = view[p].saved

Refused(p) ==
    /\ work[p].at = "refused" /\ Rest /\ subs' = subs /\ Ends(p) /\ last'.op = NoReward

Clearing(p) ==
    /\ work[p].at = "cleared" /\ main' = main /\ extra' = extra /\ subs' = subs
    /\ Ends(p) /\ Done(p) /\ OthersView(p)
    /\ view'[p].saved = NoReward /\ view'[p].extra = {} /\ view'[p].seen = {}
    /\ view'[p].status = NoReward

Looking(p) ==
    /\ work[p].at = "look" /\ main' = main /\ extra' = extra /\ subs' = subs
    /\ Ends(p) /\ Done(p) /\ OthersView(p)
    /\ view'[p].saved = view[p].saved /\ view'[p].extra = view[p].extra
    /\ view'[p].seen = {s.on : s \in subs}

Working(p) ==
    \/ Unlisting(p) \/ Dropping(p) \/ Unlisted(p) \/ Listing(p) \/ Creating(p)
    \/ Ensuring(p) \/ Setting(p) \/ Telling(p) \/ Inserting(p) \/ DeletingRow(p)
    \/ DeletingRows(p) \/ Fetching(p)

Moves(p) == \/ Strays(p) /\ work[p].at # "idle"
            \/ Viewing(p) \/ Beginning(p) \/ (Working(p) /\ Well)
            \/ Refused(p) \/ Clearing(p) \/ Looking(p)
Stays == /\ Rest /\ subs' = subs /\ work' = work /\ Well

SetupStep == TypesKeep /\ (Stays \/ Marking \/ \E p \in Page : Moves(p))

LEMMA SubTopics == Setup!Topic = Reward \cup {Raid}
BY DEF Setup!Topic, Raid

LEMMA SetupViews ==
    ASSUME SetupTypes, NEW p \in Page, Setup!Pick(p) \/ Setup!Load(p)
    PROVE  TypesKeep /\ Viewing(p)
<1>1. /\ IsView(view[p]) /\ view = [q \in Page |-> view[q]] /\ work[p].at = "idle"
      /\ PlacesHold(main, extra)
  BY DEF SetupTypes, ViewsHold, Setup!Pick, Setup!Load
<1>2. /\ main' = main /\ extra' = extra /\ subs' = subs /\ work' = work /\ Well
      /\ trouble' = trouble
  BY DEF Setup!Pick, Setup!Load, Well
<1>3. CASE Setup!Pick(p)
  <2>1. PICK r \in Reward : view' = [view EXCEPT ![p].picked = r]
    BY <1>3 DEF Setup!Pick
  <2>2. PICK y : y = [view[p] EXCEPT !.picked = r]
    OBVIOUS
  <2>3. /\ y.saved = view[p].saved /\ y.extra = view[p].extra /\ y.seen = view[p].seen
        /\ y.status = view[p].status /\ IsView(y)
    BY <1>1, <2>2 DEF IsView
  <2>4. view' = [view EXCEPT ![p] = y]
    BY <1>1, <2>1, <2>2
  <2>5. ViewsHold(view') /\ view'[p] = y /\ OthersView(p)
    BY <2>3, <2>4, ViewChanges
  <2> QED
    BY <1>1, <1>2, <2>3, <2>5 DEF SetupTypes, TypesKeep, Viewing
<1>4. CASE Setup!Load(p)
  <2>1. PICK y : y = Setup!Shown(p, main, extra, subs)
    OBVIOUS
  <2>2. view' = [view EXCEPT ![p] = y]
    BY <1>4, <2>1 DEF Setup!Load
  <2>3. /\ y.saved = main
        /\ p \notin Compact => /\ y.extra = extra /\ y.seen = {s.on : s \in subs}
                               /\ y.status = Setup!Status(subs, main)
    BY <2>1 DEF Setup!Shown
  <2>4. IsView(y)
    BY <1>1, <2>1 DEF IsView, Setup!Shown, PlacesHold
  <2>5. ViewsHold(view') /\ view'[p] = y /\ OthersView(p)
    BY <2>2, <2>4, ViewChanges
  <2> QED
    BY <1>1, <1>2, <2>3, <2>5 DEF SetupTypes, TypesKeep, Viewing
<1> QED
  BY <1>3, <1>4

LEMMA SetupStarts ==
    ASSUME SetupTypes, NEW p \in Page, NEW op, NEW r, NEW at, Setup!Starts(p, op, r, at),
           Allowed(op, at), op = "disconnect" => r = NoReward, op # "disconnect" => r \in Reward
    PROVE  TypesKeep /\ Begins(p, op, r, at)
<1>1. PICK y : y = [Setup!Idle EXCEPT !.at = at, !.op = op, !.r = r]
  OBVIOUS
<1>2. y.at = at /\ y.op = op /\ y.r = r /\ IsWork(y)
  BY <1>1 DEF Setup!Idle, IsWork
<1>3. work' = [work EXCEPT ![p] = y]
  BY <1>1 DEF Setup!Starts
<1>4. WorkHolds(work') /\ work'[p] = y /\ OthersWork(p)
  BY <1>2, <1>3, WorkChanges
<1>5. /\ main' = main /\ extra' = extra /\ subs' = subs /\ view' = view /\ trouble' = trouble
      /\ work[p].at = "idle"
  BY DEF Setup!Starts
<1>6. (smooth' <=> Setup!Quiet) /\ last'.op = NoReward
  <2>1. smooth' = Setup!Quiet /\ last' = Setup!Ended(NoReward, NoReward)
    BY DEF Setup!Starts, NoReward
  <2>2. smooth' <=> Setup!Quiet
    BY <2>1, Zenon
  <2>3. last'.op = NoReward
    BY <2>1 DEF Setup!Ended
  <2> QED
    BY <2>2, <2>3
<1> QED
  BY <1>2, <1>4, <1>5, <1>6 DEF SetupTypes, TypesKeep, Begins, Rest

LEMMA SetupBegins ==
    ASSUME SetupTypes, NEW p \in Page,
           Setup!Save(p) \/ Setup!Add(p) \/ Setup!Remove(p) \/ Setup!Disconnect(p)
    PROVE  TypesKeep /\ Beginning(p)
<1>1. IsView(view[p])
  BY DEF SetupTypes, ViewsHold
<1>2. CASE Setup!Save(p)
  <2> DEFINE v == view[p]
  <2>1. v.picked \in Reward /\ v.picked \notin v.extra
    BY <1>1, <1>2 DEF IsView, Setup!Save, NoReward
  <2>2. CASE v.saved \notin {NoReward, v.picked} /\ v.saved \in v.seen
    <3>1. Setup!Starts(p, "save", v.picked, "unlist")
      BY <1>2, <2>2 DEF Setup!Save, NoReward
    <3> QED
      BY <2>1, <2>2, <3>1, SetupStarts DEF Allowed, Beginning
  <2>3. CASE ~(v.saved \notin {NoReward, v.picked} /\ v.saved \in v.seen)
    <3>1. Setup!Starts(p, "save", v.picked, "settings")
      BY <1>2, <2>3 DEF Setup!Save, NoReward
    <3> QED
      BY <2>1, <2>3, <3>1, SetupStarts DEF Allowed, Beginning
  <2> QED
    BY <2>2, <2>3
<1>3. CASE Setup!Add(p)
  <2>1. PICK r \in Reward \ view[p].extra :
          Setup!Starts(p, "add", r, "list") /\ view[p].status = "active"
    BY <1>3 DEF Setup!Add
  <2> QED
    BY <2>1, SetupStarts DEF Allowed, Beginning
<1>4. CASE Setup!Remove(p)
  <2>1. PICK r \in view[p].extra :
          Setup!Starts(p, "remove", r, "unlist") /\ view[p].status = "active"
    BY <1>4 DEF Setup!Remove
  <2>2. r \in Reward
    BY <1>1, <2>1 DEF IsView
  <2> QED
    BY <2>1, <2>2, SetupStarts DEF Allowed, Beginning
<1>5. CASE Setup!Disconnect(p)
  <2>1. Setup!Starts(p, "disconnect", NoReward, "unlist")
    BY <1>5 DEF Setup!Disconnect, NoReward
  <2> QED
    BY <2>1, SetupStarts DEF Allowed, Beginning
<1> QED
  BY <1>2, <1>3, <1>4, <1>5

LEMMA SetupUnlists ==
    ASSUME SetupTypes, NEW p \in Page, Setup!UnsubList(p)
    PROVE  TypesKeep /\ (Strays(p) \/ (Working(p) /\ Well))
<1>0. work[p].at = "unlist" /\ Rest /\ subs' = subs
  BY DEF Setup!UnsubList, Rest
<1>1. Allowed(work[p].op, "undrop")
  BY <1>0 DEF SetupTypes, WorkHolds, IsWork, Allowed
<1>2. PICK L \in {subs, {}} :
        /\ Setup!Listed(L)
        /\ Setup!GoesWith(p, "undrop", {s \in L : s.on \in Setup!Target(p)})
  BY DEF Setup!UnsubList
<1>3. /\ WorkHolds(work')
      /\ Turn(p, "undrop", {s \in L : s.on \in Setup!Target(p)}, work[p].raids)
  BY <1>0, <1>1, <1>2, GoesOn DEF Setup!GoesWith
<1>4. (L = subs /\ Well) \/ (Ill /\ trouble' \in Nat)
  BY <1>2, SetupFine, SetupFails DEF Setup!Listed
<1> QED
  BY <1>0, <1>3, <1>4 DEF SetupTypes, TypesKeep, Rest, Well, Turn, Strays, Working, Unlisting

LEMMA SetupDrops ==
    ASSUME SetupTypes, NEW p \in Page, Setup!Drop(p)
    PROVE  TypesKeep /\ (Strays(p) \/ (Working(p) /\ Well))
<1>0. work[p].at \in {"undrop", "drop", "clean", "raid"} /\ Rest
  BY DEF Setup!Drop, Rest
<1>1. Allowed(work[p].op, work[p].at) /\ work = [q \in Page |-> work[q]] /\ IsWork(work[p])
  BY <1>0 DEF SetupTypes, WorkHolds, IsWork
<1>2. PICK s \in work[p].todo :
        /\ work' = [work EXCEPT ![p].todo = @ \ {s}]
        /\ \/ subs' = subs \ {t \in Setup!On(subs, s.on) : t.id = s.id} /\ Setup!Fine
           \/ subs' = subs /\ Setup!Fails
  BY DEF Setup!Drop, Setup!Drops
<1>3. work' = [work EXCEPT ![p].at = work[p].at, ![p].todo = work[p].todo \ {s}]
  <2>1. PICK y : y = [work[p] EXCEPT !.todo = @ \ {s}]
    OBVIOUS
  <2>2. y = [work[p] EXCEPT !.at = work[p].at, !.todo = work[p].todo \ {s}]
    BY <1>1, <2>1 DEF IsWork
  <2> QED
    BY <1>1, <1>2, <2>1, <2>2
<1>4. WorkHolds(work') /\ Turn(p, work[p].at, work[p].todo \ {s}, work[p].raids)
  BY <1>0, <1>1, <1>3, GoesOn
<1>5. CASE Setup!Fails
  <2>1. subs' \subseteq subs
    BY <1>2
  <2>2. SubsHold(subs')
    BY <2>1 DEF SetupTypes, SubsHold
  <2> QED
    BY <1>0, <1>4, <1>5, <2>2, SetupFails DEF SetupTypes, TypesKeep, Rest, Turn, Strays
<1>6. CASE subs' = subs \ {t \in Setup!On(subs, s.on) : t.id = s.id} /\ Setup!Fine
  <2>1. subs' = {t \in subs : ~(t.on = s.on /\ t.id = s.id)}
    BY <1>6 DEF Setup!On
  <2>2. SubsHold(subs')
    BY <2>1 DEF SetupTypes, SubsHold
  <2>3. Dropping(p) /\ Well
    BY <1>0, <1>4, <1>6, <2>1, SetupFine DEF Dropping
  <2> QED
    BY <1>0, <1>4, <2>2, <2>3 DEF SetupTypes, TypesKeep, Rest, Well, Working
<1> QED
  BY <1>2, <1>5, <1>6

LEMMA SetupUnlisted ==
    ASSUME SetupTypes, NEW p \in Page, Setup!Unsubscribed(p)
    PROVE  TypesKeep /\ Working(p) /\ Well
<1>0. /\ work[p].at = "undrop" /\ work[p].todo = {} /\ Rest /\ subs' = subs /\ Well
  BY SetupFine DEF Setup!Unsubscribed, Rest
<1>1. work[p].op \in {"save", "remove", "disconnect"}
  BY <1>0 DEF SetupTypes, WorkHolds, IsWork, Allowed
<1>2. PICK at : /\ Setup!Goes(p, at)
                /\ \/ work[p].op = "save" /\ at = "settings"
                   \/ work[p].op = "remove" /\ at = "row"
                   \/ work[p].op = "disconnect" /\ at = "rows"
  BY <1>1 DEF Setup!Unsubscribed
<1>3. Allowed(work[p].op, at)
  BY <1>2 DEF Allowed
<1>4. WorkHolds(work') /\ Turn(p, at, {}, work[p].raids)
  BY <1>0, <1>2, <1>3, GoesOn DEF Setup!Goes
<1> QED
  BY <1>0, <1>2, <1>4 DEF SetupTypes, TypesKeep, Rest, Well, Working, Unlisted

LEMMA SetupLists ==
    ASSUME SetupTypes, NEW p \in Page, Setup!SubList(p)
    PROVE  TypesKeep /\ (Strays(p) \/ (Working(p) /\ Well))
<1>0. work[p].at = "list" /\ Rest /\ subs' = subs
  BY DEF Setup!SubList, Rest
<1>1. Allowed(work[p].op, "drop")
  BY <1>0 DEF SetupTypes, WorkHolds, IsWork, Allowed
<1>2. PICK L \in {subs, {}} :
        /\ Setup!Listed(L)
        /\ work' = [work EXCEPT ![p].at = "drop", ![p].raids = Setup!On(L, Raid),
                                ![p].todo = Setup!On(L, work[p].r)]
  BY DEF Setup!SubList, Raid
<1>3. WorkHolds(work') /\ Turn(p, "drop", Setup!On(L, work[p].r), Setup!On(L, Raid))
  BY <1>0, <1>1, <1>2, GoesOn
<1>4. (L = subs /\ Well) \/ (Ill /\ trouble' \in Nat)
  BY <1>2, SetupFine, SetupFails DEF Setup!Listed
<1> QED
  BY <1>0, <1>3, <1>4
  DEF SetupTypes, TypesKeep, Rest, Well, Turn, Strays, Working, Listing, Setup!On

LEMMA SetupAdds ==
    ASSUME SetupTypes, NEW t \in Reward \cup {Raid}, Setup!Creates(t)
    PROVE  Adds(t) /\ SubsHold(subs') /\ Well
<1>1. Setup!On(subs, t) = {} /\ Well
  BY SetupFine DEF Setup!Creates
<1>2. PICK x : x = [id |-> Setup!Fresh(t), on |-> t, is |-> "pending"]
  OBVIOUS
<1>3. IsSub(x) /\ x.on = t /\ x.is = "pending"
  BY <1>2 DEF IsSub
<1>4. subs' = subs \cup {x}
  BY <1>2 DEF Setup!Creates
<1>5. \A s \in subs : s.on # t
  BY <1>1 DEF Setup!On
<1>6. SubsHold(subs')
  BY <1>3, <1>4, <1>5 DEF SetupTypes, SubsHold
<1> QED
  BY <1>1, <1>3, <1>4, <1>5, <1>6 DEF Adds

LEMMA SetupToRaid ==
    ASSUME SetupTypes, NEW p \in Page, NEW R, Setup!ToRaid(p, R), work[p].at # "idle",
           Allowed(work[p].op, "raid")
    PROVE  WorkHolds(work') /\ Turn(p, "raid", {s \in R : s.is = "failed"}, R)
BY GoesOn DEF Setup!ToRaid

LEMMA SetupCreates ==
    ASSUME SetupTypes, NEW p \in Page, Setup!Create(p)
    PROVE  TypesKeep /\ (Strays(p) \/ (Working(p) /\ Well))
<1>0. work[p].at = "drop" /\ work[p].todo = {} /\ Rest
  BY DEF Setup!Create, Rest
<1>1. /\ Allowed(work[p].op, "raid") /\ Allowed(work[p].op, "recheck")
      /\ Allowed(work[p].op, "failed") /\ work[p].r \in Reward
  BY <1>0 DEF SetupTypes, WorkHolds, IsWork, Allowed
<1>2. CASE Setup!Creates(work[p].r) /\ Setup!ToRaid(p, work[p].raids)
  <2>1. Adds(work[p].r) /\ SubsHold(subs') /\ Well
    BY <1>1, <1>2, SetupAdds
  <2>2. /\ WorkHolds(work')
        /\ Turn(p, "raid", {s \in work[p].raids : s.is = "failed"}, work[p].raids)
    BY <1>0, <1>1, <1>2, SetupToRaid
  <2>3. Creating(p)
    BY <1>0, <2>1, <2>2 DEF Creating
  <2> QED
    BY <1>0, <2>1, <2>2, <2>3 DEF SetupTypes, TypesKeep, Rest, Well, Working
<1>3. CASE Setup!On(subs, work[p].r) # {} /\ Setup!Fine /\ Setup!Goes(p, "recheck")
           /\ subs' = subs
  <2>1. WorkHolds(work') /\ Turn(p, "recheck", {}, work[p].raids)
    BY <1>0, <1>1, <1>3, GoesOn DEF Setup!Goes
  <2>2. (\E s \in subs : s.on = work[p].r) /\ Well
    BY <1>3, SetupFine DEF Setup!On
  <2>3. Creating(p)
    BY <1>0, <1>3, <2>1, <2>2 DEF Creating
  <2> QED
    BY <1>0, <1>3, <2>1, <2>2, <2>3 DEF SetupTypes, TypesKeep, Rest, Well, Working
<1>4. CASE Setup!Fails /\ Setup!Goes(p, "failed") /\ subs' = subs
  <2>1. WorkHolds(work') /\ Turn(p, "failed", {}, work[p].raids)
    BY <1>0, <1>1, <1>4, GoesOn DEF Setup!Goes
  <2> QED
    BY <1>0, <1>4, <2>1, SetupFails DEF SetupTypes, TypesKeep, Rest, Turn, Strays
<1> QED
  BY <1>2, <1>3, <1>4 DEF Setup!Create

\* What follows on a conflict.
LEMMA SetupRechecks ==
    ASSUME SetupTypes, NEW p \in Page, Setup!Recheck(p) \/ Setup!Retry(p)
    PROVE  TypesKeep /\ Strays(p)
<1>0. work[p].at \in {"recheck", "clean"} /\ Rest
  BY DEF Setup!Recheck, Setup!Retry, Rest
<1>1. /\ Allowed(work[p].op, "raid") /\ Allowed(work[p].op, "clean")
      /\ Allowed(work[p].op, "told") /\ work[p].r \in Reward
  BY <1>0 DEF SetupTypes, WorkHolds, IsWork, Allowed
<1>2. ASSUME WorkHolds(work'), OthersWork(p), SubsHold(subs'), Well \/ (Ill /\ trouble' \in Nat)
      PROVE  TypesKeep /\ Strays(p)
  BY <1>0, <1>2 DEF SetupTypes, TypesKeep, Rest, Well, Strays
<1>3. CASE Setup!Recheck(p)
  <2>1. PICK L \in {subs, {}} :
          /\ Setup!Listed(L)
          /\ \/ Setup!ToRaid(p, Setup!On(L, Raid))
             \/ work' = [work EXCEPT ![p].at = "clean", ![p].raids = Setup!On(L, Raid),
                                     ![p].todo = Setup!Redemptions(L)]
             \/ Setup!Goes(p, "told")
    BY <1>3 DEF Setup!Recheck, Raid
  <2>2. Well \/ (Ill /\ trouble' \in Nat)
    BY <2>1, SetupFine, SetupFails DEF Setup!Listed
  <2>3. WorkHolds(work') /\ OthersWork(p)
    <3>1. CASE Setup!ToRaid(p, Setup!On(L, Raid))
      BY <1>0, <1>1, <3>1, SetupToRaid DEF Turn
    <3>2. CASE work' = [work EXCEPT ![p].at = "clean", ![p].raids = Setup!On(L, Raid),
                                    ![p].todo = Setup!Redemptions(L)]
      BY <1>0, <1>1, <3>2, GoesOn DEF Turn
    <3>3. CASE Setup!Goes(p, "told")
      BY <1>0, <1>1, <3>3, GoesOn DEF Turn, Setup!Goes
    <3> QED
      BY <2>1, <3>1, <3>2, <3>3
  <2>4. SubsHold(subs')
    BY <1>3 DEF Setup!Recheck, SetupTypes
  <2> QED
    BY <1>2, <2>2, <2>3, <2>4
<1>4. CASE Setup!Retry(p)
  <2>1. CASE Setup!Creates(work[p].r) /\ Setup!ToRaid(p, work[p].raids)
    BY <1>0, <1>1, <1>2, <2>1, SetupAdds, SetupToRaid DEF Turn
  <2>2. CASE Setup!Fine /\ Setup!Goes(p, "told") /\ subs' = subs
    BY <1>0, <1>1, <1>2, <2>2, SetupFine, GoesOn DEF Turn, Setup!Goes, SetupTypes
  <2>3. CASE Setup!Fails /\ Setup!Goes(p, "told") /\ subs' = subs
    BY <1>0, <1>1, <1>2, <2>3, SetupFails, GoesOn DEF Turn, Setup!Goes, SetupTypes
  <2> QED
    BY <1>4, <2>1, <2>2, <2>3 DEF Setup!Retry
<1> QED
  BY <1>3, <1>4

LEMMA SetupEnsures ==
    ASSUME SetupTypes, NEW p \in Page, Setup!EnsureRaid(p)
    PROVE  TypesKeep /\ (Strays(p) \/ (Working(p) /\ Well))
<1>0. work[p].at = "raid" /\ work[p].todo = {} /\ Rest /\ Setup!Goes(p, "told")
  BY DEF Setup!EnsureRaid, Rest
<1>1. Allowed(work[p].op, "told")
  BY <1>0 DEF SetupTypes, WorkHolds, IsWork, Allowed
<1>2. WorkHolds(work') /\ Turn(p, "told", {}, work[p].raids)
  BY <1>0, <1>1, GoesOn DEF Setup!Goes
<1>3. CASE Setup!Fails /\ subs' = subs
  BY <1>0, <1>2, <1>3, SetupFails DEF SetupTypes, TypesKeep, Rest, Turn, Strays
<1>4. ASSUME Ensuring(p), Well, SubsHold(subs')
      PROVE  TypesKeep /\ Working(p) /\ Well
  BY <1>0, <1>2, <1>4 DEF SetupTypes, TypesKeep, Rest, Well, Working
<1>5. CASE (\E s \in work[p].raids : s.is # "failed") /\ Setup!Fine /\ subs' = subs
  <2>1. Ensuring(p)
    BY <1>0, <1>2, <1>5 DEF Ensuring
  <2> QED
    BY <1>4, <1>5, <2>1, SetupFine DEF SetupTypes
<1>6. CASE (\A s \in work[p].raids : s.is = "failed") /\ Setup!Creates(Raid)
  <2>1. Adds(Raid) /\ SubsHold(subs') /\ Well
    BY <1>6, SetupAdds
  <2>2. Ensuring(p)
    BY <1>0, <1>2, <1>6, <2>1 DEF Ensuring
  <2> QED
    BY <1>4, <2>1, <2>2
<1>7. CASE /\ \A s \in work[p].raids : s.is = "failed"
           /\ Setup!On(subs, Raid) # {} /\ Setup!Fine /\ subs' = subs
  <2>1. \E s \in subs : s.on = Raid
    BY <1>7 DEF Setup!On
  <2>2. Ensuring(p)
    BY <1>0, <1>2, <1>7, <2>1 DEF Ensuring
  <2> QED
    BY <1>4, <1>7, <2>2, SetupFine DEF SetupTypes
<1> QED
  BY <1>3, <1>5, <1>6, <1>7 DEF Setup!EnsureRaid, Raid

\* The routes for the settings and the rewards, and the page at the end.
LEMMA SetupSets ==
    ASSUME SetupTypes, NEW p \in Page, Setup!Settings(p)
    PROVE  TypesKeep /\ (Strays(p) \/ (Working(p) /\ Well))
<1>0. /\ work[p].at = "settings" /\ extra' = extra /\ subs' = subs /\ view' = view
  BY DEF Setup!Settings
<1>1. /\ work[p].op \in {"save", "disconnect"} /\ work[p].r \in Reward \cup {NoReward}
      /\ \A at : \/ work[p].op = "save" /\ at \in {"list", "refused"}
                 \/ work[p].op = "disconnect" /\ at \in {"cleared", "refused"}
                 => Allowed(work[p].op, at)
  BY <1>0 DEF SetupTypes, WorkHolds, IsWork, Allowed
<1>2. PICK at : /\ Setup!Goes(p, at)
                /\ \/ /\ main' = work[p].r /\ Setup!Fine
                      /\ \/ work[p].op = "save" /\ at = "list"
                         \/ work[p].op = "disconnect" /\ at = "cleared"
                   \/ Setup!Fails /\ main' = main /\ at = "refused"
  BY <1>1 DEF Setup!Settings
<1>3. WorkHolds(work') /\ Turn(p, at, {}, work[p].raids)
  BY <1>0, <1>1, <1>2, GoesOn DEF Setup!Goes
<1>4. CASE Setup!Fails /\ main' = main
  BY <1>0, <1>3, <1>4, SetupFails DEF SetupTypes, TypesKeep, Turn, Strays
<1>5. CASE main' = work[p].r /\ Setup!Fine
  BY <1>0, <1>1, <1>2, <1>3, <1>5, SetupFine, SetupFails
  DEF SetupTypes, TypesKeep, PlacesHold, Turn, Working, Setting, Well, Strays
<1> QED
  BY <1>2, <1>4, <1>5

LEMMA SetupTells ==
    ASSUME SetupTypes, NEW p \in Page, Setup!Told(p)
    PROVE  TypesKeep /\ Working(p) /\ Well
<1>0. /\ work[p].at = "told" /\ main' = main /\ extra' = extra /\ subs' = subs /\ Well
  BY SetupFine DEF Setup!Told
<1>1. /\ work[p].op \in {"save", "add"} /\ IsView(view[p]) /\ view = [q \in Page |-> view[q]]
      /\ work[p].op = "save" => Allowed("save", "look")
      /\ work[p].op = "add" => Allowed("add", "insert")
  BY <1>0 DEF SetupTypes, ViewsHold, WorkHolds, IsWork, Allowed
<1>2. CASE work[p].op = "save"
  <2>1. PICK y : y = [view[p] EXCEPT !.saved = work[p].r, !.status = "pending"]
    OBVIOUS
  <2>2. y.saved = work[p].r /\ y.extra = view[p].extra /\ IsView(y)
    BY <1>1, <2>1 DEF IsView
  <2>3. view' = [view EXCEPT ![p] = y]
    BY <1>1, <1>2, <2>1 DEF Setup!Told
  <2>4. ViewsHold(view') /\ view'[p] = y /\ OthersView(p)
    BY <2>2, <2>3, ViewChanges
  <2>5. WorkHolds(work') /\ Turn(p, "look", {}, work[p].raids)
    BY <1>0, <1>1, <1>2, GoesOn DEF Setup!Told, Setup!Goes
  <2> QED
    BY <1>0, <1>2, <2>2, <2>4, <2>5 DEF SetupTypes, TypesKeep, Working, Telling, Well
<1>3. CASE work[p].op = "add"
  <2>1. WorkHolds(work') /\ Turn(p, "insert", {}, work[p].raids) /\ view' = view
    BY <1>0, <1>1, <1>3, GoesOn DEF Setup!Told, Setup!Goes
  <2> QED
    BY <1>0, <1>3, <2>1 DEF SetupTypes, TypesKeep, Working, Telling, Well
<1> QED
  BY <1>1, <1>2, <1>3

LEMMA SetupEnds ==
    ASSUME SetupTypes, NEW p \in Page, NEW done, Setup!Ends(p, done), done \in BOOLEAN
    PROVE  /\ WorkHolds(work') /\ Ends(p)
           /\ done => Done(p)
           /\ ~done => last'.op = NoReward
<1>1. IsWork(Setup!Idle) /\ Setup!Idle.at = "idle"
  BY DEF IsWork, Setup!Idle
<1>2. WorkHolds(work') /\ work'[p] = Setup!Idle /\ OthersWork(p)
  BY <1>1, WorkChanges DEF Setup!Ends
<1>3. trouble' = trouble /\ (smooth' <=> smooth)
  BY DEF Setup!Ends
<1>4. ASSUME smooth, done PROVE last'.op = work[p].op /\ last'.r = work[p].r
  <2>1. last' = Setup!Ended(work[p].op, work[p].r)
    BY <1>4, Zenon DEF Setup!Ends
  <2> QED
    BY <2>1 DEF Setup!Ended
<1>5. ASSUME ~(smooth /\ done) PROVE last'.op = NoReward
  <2>1. last' = Setup!Ended(NoReward, NoReward)
    BY <1>5, Zenon DEF Setup!Ends, NoReward
  <2> QED
    BY <2>1 DEF Setup!Ended
<1> QED
  BY <1>1, <1>2, <1>3, <1>4, <1>5 DEF Ends, Done

LEMMA SetupGivesUp ==
    ASSUME SetupTypes, NEW p \in Page, Setup!GivesUp(p)
    PROVE  TypesKeep /\ (Strays(p) \/ Refused(p))
<1>0. /\ work[p].at \in {"failed", "refused"} /\ main' = main /\ extra' = extra /\ subs' = subs
      /\ IsView(view[p]) /\ view = [q \in Page |-> view[q]]
  BY DEF Setup!GivesUp, SetupTypes, ViewsHold
<1>1. WorkHolds(work') /\ Ends(p) /\ last'.op = NoReward
  BY SetupEnds DEF Setup!GivesUp
<1>2. CASE view' = view
  BY <1>0, <1>1, <1>2 DEF SetupTypes, TypesKeep, Ends, Strays, Refused, Rest
<1>3. CASE work[p].at = "failed" /\ view' = [view EXCEPT ![p].status = "error"]
  <2>1. PICK y : y = [view[p] EXCEPT !.status = "error"]
    OBVIOUS
  <2>2. IsView(y)
    BY <1>0, <2>1 DEF IsView
  <2>3. view' = [view EXCEPT ![p] = y]
    BY <1>0, <1>3, <2>1
  <2>4. ViewsHold(view')
    BY <2>2, <2>3, ViewChanges
  <2> QED
    BY <1>0, <1>1, <1>3, <2>4 DEF SetupTypes, TypesKeep, Ends, Strays
<1> QED
  BY <1>2, <1>3 DEF Setup!GivesUp

LEMMA SetupInserts ==
    ASSUME SetupTypes, NEW p \in Page, Setup!Insert(p)
    PROVE  TypesKeep /\ (Strays(p) \/ (Working(p) /\ Well))
<1>0. /\ work[p].at = "insert" /\ main' = main /\ subs' = subs /\ view' = view
  BY DEF Setup!Insert
<1>1. /\ work[p].r \in Reward /\ Allowed(work[p].op, "rewards")
      /\ Allowed(work[p].op, "refused")
  BY <1>0 DEF SetupTypes, WorkHolds, IsWork, Allowed
<1>2. CASE /\ ~Setup!Refusable(p) /\ Setup!Fine /\ extra' = extra \cup {work[p].r}
           /\ Setup!Goes(p, "rewards")
  <2>1. WorkHolds(work') /\ Turn(p, "rewards", {}, work[p].raids)
    BY <1>0, <1>1, <1>2, GoesOn DEF Setup!Goes
  <2> QED
    BY <1>0, <1>1, <1>2, <2>1, SetupFine
    DEF SetupTypes, TypesKeep, PlacesHold, Working, Inserting, Well
<1>3. CASE Setup!Refusable(p) /\ Setup!Fine /\ extra' = extra /\ Setup!Goes(p, "refused")
  <2>1. WorkHolds(work') /\ Turn(p, "refused", {}, work[p].raids)
    BY <1>0, <1>1, <1>3, GoesOn DEF Setup!Goes
  <2> QED
    BY <1>0, <1>1, <1>3, <2>1, SetupFine
    DEF SetupTypes, TypesKeep, PlacesHold, Working, Inserting, Well
<1>4. CASE Setup!Fails /\ extra' = extra /\ Setup!Goes(p, "refused")
  <2>1. WorkHolds(work') /\ Turn(p, "refused", {}, work[p].raids)
    BY <1>0, <1>1, <1>4, GoesOn DEF Setup!Goes
  <2> QED
    BY <1>0, <1>4, <2>1, SetupFails DEF SetupTypes, TypesKeep, Turn, Strays
<1> QED
  BY <1>2, <1>3, <1>4 DEF Setup!Insert

LEMMA SetupDeletes ==
    ASSUME SetupTypes, NEW p \in Page, Setup!DeleteRow(p) \/ Setup!DeleteRows(p)
    PROVE  TypesKeep /\ (Strays(p) \/ (Working(p) /\ Well))
<1>0. main' = main /\ subs' = subs /\ view' = view
  BY DEF Setup!DeleteRow, Setup!DeleteRows
<1>1. CASE Setup!DeleteRow(p)
  <2>1. /\ work[p].at = "row" /\ Allowed(work[p].op, "rewards")
        /\ Allowed(work[p].op, "refused")
    BY <1>1 DEF SetupTypes, WorkHolds, IsWork, Allowed, Setup!DeleteRow
  <2>2. CASE extra' = extra \ {work[p].r} /\ Setup!Fine /\ Setup!Goes(p, "rewards")
    <3>1. WorkHolds(work') /\ Turn(p, "rewards", {}, work[p].raids)
      BY <2>1, <2>2, GoesOn DEF Setup!Goes
    <3> QED
      BY <1>0, <2>1, <2>2, <3>1, SetupFine
      DEF SetupTypes, TypesKeep, PlacesHold, Working, DeletingRow, Well
  <2>3. CASE Setup!Fails /\ Setup!Goes(p, "refused") /\ extra' = extra
    <3>1. WorkHolds(work') /\ Turn(p, "refused", {}, work[p].raids)
      BY <2>1, <2>3, GoesOn DEF Setup!Goes
    <3> QED
      BY <1>0, <2>3, <3>1, SetupFails DEF SetupTypes, TypesKeep, Turn, Strays
  <2> QED
    BY <1>1, <2>2, <2>3 DEF Setup!DeleteRow
<1>2. CASE Setup!DeleteRows(p)
  <2>1. work[p].at = "rows" /\ Allowed(work[p].op, "settings") /\ Setup!Goes(p, "settings")
    BY <1>2 DEF SetupTypes, WorkHolds, IsWork, Allowed, Setup!DeleteRows
  <2>2. WorkHolds(work') /\ Turn(p, "settings", {}, work[p].raids)
    BY <2>1, GoesOn DEF Setup!Goes
  <2>3. CASE extra' = {} /\ Setup!Fine
    BY <1>0, <2>1, <2>2, <2>3, SetupFine
    DEF SetupTypes, TypesKeep, PlacesHold, Working, DeletingRows, Well
  <2>4. CASE Setup!Fails /\ extra' = extra
    BY <1>0, <2>2, <2>4, SetupFails DEF SetupTypes, TypesKeep, Turn, Strays
  <2> QED
    BY <1>2, <2>3, <2>4 DEF Setup!DeleteRows
<1> QED
  BY <1>1, <1>2

LEMMA SetupClears ==
    ASSUME SetupTypes, NEW p \in Page, Setup!Cleared(p)
    PROVE  TypesKeep /\ Clearing(p)
<1>0. work[p].at = "cleared" /\ main' = main /\ extra' = extra /\ subs' = subs
  BY DEF Setup!Cleared
<1>1. WorkHolds(work') /\ Ends(p) /\ Done(p)
  BY SetupEnds DEF Setup!Cleared
<1>2. PICK y : y = Setup!Shown(p, NoReward, {}, {})
  OBVIOUS
<1>3. view' = [view EXCEPT ![p] = y]
  BY <1>2 DEF Setup!Cleared, NoReward
<1>4. Setup!Status({}, NoReward) = NoReward
  BY DEF Setup!Status, Setup!On, Setup!Redemptions, NoReward
<1>5. /\ y.saved = NoReward /\ y.extra = {} /\ y.seen = {} /\ y.status = NoReward
      /\ IsView(y)
  BY <1>2, <1>4 DEF Setup!Shown, IsView, NoReward
<1>6. ViewsHold(view') /\ view'[p] = y /\ OthersView(p)
  BY <1>3, <1>5, ViewChanges
<1> QED
  BY <1>0, <1>1, <1>5, <1>6 DEF SetupTypes, TypesKeep, Ends, Clearing

LEMMA SetupFetches ==
    ASSUME SetupTypes, NEW p \in Page, Setup!FetchRewards(p)
    PROVE  TypesKeep /\ (Strays(p) \/ (Working(p) /\ Well))
<1>0. /\ work[p].at = "rewards" /\ main' = main /\ extra' = extra /\ subs' = subs
      /\ IsView(view[p]) /\ view = [q \in Page |-> view[q]] /\ PlacesHold(main, extra)
  BY DEF Setup!FetchRewards, SetupTypes, ViewsHold
<1>1. Allowed(work[p].op, "look")
  BY <1>0 DEF SetupTypes, WorkHolds, IsWork, Allowed
<1>2. WorkHolds(work') /\ Turn(p, "look", {}, work[p].raids)
  BY <1>0, <1>1, GoesOn DEF Setup!Goes, Setup!FetchRewards
<1>3. CASE Setup!Fails /\ view' = view
  BY <1>0, <1>2, <1>3, SetupFails DEF SetupTypes, TypesKeep, Turn, Strays
<1>4. CASE view' = [view EXCEPT ![p].extra = extra] /\ Setup!Fine
  <2>1. PICK y : y = [view[p] EXCEPT !.extra = extra]
    OBVIOUS
  <2>2. y.extra = extra /\ y.saved = view[p].saved /\ IsView(y)
    BY <1>0, <2>1 DEF IsView, PlacesHold
  <2>3. view' = [view EXCEPT ![p] = y]
    BY <1>0, <1>4, <2>1
  <2>4. ViewsHold(view') /\ view'[p] = y /\ OthersView(p)
    BY <2>2, <2>3, ViewChanges
  <2> QED
    BY <1>0, <1>2, <1>4, <2>2, <2>4, SetupFine
    DEF SetupTypes, TypesKeep, Working, Fetching, Well
<1> QED
  BY <1>3, <1>4 DEF Setup!FetchRewards

LEMMA SetupLooks ==
    ASSUME SetupTypes, NEW p \in Page, Setup!Look(p) \/ Setup!LookFails(p)
    PROVE  TypesKeep /\ (Strays(p) \/ Looking(p))
<1>0. /\ work[p].at = "look" /\ main' = main /\ extra' = extra /\ subs' = subs
      /\ IsView(view[p]) /\ view = [q \in Page |-> view[q]]
  BY DEF Setup!Look, Setup!LookFails, SetupTypes, ViewsHold
<1>1. CASE Setup!Look(p)
  <2>1. WorkHolds(work') /\ Ends(p) /\ Done(p)
    BY <1>1, SetupEnds DEF Setup!Look
  <2>2. PICK z : view' = [view EXCEPT ![p].seen = {s.on : s \in subs}, ![p].status = z]
    BY <1>1 DEF Setup!Look
  <2>3. PICK y : y = [view[p] EXCEPT !.seen = {s.on : s \in subs}, !.status = z]
    OBVIOUS
  <2>4. /\ y.seen = {s.on : s \in subs} /\ y.saved = view[p].saved
        /\ y.extra = view[p].extra /\ IsView(y)
    BY <1>0, <2>3 DEF IsView
  <2>5. view' = [view EXCEPT ![p] = y]
    BY <1>0, <2>2, <2>3
  <2>6. ViewsHold(view') /\ view'[p] = y /\ OthersView(p)
    BY <2>4, <2>5, ViewChanges
  <2> QED
    BY <1>0, <2>1, <2>4, <2>6 DEF SetupTypes, TypesKeep, Ends, Looking
<1>2. CASE Setup!LookFails(p)
  <2>1. IsWork(Setup!Idle)
    BY DEF IsWork, Setup!Idle
  <2>2. WorkHolds(work') /\ OthersWork(p)
    BY <1>2, <2>1, WorkChanges DEF Setup!LookFails
  <2> QED
    BY <1>0, <1>2, <2>2, SetupFails DEF SetupTypes, TypesKeep, Strays, Setup!LookFails
<1> QED
  BY <1>1, <1>2

LEMMA SetupMarks ==
    ASSUME SetupTypes, Setup!Verify \/ Setup!Revoke
    PROVE  TypesKeep /\ Marking
<1>0. Rest /\ work' = work
  BY DEF Setup!Verify, Setup!Revoke, Rest
<1>1. PICK s \in subs : \E x :
        /\ subs' = (subs \ {s}) \cup {x}
        /\ \/ x = [s EXCEPT !.is = "enabled"] /\ Well
           \/ x = [s EXCEPT !.is = "failed"] /\ Setup!Fails
  <2>1. CASE Setup!Verify
    <3>1. PICK s \in subs : subs' = (subs \ {s}) \cup {[s EXCEPT !.is = "enabled"]}
      BY <2>1 DEF Setup!Verify
    <3>2. Well
      BY <2>1 DEF Setup!Verify, Well
    <3> QED
      BY <3>1, <3>2
  <2>2. CASE Setup!Revoke
    <3>1. PICK s \in subs : subs' = (subs \ {s}) \cup {[s EXCEPT !.is = "failed"]}
      BY <2>2 DEF Setup!Revoke
    <3>2. Setup!Fails
      BY <2>2 DEF Setup!Revoke
    <3> QED
      BY <3>1, <3>2
  <2> QED
    BY <2>1, <2>2
<1>2. PICK x :
        /\ subs' = (subs \ {s}) \cup {x}
        /\ \/ x = [s EXCEPT !.is = "enabled"] /\ Well
           \/ x = [s EXCEPT !.is = "failed"] /\ Setup!Fails
  BY <1>1
<1>3. IsSub(s)
  BY DEF SetupTypes, SubsHold
<1>4. /\ IsSub(x) /\ x.id = s.id /\ x.on = s.on
      /\ (x.is = "enabled" /\ Well) \/ Setup!Fails
  BY <1>3, <1>2 DEF IsSub
<1>5. SubsHold(subs')
  BY <1>3, <1>4, <1>2 DEF SetupTypes, SubsHold
<1>6. (Well \/ Ill) /\ trouble' \in Nat
  BY <1>2, SetupFails DEF SetupTypes, Well
<1> QED
  BY <1>0, <1>2, <1>4, <1>5, <1>6, SetupFails DEF SetupTypes, TypesKeep, Rest, Marking

LEMMA SetupSteps == SetupTypes /\ [Setup!Next]_(Setup!vars) => SetupStep
<1> SUFFICES ASSUME SetupTypes, [Setup!Next]_(Setup!vars) PROVE SetupStep
  OBVIOUS
<1>1. CASE Setup!Verify \/ Setup!Revoke
  BY <1>1, SetupMarks DEF SetupStep
<1>2. CASE UNCHANGED Setup!vars
  BY <1>2 DEF Setup!vars, SetupStep, SetupTypes, TypesKeep, Stays, Rest, Well
<1>3. ASSUME NEW p \in Page,
             \/ Setup!Pick(p) \/ Setup!Load(p) \/ Setup!Save(p) \/ Setup!Add(p)
             \/ Setup!Remove(p) \/ Setup!Disconnect(p)
      PROVE  TypesKeep /\ Moves(p)
  BY <1>3, SetupViews, SetupBegins DEF Moves
<1>4. ASSUME NEW p \in Page,
             \/ Setup!UnsubList(p) \/ Setup!Drop(p) \/ Setup!Unsubscribed(p)
             \/ Setup!SubList(p) \/ Setup!Create(p) \/ Setup!Recheck(p) \/ Setup!Retry(p)
             \/ Setup!EnsureRaid(p) \/ Setup!Settings(p) \/ Setup!Told(p)
      PROVE  TypesKeep /\ Moves(p)
  <2>1. work[p].at # "idle"
    BY <1>4 DEF Setup!UnsubList, Setup!Drop, Setup!Unsubscribed, Setup!SubList, Setup!Create,
       Setup!Recheck, Setup!Retry, Setup!EnsureRaid, Setup!Settings, Setup!Told
  <2> QED
    BY <1>4, <2>1, SetupUnlists, SetupDrops, SetupUnlisted, SetupLists, SetupCreates,
       SetupRechecks, SetupEnsures, SetupSets, SetupTells DEF Moves
<1>5. ASSUME NEW p \in Page,
             \/ Setup!GivesUp(p) \/ Setup!Insert(p) \/ Setup!DeleteRow(p)
             \/ Setup!DeleteRows(p) \/ Setup!Cleared(p) \/ Setup!FetchRewards(p)
             \/ Setup!Look(p) \/ Setup!LookFails(p)
      PROVE  TypesKeep /\ Moves(p)
  <2>1. work[p].at # "idle"
    BY <1>5 DEF Setup!GivesUp, Setup!Insert, Setup!DeleteRow, Setup!DeleteRows,
       Setup!Cleared, Setup!FetchRewards, Setup!Look, Setup!LookFails
  <2> QED
    BY <1>5, <2>1, SetupGivesUp, SetupInserts, SetupDeletes, SetupClears, SetupFetches,
       SetupLooks DEF Moves
<1> QED
  BY <1>1, <1>2, <1>3, <1>4, <1>5 DEF Setup!Next, SetupStep

(*---------------------------------------------------------------------------*)
(* An operation that no failure and no other page has met.                   *)

Tells(S, t) == \E s \in S : s.on = t
Lives(S, t) == \E s \in S : s.on = t /\ s.is # "failed"
\* Of the subscriptions to t all are in T.
Covered(S, T, t) == \A s \in S : s.on = t => \E d \in T : d.on = s.on /\ d.id = s.id
AllFailed(T) == \A s \in T : s.is = "failed"

\* What it has seen to, and what it knows, at each stage.
SoundSubs(w, S) ==
    /\ w.op = "remove" /\ w.at = "undrop" =>
         Covered(S, w.todo, w.r) /\ \A d \in w.todo : d.on = w.r
    /\ w.op = "remove" /\ w.at \in {"row", "rewards", "look"} => \A s \in S : s.on # w.r
    /\ w.op = "disconnect" /\ w.at = "undrop" => \A t \in Reward \cup {Raid} : Covered(S, w.todo, t)
    /\ w.op = "disconnect" /\ w.at \in {"rows", "settings", "cleared"} => S = {}
    /\ w.at = "drop" =>
         /\ Covered(S, w.todo, w.r) /\ \A d \in w.todo : d.on = w.r
         /\ \A d, e \in w.raids : d.on = Raid /\ d = e
         /\ IF AllFailed(w.raids) THEN Covered(S, w.raids, Raid) ELSE Lives(S, Raid)
    /\ w.at = "raid" =>
         /\ Lives(S, w.r) /\ \A d \in w.todo : d.on = Raid
         /\ IF AllFailed(w.raids) THEN Covered(S, w.todo, Raid) ELSE Lives(S, Raid) /\ w.todo = {}
    /\ \/ w.at \in {"told", "insert"}
       \/ w.op = "save" /\ w.at = "look"
       \/ w.op = "add" /\ w.at \in {"rewards", "look", "refused"}
       => Lives(S, w.r) /\ Lives(S, Raid)

SoundRows(w, m, x) ==
    /\ w.at \notin {"idle", "recheck", "clean", "failed"}
    /\ w.op = "save" /\ w.at \in {"list", "drop", "raid", "told", "look"} => m = w.r
    /\ w.op = "add" /\ w.at \in {"rewards", "look"} => w.r \in x
    /\ w.op = "remove" /\ w.at \in {"rewards", "look"} => w.r \notin x
    /\ w.op = "disconnect" /\ w.at \in {"settings", "cleared"} => x = {}
    /\ w.op = "disconnect" /\ w.at = "cleared" => m = NoReward

\* What it has done once it has ended.
Asked(l, m, x, S) ==
    /\ l.op \in {"save", "add"} => Lives(S, l.r) /\ Lives(S, Raid) /\ l.r \in x \cup ({m} \ {NoReward})
    /\ l.op = "save" => m = l.r
    /\ l.op = "remove" => l.r \notin x /\ \A s \in S : s.on # l.r
    /\ l.op = "disconnect" => x = {} /\ m = NoReward /\ S = {}

OneBusy == smooth => \A p, q \in Page : work[p].at # "idle" /\ work[q].at # "idle" => p = q
SoundOnes == smooth => \A p \in Page : work[p].at # "idle" =>
                         SoundSubs(work[p], subs) /\ SoundRows(work[p], main, extra)
Finished == last.op # NoReward => Setup!Quiet /\ Asked(last, main, extra, subs)

DInv == SetupTypes /\ OneBusy /\ SoundOnes /\ Finished

\* Twitch has checked a subscription.
LEMMA MarkingKeeps ==
    ASSUME Marking, Well, smooth \/ last.op # NoReward
    PROVE  /\ \A t : Lives(subs, t) => Lives(subs', t)
           /\ \A T, t : Covered(subs, T, t) => Covered(subs', T, t)
           /\ \A t : Tells(subs', t) <=> Tells(subs, t)
           /\ subs # {}
<1>1. ~Ill
  BY DEF Well, Ill
<1>2. PICK s \in subs : \E x :
         /\ x.id = s.id /\ x.on = s.on /\ x.is = "enabled" /\ subs' = (subs \ {s}) \cup {x}
  BY <1>1 DEF Marking
<1>3. PICK x :
         /\ x.id = s.id /\ x.on = s.on /\ x.is = "enabled" /\ subs' = (subs \ {s}) \cup {x}
  BY <1>2
<1>4. x.is # "failed" /\ s \in subs
  BY <1>2, <1>3
<1>5. ASSUME NEW t, Lives(subs, t) PROVE Lives(subs', t)
  BY <1>3, <1>4, <1>5 DEF Lives
<1>6. ASSUME NEW T, NEW t, Covered(subs, T, t) PROVE Covered(subs', T, t)
  BY <1>3, <1>4, <1>6 DEF Covered
<1>7. ASSUME NEW t PROVE Tells(subs', t) <=> Tells(subs, t)
  BY <1>3, <1>4 DEF Tells
<1> QED
  BY <1>4, <1>5, <1>6, <1>7

LEMMA MarkingSound ==
    ASSUME NEW S, NEW U, S # {}, \A t : Lives(S, t) => Lives(U, t),
           \A T, t : Covered(S, T, t) => Covered(U, T, t), \A t : Tells(U, t) <=> Tells(S, t)
    PROVE  /\ \A w : SoundSubs(w, S) => SoundSubs(w, U)
           /\ \A l, m, x : Asked(l, m, x, S) => Asked(l, m, x, U)
<1>1. ASSUME NEW w, SoundSubs(w, S) PROVE SoundSubs(w, U)
  BY <1>1 DEF SoundSubs, Tells
<1>2. ASSUME NEW l, NEW m, NEW x, Asked(l, m, x, S) PROVE Asked(l, m, x, U)
  BY <1>2 DEF Asked, Tells
<1> QED
  BY <1>1, <1>2

\* A deletion.
LEMMA DropSound ==
    ASSUME Rewards, SetupTypes, NEW p \in Page, Dropping(p), work[p].at # "clean",
           SoundSubs(work[p], subs)
    PROVE  SoundSubs(work'[p], subs')
<1> DEFINE w == work[p]
           z == work'[p]
<1>1. PICK s \in w.todo :
        /\ z.at = w.at /\ z.op = w.op /\ z.r = w.r /\ z.raids = w.raids
        /\ z.todo = w.todo \ {s}
        /\ subs' = {t \in subs : ~(t.on = s.on /\ t.id = s.id)}
  BY DEF Dropping, Turn
<1>2. IsWork(w) /\ w.at \in {"undrop", "drop", "raid"}
  BY DEF SetupTypes, WorkHolds, Dropping
<1>3. ASSUME NEW t, Covered(subs, w.todo, t) PROVE Covered(subs', z.todo, t)
  BY <1>1, <1>3 DEF Covered
<1>4. ASSUME NEW t, t # s.on, Lives(subs, t) PROVE Lives(subs', t)
  BY <1>1, <1>4 DEF Lives
<1>5. ASSUME NEW T, NEW t, Covered(subs, T, t) PROVE Covered(subs', T, t)
  BY <1>1, <1>5 DEF Covered
<1>6. CASE w.at = "undrop"
  BY <1>1, <1>3, <1>6 DEF SoundSubs
<1>7. CASE w.at = "drop"
  <2>1. s.on = w.r /\ w.r # Raid
    BY <1>1, <1>2, <1>7 DEF SoundSubs, IsWork, Allowed, Rewards
  <2> QED
    BY <1>1, <1>3, <1>4, <1>5, <1>7, <2>1 DEF SoundSubs
<1>8. CASE w.at = "raid"
  <2>1. s.on = Raid /\ w.r # Raid /\ w.todo # {}
    BY <1>1, <1>2, <1>8 DEF SoundSubs, IsWork, Allowed, Rewards
  <2> QED
    BY <1>1, <1>3, <1>4, <1>8, <2>1 DEF SoundSubs
<1> QED
  BY <1>2, <1>6, <1>7, <1>8

LEMMA AddLives ==
    ASSUME NEW t, Adds(t)
    PROVE  /\ Lives(subs', t) /\ ~Tells(subs, t)
           /\ \A u : Lives(subs, u) => Lives(subs', u)
           /\ \A T, u : u # t /\ Covered(subs, T, u) => Covered(subs', T, u)
           /\ \A u : u # t => (Tells(subs', u) <=> Tells(subs, u))
<1>1. PICK x : x.on = t /\ x.is = "pending" /\ subs' = subs \cup {x}
  BY DEF Adds
<1>2. x.is # "failed" /\ x \in subs'
  BY <1>1
<1>3. Lives(subs', t)
  BY <1>1, <1>2 DEF Lives
<1>4. ASSUME NEW u, Lives(subs, u) PROVE Lives(subs', u)
  BY <1>1, <1>4 DEF Lives
<1>5. ASSUME NEW T, NEW u, u # t, Covered(subs, T, u) PROVE Covered(subs', T, u)
  BY <1>1, <1>5 DEF Covered
<1>6. ASSUME NEW u, u # t PROVE Tells(subs', u) <=> Tells(subs, u)
  BY <1>1, <1>6 DEF Tells
<1>7. ~Tells(subs, t)
  BY DEF Adds, Tells
<1> QED
  BY <1>3, <1>4, <1>5, <1>6, <1>7

\* The calls of the subscribe route.
LEMMA CallsSound ==
    ASSUME Rewards, SetupTypes, NEW p \in Page,
           \/ Unlisting(p) \/ Dropping(p) \/ Unlisted(p) \/ Listing(p) \/ Creating(p)
           \/ Ensuring(p),
           SoundSubs(work[p], subs), SoundRows(work[p], main, extra)
    PROVE  SoundSubs(work'[p], subs') /\ SoundRows(work'[p], main', extra')
<1> DEFINE w == work[p]
           z == work'[p]
<1>0. IsWork(w)
  BY DEF SetupTypes, WorkHolds
<1>1. CASE Unlisting(p)
  <2>1. /\ z.at = "undrop" /\ z.op = w.op /\ z.r = w.r /\ subs' = subs /\ main' = main
        /\ extra' = extra /\ z.todo = {s \in subs : s.on \in Setup!Target(p)}
    BY <1>1 DEF Unlisting, Turn, Rest
  <2>2. w.op = "remove" => Setup!Target(p) = {w.r}
    BY DEF Setup!Target
  <2>3. w.op = "disconnect" => Setup!Target(p) = Reward \cup {Raid}
    BY SubTopics DEF Setup!Target
  <2>4. SoundSubs(z, subs)
    BY <2>1, <2>2, <2>3 DEF SoundSubs, Covered
  <2>5. SoundRows(z, main, extra)
    BY <2>1 DEF SoundRows
  <2> QED
    BY <2>1, <2>4, <2>5
<1>2. CASE Dropping(p)
  <2>1. w.at # "clean"
    BY DEF SoundRows
  <2>2. SoundSubs(z, subs')
    BY <1>2, <2>1, DropSound
  <2>3. z.at = w.at /\ z.op = w.op /\ z.r = w.r /\ main' = main /\ extra' = extra
    BY <1>2 DEF Dropping, Turn, Rest
  <2> QED
    BY <2>2, <2>3 DEF SoundRows
<1>3. CASE Unlisted(p)
  <2>1. /\ w.at = "undrop" /\ z.op = w.op /\ z.r = w.r /\ subs' = subs /\ main' = main
        /\ extra' = extra /\ w.todo = {}
        /\ \/ w.op = "save" /\ z.at = "settings"
           \/ w.op = "remove" /\ z.at = "row"
           \/ w.op = "disconnect" /\ z.at = "rows"
    BY <1>3 DEF Unlisted, Turn, Rest
  <2>2. w.op = "remove" => \A s \in subs : s.on # w.r
    BY <2>1 DEF SoundSubs, Covered
  <2>3. w.op = "disconnect" => subs = {}
    <3>1. w.op = "disconnect" => \A s \in subs : s.on \notin Reward \cup {Raid}
      BY <2>1 DEF SoundSubs, Covered
    <3> QED
      BY <3>1 DEF SetupTypes, SubsHold, IsSub
  <2> QED
    BY <2>1, <2>2, <2>3 DEF SoundSubs, SoundRows
<1>4. CASE Listing(p)
  <2>1. /\ w.at = "list" /\ z.at = "drop" /\ z.op = w.op /\ z.r = w.r /\ subs' = subs
        /\ main' = main /\ extra' = extra
        /\ z.todo = {s \in subs : s.on = w.r} /\ z.raids = {s \in subs : s.on = Raid}
    BY <1>4 DEF Listing, Turn, Rest
  <2>2. Covered(subs, z.todo, w.r) /\ Covered(subs, z.raids, Raid)
    BY <2>1 DEF Covered
  <2>3. \A d, e \in z.raids : d.on = Raid /\ d = e
    BY <2>1 DEF SetupTypes, SubsHold
  <2>4. ~AllFailed(z.raids) => Lives(subs, Raid)
    BY <2>1 DEF AllFailed, Lives
  <2>5. SoundSubs(z, subs)
    BY <2>1, <2>2, <2>3, <2>4 DEF SoundSubs
  <2>6. SoundRows(z, main, extra)
    BY <2>1 DEF SoundRows
  <2> QED
    BY <2>1, <2>5, <2>6
<1>5. CASE Creating(p)
  <2>1. /\ w.at = "drop" /\ w.todo = {} /\ z.op = w.op /\ z.r = w.r
        /\ main' = main /\ extra' = extra
    BY <1>5 DEF Creating, Turn, Rest
  <2>2. ~\E s \in subs : s.on = w.r
    BY <2>1 DEF SoundSubs, Covered
  <2>3. /\ Adds(w.r) /\ z.at = "raid" /\ z.todo = {s \in w.raids : s.is = "failed"}
        /\ z.raids = w.raids
    BY <1>5, <2>2 DEF Creating, Turn
  <2>4. w.r # Raid
    BY <1>0, <2>1 DEF IsWork, Allowed, Rewards
  <2>5. Lives(subs', w.r) /\ \A d \in z.todo : d.on = Raid
    BY <2>1, <2>3, AddLives DEF SoundSubs
  <2>6. AllFailed(w.raids) => z.todo = w.raids /\ Covered(subs', z.todo, Raid)
    <3>1. AllFailed(w.raids) => z.todo = w.raids
      BY <2>3 DEF AllFailed
    <3>2. AllFailed(w.raids) => Covered(subs, w.raids, Raid)
      BY <2>1 DEF SoundSubs
    <3> QED
      BY <2>3, <2>4, <3>1, <3>2, AddLives
  <2>7. ~AllFailed(w.raids) => z.todo = {} /\ Lives(subs', Raid)
    <3>1. ~AllFailed(w.raids) => z.todo = {}
      BY <2>1, <2>3 DEF AllFailed, SoundSubs
    <3>2. ~AllFailed(w.raids) => Lives(subs, Raid)
      BY <2>1 DEF SoundSubs
    <3> QED
      BY <2>3, <3>1, <3>2, AddLives
  <2>8. SoundSubs(z, subs')
    BY <2>3, <2>1, <2>5, <2>6, <2>7 DEF SoundSubs
  <2>9. SoundRows(z, main, extra)
    BY <2>1, <2>3 DEF SoundRows
  <2> QED
    BY <2>1, <2>8, <2>9
<1>6. CASE Ensuring(p)
  <2>1. /\ w.at = "raid" /\ w.todo = {} /\ z.at = "told" /\ z.op = w.op /\ z.r = w.r
        /\ main' = main /\ extra' = extra /\ Lives(subs, w.r)
    BY <1>6 DEF Ensuring, Turn, Rest, SoundSubs
  <2>2. AllFailed(w.raids) => ~\E s \in subs : s.on = Raid
    BY <2>1 DEF SoundSubs, Covered
  <2>3. \/ ~AllFailed(w.raids) /\ subs' = subs
        \/ AllFailed(w.raids) /\ Adds(Raid)
    BY <1>6, <2>2 DEF Ensuring, AllFailed
  <2>4. Lives(subs', w.r) /\ Lives(subs', Raid)
    BY <2>1, <2>3, AddLives DEF SoundSubs
  <2>5. SoundSubs(z, subs')
    BY <2>1, <2>4 DEF SoundSubs
  <2>6. SoundRows(z, main, extra)
    BY <2>1 DEF SoundRows
  <2> QED
    BY <2>1, <2>5, <2>6
<1> QED
  BY <1>1, <1>2, <1>3, <1>4, <1>5, <1>6

\* The settings and the rewards.
LEMMA RowsSound ==
    ASSUME Rewards, SetupTypes, NEW p \in Page,
           \/ Setting(p) \/ Telling(p) \/ Inserting(p) \/ DeletingRow(p) \/ DeletingRows(p)
           \/ Fetching(p),
           SoundSubs(work[p], subs), SoundRows(work[p], main, extra)
    PROVE  SoundSubs(work'[p], subs') /\ SoundRows(work'[p], main', extra')
<1> DEFINE w == work[p]
           z == work'[p]
<1>0. IsWork(w) /\ subs' = subs /\ z.op = w.op /\ z.r = w.r
  BY DEF SetupTypes, WorkHolds, Setting, Telling, Inserting, DeletingRow, DeletingRows,
     Fetching, Turn
<1>1. /\ w.op \in {"save", "add", "remove"} => w.r # NoReward
      /\ w.op = "disconnect" => w.r = NoReward
  BY <1>0 DEF IsWork, Allowed, SoundRows, Rewards
<1>2. CASE Setting(p)
  BY <1>0, <1>1, <1>2 DEF Setting, Turn, SoundSubs, SoundRows
<1>3. CASE Telling(p)
  BY <1>0, <1>3 DEF Telling, Turn, SoundSubs, SoundRows
<1>4. CASE Inserting(p)
  <2>1. w.op = "add" /\ w.at = "insert" /\ main' = main /\ Lives(subs, w.r) /\ Lives(subs, Raid)
    BY <1>0, <1>4 DEF Inserting, IsWork, Allowed, SoundSubs
  <2>2. (z.at = "rewards" /\ w.r \in extra') \/ z.at = "refused"
    BY <1>4 DEF Inserting, Turn
  <2>3. SoundSubs(z, subs)
    BY <1>0, <2>1, <2>2 DEF SoundSubs
  <2>4. SoundRows(z, main', extra')
    BY <1>0, <2>1, <2>2 DEF SoundRows
  <2> QED
    BY <1>0, <2>3, <2>4
<1>5. CASE DeletingRow(p)
  <2>1. w.op = "remove" /\ w.at = "row" /\ z.at = "rewards" /\ w.r \notin extra'
    BY <1>0, <1>5 DEF DeletingRow, Turn, IsWork, Allowed
  <2> QED
    BY <1>0, <2>1 DEF SoundSubs, SoundRows
<1>6. CASE DeletingRows(p)
  <2>1. w.op = "disconnect" /\ w.at = "rows" /\ z.at = "settings" /\ extra' = {}
    BY <1>0, <1>6 DEF DeletingRows, Turn, IsWork, Allowed
  <2> QED
    BY <1>0, <2>1 DEF SoundSubs, SoundRows
<1>7. CASE Fetching(p)
  <2>1. /\ w.at = "rewards" /\ z.at = "look" /\ extra' = extra /\ main' = main
        /\ w.op \in {"add", "remove"}
    BY <1>0, <1>7 DEF Fetching, Turn, IsWork, Allowed
  <2> QED
    BY <1>0, <2>1 DEF SoundSubs, SoundRows
<1> QED
  BY <1>2, <1>3, <1>4, <1>5, <1>6, <1>7

\* At the first step of an operation nothing is known.
LEMMA FirstSound ==
    ASSUME NEW w, NEW S, NEW m, NEW x,
           \/ w.at = "unlist"
           \/ w.at = "settings" /\ w.op = "save"
           \/ w.at = "list" /\ w.op = "add"
    PROVE  SoundSubs(w, S) /\ SoundRows(w, m, x)
BY DEF SoundSubs, SoundRows

\* What is done when an operation ends.
LEMMA EndsAsked ==
    ASSUME Rewards, SetupTypes, NEW p \in Page, Clearing(p) \/ Looking(p), smooth,
           SoundSubs(work[p], subs), SoundRows(work[p], main, extra)
    PROVE  Asked(last', main', extra', subs')
<1> DEFINE w == work[p]
<1>0. /\ IsWork(w) /\ main' = main /\ extra' = extra /\ subs' = subs
      /\ last'.op = w.op /\ last'.r = w.r
  BY DEF SetupTypes, WorkHolds, Clearing, Looking, Done
<1>1. CASE Clearing(p)
  <2>1. w.op = "disconnect" /\ w.at = "cleared"
    BY <1>0, <1>1 DEF Clearing, IsWork, Allowed
  <2>2. subs = {} /\ extra = {} /\ main = NoReward
    BY <2>1 DEF SoundSubs, SoundRows
  <2> QED
    BY <1>0, <2>1, <2>2 DEF Asked
<1>2. CASE Looking(p)
  <2>1. w.op \in {"save", "add", "remove"} /\ w.at = "look" /\ w.r # NoReward
    BY <1>0, <1>2 DEF Looking, IsWork, Allowed, Rewards
  <2>2. CASE w.op = "save"
    BY <1>0, <2>1, <2>2 DEF Asked, SoundSubs, SoundRows
  <2>3. CASE w.op = "add"
    BY <1>0, <2>1, <2>3 DEF Asked, SoundSubs, SoundRows
  <2>4. CASE w.op = "remove"
    BY <1>0, <2>1, <2>4 DEF Asked, SoundSubs, SoundRows
  <2> QED
    BY <2>1, <2>2, <2>3, <2>4
<1> QED
  BY <1>1, <1>2

LEMMA DoneKept == Rewards /\ DInv /\ SetupStep => DInv'
<1> SUFFICES ASSUME Rewards, DInv, SetupStep PROVE DInv'
  OBVIOUS
<1>0. SetupTypes /\ OneBusy /\ SoundOnes /\ Finished
  BY DEF DInv
<1>1. SetupTypes'
  BY DEF SetupStep, TypesKeep, SetupTypes
<1>2. CASE Stays
  BY <1>0, <1>1, <1>2
  DEF Stays, Rest, Well, DInv, OneBusy, SoundOnes, Finished, Setup!Quiet
<1>3. CASE Marking /\ Ill
  BY <1>1, <1>3 DEF Ill, DInv, OneBusy, SoundOnes, Finished
<1>4. CASE Marking /\ Well
  <2>1. main' = main /\ extra' = extra /\ work' = work /\ (smooth' <=> smooth) /\ last' = last
    BY <1>4 DEF Marking, Well, Rest
  <2>2. ASSUME smooth \/ last.op # NoReward
        PROVE  /\ \A w : SoundSubs(w, subs) => SoundSubs(w, subs')
               /\ \A l, m, x : Asked(l, m, x, subs) => Asked(l, m, x, subs')
    <3>1. /\ \A t : Lives(subs, t) => Lives(subs', t)
          /\ \A T, t : Covered(subs, T, t) => Covered(subs', T, t)
          /\ \A t : Tells(subs', t) <=> Tells(subs, t)
          /\ subs # {}
      BY <1>4, <2>2, MarkingKeeps
    <3> QED
      BY <3>1, MarkingSound
  <2>3. OneBusy'
    BY <1>0, <2>1 DEF OneBusy
  <2>4. SoundOnes'
    BY <1>0, <2>1, <2>2 DEF SoundOnes
  <2>5. Finished'
    BY <1>0, <2>1, <2>2 DEF Finished, Setup!Quiet
  <2> QED
    BY <1>1, <2>3, <2>4, <2>5 DEF DInv
<1>5. ASSUME NEW p \in Page, Moves(p) PROVE DInv'
  <2>1. CASE Viewing(p)
    BY <1>0, <1>1, <2>1
    DEF Viewing, Well, DInv, OneBusy, SoundOnes, Finished, Setup!Quiet
  <2>2. CASE Beginning(p)
    <3>1. PICK op, r, at : /\ Begins(p, op, r, at)
                           /\ \/ at = "unlist"
                              \/ at = "settings" /\ op = "save"
                              \/ at = "list" /\ op = "add"
      BY <2>2 DEF Beginning
    <3>2. ASSUME smooth' PROVE \A q \in Page : q # p => work'[q].at = "idle"
      BY <3>1, <3>2 DEF Begins, OthersWork, Setup!Quiet
    <3>3. SoundSubs(work'[p], subs') /\ SoundRows(work'[p], main', extra')
      BY <3>1, FirstSound DEF Begins
    <3>4. last'.op = NoReward
      BY <3>1 DEF Begins
    <3> QED
      BY <1>1, <3>2, <3>3, <3>4 DEF DInv, OneBusy, SoundOnes, Finished
  <2>3. ASSUME work[p].at # "idle", smooth, OthersWork(p)
        PROVE  /\ \A q \in Page : q # p => work'[q].at = "idle"
               /\ last.op = NoReward
               /\ SoundSubs(work[p], subs) /\ SoundRows(work[p], main, extra)
    BY <1>0, <2>3 DEF OneBusy, SoundOnes, Finished, OthersWork, Setup!Quiet
  <2>4. CASE Strays(p) /\ work[p].at # "idle"
    <3>1. ~smooth'
      BY <2>3, <2>4 DEF Strays, Ill, SoundRows
    <3>2. last'.op = NoReward
      BY <1>0, <2>4 DEF Strays, Ill, Finished, Setup!Quiet
    <3> QED
      BY <1>1, <3>1, <3>2 DEF DInv, OneBusy, SoundOnes, Finished
  <2>5. CASE Working(p) /\ Well
    <3>1. work[p].at # "idle" /\ OthersWork(p)
      BY <2>5 DEF Working, Unlisting, Dropping, Unlisted, Listing, Creating, Ensuring, Setting,
         Telling, Inserting, DeletingRow, DeletingRows, Fetching, Turn
    <3>2. last'.op = NoReward
      BY <1>0, <2>5, <3>1 DEF Well, Finished, Setup!Quiet
    <3>3. CASE smooth
      <4>1. SoundSubs(work'[p], subs') /\ SoundRows(work'[p], main', extra')
        BY <1>0, <2>3, <2>5, <3>1, <3>3, CallsSound, RowsSound DEF Working
      <4> QED
        BY <1>1, <2>3, <3>1, <3>2, <3>3, <4>1 DEF DInv, OneBusy, SoundOnes, Finished
    <3>4. CASE ~smooth
      BY <1>1, <2>5, <3>2, <3>4 DEF Well, DInv, OneBusy, SoundOnes, Finished
    <3> QED
      BY <3>3, <3>4
  <2>6. CASE Refused(p) \/ Clearing(p) \/ Looking(p)
    <3>1. /\ work[p].at # "idle" /\ OthersWork(p) /\ work'[p].at = "idle"
          /\ (smooth' <=> smooth)
      BY <2>6 DEF Refused, Clearing, Looking, Ends
    <3>2. CASE smooth
      <4>1. OneBusy' /\ SoundOnes'
        BY <2>3, <3>1, <3>2 DEF OneBusy, SoundOnes
      <4>2. Setup!Quiet'
        BY <2>3, <3>1, <3>2 DEF Setup!Quiet
      <4>3. last'.op # NoReward => Asked(last', main', extra', subs')
        BY <1>0, <2>3, <2>6, <3>1, <3>2, EndsAsked DEF Refused
      <4> QED
        BY <1>1, <4>1, <4>2, <4>3 DEF DInv, Finished
    <3>3. CASE ~smooth
      <4>1. last'.op = NoReward
        BY <2>6, <3>3 DEF Refused, Clearing, Looking, Done
      <4> QED
        BY <1>1, <3>1, <3>3, <4>1 DEF DInv, OneBusy, SoundOnes, Finished
    <3> QED
      BY <3>2, <3>3
  <2> QED
    BY <1>5, <2>1, <2>2, <2>4, <2>5, <2>6 DEF Moves
<1> QED
  BY <1>2, <1>3, <1>4, <1>5 DEF SetupStep, Marking

LEMMA SetupInitially == Rewards /\ Setup!Init => DInv
<1> SUFFICES ASSUME Rewards, Setup!Init PROVE DInv
  OBVIOUS
<1>1. PlacesHold(main, extra) /\ trouble \in Nat
  BY DEF Setup!Init, PlacesHold, NoReward
<1>2. \A p \in Page : IsWork(Setup!Idle) /\ Setup!Idle.at = "idle"
  BY DEF Setup!Idle, IsWork
<1>3. /\ work = [p \in Page |-> Setup!Idle] /\ last = Setup!Ended(NoReward, NoReward)
      /\ view = [p \in Page |-> Setup!Shown(p, main, extra, subs)]
  BY DEF Setup!Init, NoReward
<1>4. WorkHolds(work) /\ Setup!Quiet
  BY <1>2, <1>3 DEF WorkHolds, Setup!Quiet
<1>5. \A p \in Page : IsView(Setup!Shown(p, main, extra, subs))
  BY <1>1 DEF IsView, Setup!Shown, PlacesHold
<1>6. ViewsHold(view)
  BY <1>3, <1>5 DEF ViewsHold
<1>7. SubsHold(subs)
  <2>1. PICK T : /\ T \subseteq Reward \cup {Raid}
                 /\ subs = {[id |-> 1, on |-> t, is |-> "enabled"] : t \in T}
    <3>1. /\ (IF main = NoReward THEN {} ELSE Setup!Configured \cup {Raid})
                 \subseteq Reward \cup {Raid}
          /\ subs = {[id |-> 1, on |-> t, is |-> "enabled"] :
                       t \in IF main = NoReward THEN {} ELSE Setup!Configured \cup {Raid}}
      BY <1>1 DEF Setup!Init, Setup!Configured, PlacesHold, NoReward, Raid
    <3> QED
      BY <3>1
  <2>2. ASSUME NEW s \in subs
        PROVE  \E t \in T : s = [id |-> 1, on |-> t, is |-> "enabled"]
    BY <2>1, <2>2
  <2> QED
    BY <2>1, <2>2 DEF SubsHold, IsSub
<1>8. last.op = NoReward
  BY <1>3 DEF Setup!Ended
<1>9. OneBusy /\ SoundOnes
  BY <1>4 DEF OneBusy, SoundOnes, Setup!Quiet
<1> QED
  BY <1>1, <1>4, <1>6, <1>7, <1>8, <1>9 DEF DInv, SetupTypes, Finished

LEMMA DoneInvariance == ASSUME Rewards PROVE Setup!Spec => []DInv
<1>1. DInv /\ [Setup!Next]_(Setup!vars) => DInv'
  BY SetupSteps, DoneKept DEF DInv
<1> QED
  BY <1>1, SetupInitially, PTL DEF Setup!Spec

(* An operation on the rewards that met no failure and no other page has   *)
(* done what it was asked for, whatever earlier ones have left behind: the *)
(* reward and the raids have a subscription that has not failed, or the    *)
(* reward is gone from both places, or everything is.                      *)
THEOREM SmoothIsDone == ASSUME Rewards PROVE Setup!Spec => []Setup!DoneIsDone
<1>1. DInv => Setup!DoneIsDone
  <2> SUFFICES ASSUME DInv, last.op # NoReward PROVE Setup!DoneIsDone
    BY DEF Setup!DoneIsDone, NoReward, Setup!NoReward
  <2>1. Asked(last, main, extra, subs)
    BY DEF DInv, Finished
  <2>2. \A t : Setup!Alive(t) <=> Lives(subs, t)
    BY DEF Setup!Alive, Setup!On, Lives
  <2>3. \A t : Setup!On(subs, t) = {} <=> \A s \in subs : s.on # t
    BY DEF Setup!On
  <2>4. Setup!Configured = extra \cup ({main} \ {NoReward})
    BY DEF Setup!Configured, NoReward
  <2> QED
    BY <2>1, <2>2, <2>3, <2>4 DEF Asked, Setup!DoneIsDone, Raid
<1> QED
  BY <1>1, DoneInvariance, PTL

(*---------------------------------------------------------------------------*)
(* One page, a full one, and nothing has failed.                             *)

SinglePage == Page # {} /\ Compact = {} /\ \A p, q \in Page : p = q

\* What the page shows, against the rewards and the subscriptions.
AgreeIdle(v, m, x, S) ==
    /\ \A t \in Reward : Tells(S, t) <=> t \in x \/ t = m
    /\ m \notin x
    /\ m # NoReward => Lives(S, Raid)
    /\ m = NoReward => v.status # "active"
    /\ v.saved = m /\ v.extra = x
    /\ \A t \in Reward \cup {Raid} : t \in v.seen <=> Tells(S, t)

AgreeSave(w, v, m, x, S) ==
    /\ v.extra = x /\ w.r \notin x
    /\ IF w.at \in {"unlist", "undrop"}
       THEN /\ m \notin {NoReward, w.r} /\ m \notin x /\ v.saved = m
            /\ \A t \in Reward \ {m} : Tells(S, t) <=> t \in x
            /\ w.at = "undrop" => /\ \A d \in w.todo : d.on = m
                                  /\ Covered(S, w.todo, m)
       ELSE \A t \in Reward \ {w.r} : Tells(S, t) <=> t \in x
    /\ w.at = "look" => v.saved = w.r

AgreeAdd(w, v, m, x, S) ==
    /\ m # NoReward /\ m \notin x /\ v.saved = m
    /\ w.at # "rewards" => v.extra = x
    /\ w.at \notin {"rewards", "look"} => /\ w.r \notin x
                                          /\ \A t \in Reward \cup {Raid} :
                                               t \in v.seen <=> t \in x \/ t = m \/ t = Raid
    /\ \A t \in Reward \ {w.r} : Tells(S, t) <=> t \in x \/ t = m
    /\ w.at = "refused" => w.r = m

AgreeRemove(w, v, m, x, S) ==
    /\ m # NoReward /\ m \notin x /\ m # w.r /\ v.saved = m
    /\ w.at # "rewards" => v.extra = x
    /\ Lives(S, Raid)
    /\ \A t \in Reward \ {w.r} : Tells(S, t) <=> t \in x \/ t = m

AgreeAt(w, v, m, x, S) ==
    /\ w.at = "idle" => AgreeIdle(v, m, x, S)
    /\ w.at # "idle" => /\ w.op = "save" => AgreeSave(w, v, m, x, S)
                        /\ w.op = "add" => AgreeAdd(w, v, m, x, S)
                        /\ w.op = "remove" => AgreeRemove(w, v, m, x, S)
                        /\ w.at = "refused" => w.op = "add"

AgreeInv ==
    trouble = 0 =>
      smooth /\ \A p \in Page : AgreeAt(work[p], view[p], main, extra, subs)

LEMMA MarkingAgrees ==
    ASSUME NEW S, NEW U, \A t : Lives(S, t) => Lives(U, t),
           \A T, t : Covered(S, T, t) => Covered(U, T, t), \A t : Tells(U, t) <=> Tells(S, t)
    PROVE  \A w, v, m, x : AgreeAt(w, v, m, x, S) => AgreeAt(w, v, m, x, U)
<1>1. ASSUME NEW v, NEW m, NEW x, AgreeIdle(v, m, x, S) PROVE AgreeIdle(v, m, x, U)
  BY <1>1 DEF AgreeIdle
<1>2. ASSUME NEW w, NEW v, NEW m, NEW x, AgreeSave(w, v, m, x, S)
      PROVE  AgreeSave(w, v, m, x, U)
  BY <1>2 DEF AgreeSave
<1>3. ASSUME NEW w, NEW v, NEW m, NEW x, AgreeAdd(w, v, m, x, S)
      PROVE  AgreeAdd(w, v, m, x, U)
  BY <1>3 DEF AgreeAdd
<1>4. ASSUME NEW w, NEW v, NEW m, NEW x, AgreeRemove(w, v, m, x, S)
      PROVE  AgreeRemove(w, v, m, x, U)
  BY <1>4 DEF AgreeRemove
<1> QED
  BY <1>1, <1>2, <1>3, <1>4 DEF AgreeAt

\* A page alone, looked at; and its first step.
LEMMA ViewingAgrees ==
    ASSUME Rewards, SetupTypes, NEW p \in Page, p \notin Compact, Viewing(p),
           AgreeIdle(view[p], main, extra, subs)
    PROVE  AgreeIdle(view'[p], main', extra', subs')
<1>1. main' = main /\ extra' = extra /\ subs' = subs
  BY DEF Viewing
<1>2. CASE /\ view'[p].saved = view[p].saved /\ view'[p].extra = view[p].extra
           /\ view'[p].seen = view[p].seen /\ view'[p].status = view[p].status
  BY <1>1, <1>2 DEF AgreeIdle
<1>3. CASE /\ view'[p].saved = main /\ view'[p].extra = extra
           /\ view'[p].seen = {s.on : s \in subs}
           /\ view'[p].status = Setup!Status(subs, main)
  <2>1. main = NoReward => Setup!Status(subs, main) # "active"
    <3>1. main = NoReward => ~\E s \in Setup!On(subs, main) : s.is = "enabled"
      BY DEF Setup!On, SetupTypes, SubsHold, IsSub, Rewards, NoReward, Raid, Setup!NoReward,
         Setup!Raid
    <3> QED
      BY <3>1 DEF Setup!Status, NoReward, Setup!NoReward
  <2>2. \A t : t \in view'[p].seen <=> Tells(subs, t)
    BY <1>3 DEF Tells
  <2> QED
    BY <1>1, <1>3, <2>1, <2>2 DEF AgreeIdle
<1> QED
  BY <1>2, <1>3 DEF Viewing

LEMMA BeginningAgrees ==
    ASSUME Rewards, SetupTypes, NEW p \in Page, Beginning(p),
           AgreeIdle(view[p], main, extra, subs)
    PROVE  AgreeAt(work'[p], view'[p], main', extra', subs')
<1> DEFINE v == view[p]
           z == work'[p]
<1>0. PlacesHold(main, extra) /\ IsView(v)
  BY DEF SetupTypes, ViewsHold
<1>1. main' = main /\ extra' = extra /\ subs' = subs /\ view' = view
  BY DEF Beginning, Begins, Rest
<1>2. main # NoReward => Tells(subs, Raid) /\ Tells(subs, main)
  BY <1>0 DEF AgreeIdle, Lives, Tells, PlacesHold
<1>3. CASE /\ v.picked \in Reward /\ v.picked \notin v.extra
           /\ z.op = "save" /\ z.r = v.picked
           /\ \/ z.at = "unlist" /\ v.saved \notin {NoReward, v.picked}
              \/ /\ z.at = "settings"
                 /\ v.saved \in {NoReward, v.picked} \/ v.saved \notin v.seen
  <2>1. v.saved = main /\ v.extra = extra
    BY DEF AgreeIdle
  <2>2. z.at = "settings" => main \in {NoReward, z.r}
    BY <1>0, <1>2, <1>3, <2>1 DEF AgreeIdle, PlacesHold
  <2>3. AgreeSave(z, v, main, extra, subs)
    <3>1. CASE z.at = "unlist"
      BY <1>0, <1>3, <2>1, <3>1 DEF AgreeSave, AgreeIdle, PlacesHold, Rewards
    <3>2. CASE z.at = "settings"
      BY <1>0, <1>3, <2>1, <2>2, <3>2 DEF AgreeSave, AgreeIdle, PlacesHold, Rewards
    <3> QED
      BY <1>3, <3>1, <3>2
  <2> QED
    BY <1>1, <1>3, <2>3 DEF AgreeAt
<1>4. CASE z.op = "add" /\ z.at = "list" /\ z.r \in Reward \ v.extra /\ v.status = "active"
  <2>1. main # NoReward
    BY <1>4 DEF AgreeIdle
  <2>2. AgreeAdd(z, v, main, extra, subs)
    BY <1>2, <1>4, <2>1, <1>0 DEF AgreeAdd, AgreeIdle, PlacesHold, Rewards
  <2> QED
    BY <1>1, <1>4, <2>2 DEF AgreeAt
<1>5. CASE z.op = "remove" /\ z.at = "unlist" /\ z.r \in v.extra /\ v.status = "active"
  <2>1. main # NoReward
    BY <1>5 DEF AgreeIdle
  <2>2. AgreeRemove(z, v, main, extra, subs)
    BY <1>2, <1>5, <2>1 DEF AgreeRemove, AgreeIdle
  <2> QED
    BY <1>1, <1>5, <2>2 DEF AgreeAt
<1>6. CASE z.op = "disconnect" /\ z.at = "unlist"
  BY <1>6 DEF AgreeAt
<1> QED
  BY <1>3, <1>4, <1>5, <1>6 DEF Beginning, Begins

\* The subscriptions an operation deletes and creates are those of one reward.
LEMMA DropAgrees ==
    ASSUME Rewards, SetupTypes, NEW p \in Page, Dropping(p), work[p].at # "clean",
           SoundSubs(work[p], subs), AgreeAt(work[p], view[p], main, extra, subs)
    PROVE  AgreeAt(work'[p], view'[p], main', extra', subs')
<1> DEFINE w == work[p]
           z == work'[p]
           v == view[p]
<1>1. PICK s \in w.todo :
        /\ z.at = w.at /\ z.op = w.op /\ z.r = w.r /\ z.todo = w.todo \ {s}
        /\ subs' = {t \in subs : ~(t.on = s.on /\ t.id = s.id)}
  BY DEF Dropping, Turn
<1>2. /\ main' = main /\ extra' = extra /\ view' = view /\ IsWork(w)
      /\ w.at \in {"undrop", "drop", "raid"}
  BY DEF SetupTypes, WorkHolds, Dropping, Rest
<1>3. \A t : t # s.on => (Tells(subs', t) <=> Tells(subs, t)) /\ (Lives(subs, t) => Lives(subs', t))
  BY <1>1 DEF Tells, Lives
<1>4. \A t : Covered(subs, w.todo, t) => Covered(subs', z.todo, t)
  BY <1>1 DEF Covered
<1>5. CASE w.op = "save"
  <2>1. AgreeSave(w, v, main, extra, subs)
    BY <1>2, <1>5 DEF AgreeAt
  <2>2. CASE w.at = "undrop"
    <3>1. s.on = main /\ s \in w.todo
      BY <1>1, <2>1, <2>2 DEF AgreeSave
    <3>2. AgreeSave(z, v, main, extra, subs')
      BY <1>1, <1>3, <1>4, <2>1, <2>2, <3>1 DEF AgreeSave
    <3> QED
      BY <1>1, <1>2, <1>5, <3>2 DEF AgreeAt
  <2>3. CASE w.at \in {"drop", "raid"}
    <3>1. s.on \in {w.r, Raid}
      BY <1>1, <2>3 DEF SoundSubs
    <3>2. AgreeSave(z, v, main, extra, subs')
      BY <1>1, <1>3, <2>1, <2>3, <3>1 DEF AgreeSave, Rewards
    <3> QED
      BY <1>1, <1>2, <1>5, <3>2 DEF AgreeAt
  <2> QED
    BY <1>2, <2>2, <2>3
<1>6. CASE w.op = "add"
  <2>1. AgreeAdd(w, v, main, extra, subs) /\ w.at \in {"drop", "raid"}
    BY <1>2, <1>6 DEF AgreeAt, IsWork, Allowed
  <2>2. s.on \in {w.r, Raid}
    BY <1>1, <2>1 DEF SoundSubs
  <2>3. AgreeAdd(z, v, main, extra, subs')
    BY <1>1, <1>3, <2>1, <2>2 DEF AgreeAdd, Rewards
  <2> QED
    BY <1>1, <1>2, <1>6, <2>1, <2>3 DEF AgreeAt
<1>7. CASE w.op = "remove"
  <2>1. AgreeRemove(w, v, main, extra, subs) /\ w.at = "undrop" /\ w.r \in Reward
    BY <1>2, <1>7 DEF AgreeAt, IsWork, Allowed
  <2>2. s.on = w.r
    BY <1>1, <1>7, <2>1 DEF SoundSubs
  <2>3. AgreeRemove(z, v, main, extra, subs')
    BY <1>1, <1>3, <2>1, <2>2 DEF AgreeRemove, Rewards
  <2> QED
    BY <1>1, <1>2, <1>7, <2>1, <2>3 DEF AgreeAt
<1>8. CASE w.op = "disconnect"
  BY <1>1, <1>2, <1>8 DEF AgreeAt
<1> QED
  BY <1>2, <1>5, <1>6, <1>7, <1>8 DEF IsWork, Allowed

\* Steps that set up subscriptions: only the reward's, and that to raids.
LEMMA CallsAgree ==
    ASSUME Rewards, SetupTypes, NEW p \in Page,
           \/ Unlisting(p) \/ Unlisted(p) \/ Listing(p) \/ Creating(p) \/ Ensuring(p),
           SoundSubs(work[p], subs), AgreeAt(work[p], view[p], main, extra, subs)
    PROVE  AgreeAt(work'[p], view'[p], main', extra', subs')
<1> DEFINE w == work[p]
           z == work'[p]
           v == view[p]
<1>0. /\ IsWork(w) /\ main' = main /\ extra' = extra /\ view' = view
      /\ z.op = w.op /\ z.r = w.r /\ w.at # "idle"
  BY DEF SetupTypes, WorkHolds, Unlisting, Unlisted, Listing, Creating, Ensuring, Rest, Turn
<1>1. CASE Unlisting(p)
  <2>1. /\ w.at = "unlist" /\ z.at = "undrop" /\ subs' = subs
        /\ z.todo = {s \in subs : s.on \in Setup!Target(p)}
    BY <1>1 DEF Unlisting, Turn
  <2>2. w.op = "save" => AgreeSave(z, v, main, extra, subs)
    <3>1. ASSUME w.op = "save" PROVE Setup!Target(p) = {main}
      BY <2>1, <3>1 DEF Setup!Target, AgreeAt, AgreeSave
    <3>2. w.op = "save" => Covered(subs, z.todo, main) /\ \A d \in z.todo : d.on = main
      BY <2>1, <3>1 DEF Covered
    <3> QED
      BY <1>0, <2>1, <3>2 DEF AgreeAt, AgreeSave
  <2>3. w.op = "remove" => AgreeRemove(z, v, main, extra, subs)
    BY <1>0, <2>1 DEF AgreeAt, AgreeRemove
  <2>4. w.op # "add"
    BY <1>0, <2>1 DEF IsWork, Allowed
  <2> QED
    BY <1>0, <2>1, <2>2, <2>3, <2>4 DEF AgreeAt
<1>2. CASE Unlisted(p)
  <2>1. /\ w.at = "undrop" /\ w.todo = {} /\ subs' = subs
        /\ \/ w.op = "save" /\ z.at = "settings"
           \/ w.op = "remove" /\ z.at = "row"
           \/ w.op = "disconnect" /\ z.at = "rows"
    BY <1>2 DEF Unlisted, Turn
  <2>2. w.op = "save" => AgreeSave(z, v, main, extra, subs)
    <3>1. w.op = "save" => ~Tells(subs, main)
      BY <2>1 DEF AgreeAt, AgreeSave, Covered, Tells
    <3> QED
      BY <1>0, <2>1, <3>1 DEF AgreeAt, AgreeSave
  <2>3. w.op = "remove" => AgreeRemove(z, v, main, extra, subs)
    BY <1>0, <2>1 DEF AgreeAt, AgreeRemove
  <2> QED
    BY <1>0, <2>1, <2>2, <2>3 DEF AgreeAt
<1>3. CASE Listing(p)
  <2>1. w.at = "list" /\ z.at = "drop" /\ subs' = subs /\ w.op \in {"save", "add"}
    BY <1>0, <1>3 DEF Listing, Turn, IsWork, Allowed
  <2>2. w.op = "save" => AgreeSave(z, v, main, extra, subs)
    BY <1>0, <2>1 DEF AgreeAt, AgreeSave
  <2>3. w.op = "add" => AgreeAdd(z, v, main, extra, subs)
    BY <1>0, <2>1 DEF AgreeAt, AgreeAdd
  <2> QED
    BY <1>0, <2>1, <2>2, <2>3 DEF AgreeAt
<1>4. CASE Creating(p) \/ Ensuring(p)
  <2>1. /\ w.at \in {"drop", "raid"} /\ z.at \in {"raid", "recheck", "told"}
        /\ w.op \in {"save", "add"}
    BY <1>0, <1>4 DEF Creating, Ensuring, Turn, IsWork, Allowed
  <2>2. \A t \in Reward \ {w.r} : Tells(subs', t) <=> Tells(subs, t)
    BY <1>4, AddLives DEF Creating, Ensuring, Rewards
  <2>3. w.op = "save" => AgreeSave(z, v, main, extra, subs')
    BY <1>0, <2>1, <2>2 DEF AgreeAt, AgreeSave
  <2>4. w.op = "add" => AgreeAdd(z, v, main, extra, subs')
    BY <1>0, <2>1, <2>2 DEF AgreeAt, AgreeAdd
  <2> QED
    BY <1>0, <2>1, <2>3, <2>4 DEF AgreeAt
<1> QED
  BY <1>1, <1>2, <1>3, <1>4

LEMMA RowsAgree ==
    ASSUME Rewards, SetupTypes, NEW p \in Page,
           \/ Setting(p) \/ Telling(p) \/ Inserting(p) \/ DeletingRow(p) \/ DeletingRows(p)
           \/ Fetching(p),
           SoundSubs(work[p], subs), SoundRows(work[p], main, extra),
           AgreeAt(work[p], view[p], main, extra, subs)
    PROVE  AgreeAt(work'[p], view'[p], main', extra', subs')
<1> DEFINE w == work[p]
           z == work'[p]
           v == view[p]
<1>0. /\ IsWork(w) /\ subs' = subs /\ z.op = w.op /\ z.r = w.r /\ w.at # "idle"
      /\ IsView(v)
  BY DEF SetupTypes, WorkHolds, ViewsHold, Setting, Telling, Inserting, DeletingRow,
     DeletingRows, Fetching, Turn
<1>1. CASE Setting(p)
  <2>1. /\ w.at = "settings" /\ extra' = extra /\ view' = view
        /\ \/ w.op = "save" /\ z.at = "list"
           \/ w.op = "disconnect" /\ z.at = "cleared"
    BY <1>1 DEF Setting, Turn
  <2>2. w.op = "save" => AgreeSave(z, v, main', extra, subs)
    BY <1>0, <2>1 DEF AgreeAt, AgreeSave
  <2> QED
    BY <1>0, <2>1, <2>2 DEF AgreeAt
<1>2. CASE Telling(p)
  <2>1. /\ w.at = "told" /\ extra' = extra /\ main' = main
        /\ \/ /\ w.op = "save" /\ z.at = "look" /\ view'[p].saved = w.r
              /\ view'[p].extra = v.extra
           \/ w.op = "add" /\ z.at = "insert" /\ view' = view
    BY <1>2 DEF Telling, Turn
  <2>2. w.op = "save" => AgreeSave(z, view'[p], main, extra, subs)
    BY <1>0, <2>1 DEF AgreeAt, AgreeSave
  <2>3. w.op = "add" => AgreeAdd(z, v, main, extra, subs)
    BY <1>0, <2>1 DEF AgreeAt, AgreeAdd
  <2> QED
    BY <1>0, <2>1, <2>2, <2>3 DEF AgreeAt
<1>3. CASE Inserting(p)
  <2>1. /\ w.at = "insert" /\ w.op = "add" /\ main' = main /\ view' = view
        /\ AgreeAdd(w, v, main, extra, subs)
    BY <1>0, <1>3 DEF Inserting, IsWork, Allowed, AgreeAt
  <2>2. Setup!Refusable(p) <=> main = w.r
    BY <2>1 DEF Setup!Refusable, AgreeAdd, NoReward
  <2>3. AgreeAdd(z, v, main, extra', subs)
    <3>1. CASE z.at = "rewards" /\ extra' = extra \cup {w.r} /\ main # w.r
      BY <1>0, <2>1, <3>1 DEF AgreeAdd
    <3>2. CASE z.at = "refused" /\ extra' = extra /\ main = w.r
      BY <1>0, <2>1, <3>2 DEF AgreeAdd
    <3> QED
      BY <1>3, <2>2, <3>1, <3>2 DEF Inserting, Turn
  <2>4. z.at \in {"rewards", "refused"}
    BY <1>3 DEF Inserting, Turn
  <2> QED
    BY <1>0, <2>1, <2>3, <2>4 DEF AgreeAt
<1>4. CASE DeletingRow(p)
  <2>1. /\ w.at = "row" /\ w.op = "remove" /\ z.at = "rewards" /\ main' = main
        /\ view' = view /\ extra' = extra \ {w.r} /\ AgreeRemove(w, v, main, extra, subs)
    BY <1>0, <1>4 DEF DeletingRow, Turn, IsWork, Allowed, AgreeAt
  <2>2. AgreeRemove(z, v, main, extra', subs)
    BY <1>0, <2>1 DEF AgreeRemove
  <2> QED
    BY <1>0, <2>1, <2>2 DEF AgreeAt
<1>5. CASE DeletingRows(p)
  <2>1. w.op = "disconnect" /\ z.at = "settings"
    BY <1>0, <1>5 DEF DeletingRows, Turn, IsWork, Allowed
  <2> QED
    BY <1>0, <2>1 DEF AgreeAt
<1>6. CASE Fetching(p)
  <2>1. /\ w.at = "rewards" /\ z.at = "look" /\ extra' = extra /\ main' = main
        /\ view'[p].extra = extra /\ view'[p].saved = v.saved /\ w.op \in {"add", "remove"}
    BY <1>0, <1>6 DEF Fetching, Turn, IsWork, Allowed
  <2>2. w.op = "add" => AgreeAdd(z, view'[p], main, extra, subs)
    BY <1>0, <2>1 DEF AgreeAt, AgreeAdd
  <2>3. w.op = "remove" => AgreeRemove(z, view'[p], main, extra, subs)
    BY <1>0, <2>1 DEF AgreeAt, AgreeRemove
  <2> QED
    BY <1>0, <2>1, <2>2, <2>3 DEF AgreeAt
<1> QED
  BY <1>1, <1>2, <1>3, <1>4, <1>5, <1>6

\* An operation ends, and everything agrees again.
LEMMA EndsAgree ==
    ASSUME Rewards, SetupTypes, NEW p \in Page, Refused(p) \/ Clearing(p) \/ Looking(p),
           SoundSubs(work[p], subs), SoundRows(work[p], main, extra),
           AgreeAt(work[p], view[p], main, extra, subs)
    PROVE  work'[p].at = "idle" /\ AgreeIdle(view'[p], main', extra', subs')
<1> DEFINE w == work[p]
           u == view'[p]
<1>0. /\ IsWork(w) /\ main' = main /\ extra' = extra /\ subs' = subs /\ work'[p].at = "idle"
      /\ PlacesHold(main, extra)
  BY DEF SetupTypes, WorkHolds, Refused, Clearing, Looking, Ends, Rest
<1>1. CASE Refused(p)
  <2>1. /\ w.at = "refused" /\ w.op = "add" /\ u = view[p] /\ w.r = main
        /\ AgreeAdd(w, u, main, extra, subs)
    BY <1>1 DEF Refused, Rest, AgreeAt, AgreeAdd
  <2>2. Lives(subs, main) /\ Lives(subs, Raid)
    BY <2>1 DEF SoundSubs
  <2>3. Tells(subs, main) /\ Tells(subs, Raid)
    BY <2>2 DEF Lives, Tells
  <2> QED
    BY <1>0, <2>1, <2>2, <2>3 DEF AgreeAdd, AgreeIdle, Rewards
<1>2. CASE Clearing(p)
  <2>1. w.op = "disconnect" /\ w.at = "cleared"
    BY <1>0, <1>2 DEF Clearing, IsWork, Allowed
  <2>2. subs = {} /\ extra = {} /\ main = NoReward
    BY <2>1 DEF SoundSubs, SoundRows
  <2>3. u.saved = NoReward /\ u.extra = {} /\ u.seen = {} /\ u.status # "active"
    BY <1>2 DEF Clearing, NoReward, Setup!NoReward
  <2> QED
    BY <1>0, <2>2, <2>3 DEF AgreeIdle, Tells, Rewards
<1>3. CASE Looking(p)
  <2>1. /\ w.op \in {"save", "add", "remove"} /\ w.at = "look" /\ w.r \in Reward
        /\ u.saved = view[p].saved /\ u.extra = view[p].extra
        /\ u.seen = {s.on : s \in subs}
    BY <1>0, <1>3 DEF Looking, IsWork, Allowed
  <2>2. \A t : t \in u.seen <=> Tells(subs, t)
    BY <2>1 DEF Tells
  <2>3. \A t : Lives(subs, t) => Tells(subs, t)
    BY DEF Lives, Tells
  <2>4. CASE w.op = "save"
    <3>1. main = w.r /\ Lives(subs, w.r) /\ Lives(subs, Raid)
      BY <2>1, <2>4 DEF SoundSubs, SoundRows
    <3>2. AgreeSave(w, view[p], main, extra, subs)
      BY <2>1, <2>4 DEF AgreeAt
    <3> QED
      BY <1>0, <2>1, <2>2, <2>3, <3>1, <3>2 DEF AgreeSave, AgreeIdle, Rewards
  <2>5. CASE w.op = "add"
    <3>1. w.r \in extra /\ Lives(subs, w.r) /\ Lives(subs, Raid)
      BY <2>1, <2>5 DEF SoundSubs, SoundRows
    <3>2. AgreeAdd(w, view[p], main, extra, subs)
      BY <2>1, <2>5 DEF AgreeAt
    <3> QED
      BY <1>0, <2>1, <2>2, <2>3, <3>1, <3>2 DEF AgreeAdd, AgreeIdle, Rewards
  <2>6. CASE w.op = "remove"
    <3>1. w.r \notin extra /\ ~Tells(subs, w.r)
      BY <2>1, <2>6 DEF SoundSubs, SoundRows, Tells
    <3>2. AgreeRemove(w, view[p], main, extra, subs)
      BY <2>1, <2>6 DEF AgreeAt
    <3> QED
      BY <1>0, <2>1, <2>2, <2>3, <3>1, <3>2 DEF AgreeRemove, AgreeIdle, Rewards
  <2> QED
    BY <2>1, <2>4, <2>5, <2>6
<1> QED
  BY <1>1, <1>2, <1>3

LEMMA AgreeKept ==
    ASSUME Rewards, SinglePage, DInv, AgreeInv, SetupStep
    PROVE  AgreeInv'
<1> SUFFICES ASSUME trouble' = 0
             PROVE  smooth' /\ \A p \in Page : AgreeAt(work'[p], view'[p], main', extra', subs')
  BY DEF AgreeInv
<1>0. SetupTypes /\ OneBusy /\ SoundOnes /\ trouble \in Nat
  BY DEF DInv, SetupTypes
<1>1. ~Ill
  BY <1>0 DEF Ill
<1>2. trouble = 0 => /\ smooth
                     /\ \A p \in Page : AgreeAt(work[p], view[p], main, extra, subs)
  BY DEF AgreeInv
<1>3. CASE Stays
  BY <1>2, <1>3 DEF Stays, Rest, Well
<1>4. CASE Marking
  <2>1. /\ Well /\ main' = main /\ extra' = extra /\ view' = view /\ work' = work
        /\ smooth /\ smooth' /\ \A p \in Page : AgreeAt(work[p], view[p], main, extra, subs)
    BY <1>1, <1>2, <1>4 DEF Marking, Rest, Well
  <2>2. \A w, v, m, x : AgreeAt(w, v, m, x, subs) => AgreeAt(w, v, m, x, subs')
    <3>1. /\ \A t : Lives(subs, t) => Lives(subs', t)
          /\ \A T, t : Covered(subs, T, t) => Covered(subs', T, t)
          /\ \A t : Tells(subs', t) <=> Tells(subs, t)
      BY <1>4, <2>1, MarkingKeeps
    <3> QED
      BY <3>1, MarkingAgrees
  <2> QED
    BY <2>1, <2>2
<1>5. ASSUME NEW p \in Page, Moves(p)
      PROVE  smooth' /\ \A q \in Page : AgreeAt(work'[q], view'[q], main', extra', subs')
  <2>0. (\A q \in Page : q = p) /\ p \notin Compact
    BY DEF SinglePage
  <2>1. ASSUME trouble' = trouble
        PROVE  smooth /\ AgreeAt(work[p], view[p], main, extra, subs)
    BY <1>2, <2>1
  <2>2. ASSUME smooth, work[p].at # "idle"
        PROVE  SoundSubs(work[p], subs) /\ SoundRows(work[p], main, extra)
    BY <1>0, <2>2 DEF SoundOnes
  <2>3. CASE Viewing(p)
    <3>1. /\ smooth /\ smooth' /\ AgreeIdle(view[p], main, extra, subs)
          /\ work[p].at = "idle" /\ work' = work
      BY <2>1, <2>3 DEF Viewing, Well, AgreeAt
    <3>2. AgreeIdle(view'[p], main', extra', subs')
      BY <1>0, <2>0, <2>3, <3>1, ViewingAgrees
    <3> QED
      BY <2>0, <3>1, <3>2 DEF AgreeAt
  <2>4. CASE Beginning(p)
    <3>1. work[p].at = "idle" /\ trouble' = trouble /\ (smooth' <=> Setup!Quiet)
      BY <2>4 DEF Beginning, Begins
    <3>2. AgreeIdle(view[p], main, extra, subs) /\ smooth'
      BY <2>0, <2>1, <3>1 DEF AgreeAt, Setup!Quiet
    <3>3. AgreeAt(work'[p], view'[p], main', extra', subs')
      BY <1>0, <2>4, <3>2, BeginningAgrees
    <3> QED
      BY <2>0, <3>2, <3>3
  <2>5. CASE Strays(p) /\ work[p].at # "idle"
    BY <1>1, <2>1, <2>2, <2>5 DEF Strays, SoundRows
  <2>6. CASE Working(p) /\ Well
    <3>1. work[p].at # "idle" /\ trouble' = trouble /\ (smooth' <=> smooth)
      BY <2>6 DEF Well, Working, Unlisting, Dropping, Unlisted, Listing, Creating, Ensuring,
         Setting, Telling, Inserting, DeletingRow, DeletingRows, Fetching
    <3>2. /\ SoundSubs(work[p], subs) /\ SoundRows(work[p], main, extra) /\ smooth'
          /\ AgreeAt(work[p], view[p], main, extra, subs) /\ work[p].at # "clean"
      BY <2>1, <2>2, <3>1 DEF SoundRows
    <3>3. AgreeAt(work'[p], view'[p], main', extra', subs')
      BY <1>0, <2>6, <3>2, DropAgrees, CallsAgree, RowsAgree DEF Working
    <3> QED
      BY <2>0, <3>2, <3>3
  <2>7. CASE Refused(p) \/ Clearing(p) \/ Looking(p)
    <3>1. work[p].at # "idle" /\ trouble' = trouble /\ (smooth' <=> smooth)
      BY <2>7 DEF Refused, Clearing, Looking, Ends
    <3>2. /\ SoundSubs(work[p], subs) /\ SoundRows(work[p], main, extra) /\ smooth'
          /\ AgreeAt(work[p], view[p], main, extra, subs)
      BY <2>1, <2>2, <3>1
    <3>3. work'[p].at = "idle" /\ AgreeIdle(view'[p], main', extra', subs')
      BY <1>0, <2>7, <3>2, EndsAgree
    <3> QED
      BY <2>0, <3>2, <3>3 DEF AgreeAt
  <2> QED
    BY <1>5, <2>3, <2>4, <2>5, <2>6, <2>7 DEF Moves
<1> QED
  BY <1>3, <1>4, <1>5 DEF SetupStep

LEMMA AgreeInitially == ASSUME Rewards, SinglePage, Setup!Init PROVE AgreeInv
<1>0. DInv
  BY SetupInitially
<1>1. /\ smooth /\ main \notin extra /\ main \in Reward \cup {NoReward} /\ extra \subseteq Reward
      /\ main = NoReward => extra = {}
  BY DEF Setup!Init, NoReward, Rewards, Setup!NoReward
<1>2. \A p \in Page : work[p].at = "idle"
  BY DEF Setup!Init, Setup!Idle
<1>3. \A t : Tells(subs, t) <=> main # NoReward /\ (t \in extra \/ t = main \/ t = Raid)
  <2>1. subs = {[id |-> 1, on |-> t, is |-> "enabled"] :
                  t \in IF main = NoReward THEN {} ELSE Setup!Configured \cup {Raid}}
    BY DEF Setup!Init, NoReward, Raid
  <2>2. \A t : t \in (IF main = NoReward THEN {} ELSE Setup!Configured \cup {Raid})
               <=> main # NoReward /\ (t \in extra \/ t = main \/ t = Raid)
    BY DEF Setup!Configured, NoReward
  <2> DEFINE C == IF main = NoReward THEN {} ELSE Setup!Configured \cup {Raid}
  <2>3. \A s \in subs : s.on \in C
    BY <2>1
  <2>4. ASSUME NEW t \in C PROVE Tells(subs, t)
    <3>1. [id |-> 1, on |-> t, is |-> "enabled"] \in subs
      BY <2>1
    <3> QED
      BY <3>1 DEF Tells
  <2> QED
    BY <2>2, <2>3, <2>4 DEF Tells
<1>4. \A s \in subs : s.is # "failed"
  BY DEF Setup!Init
<1>5. \A t : Tells(subs, t) => Lives(subs, t)
  BY <1>4 DEF Tells, Lives
<1>6. ASSUME NEW p \in Page PROVE AgreeIdle(view[p], main, extra, subs)
  <2>1. view[p] = Setup!Shown(p, main, extra, subs) /\ p \notin Compact
    BY DEF Setup!Init, SinglePage
  <2>2. /\ view[p].saved = main /\ view[p].extra = extra
        /\ view[p].seen = {s.on : s \in subs} /\ view[p].status = Setup!Status(subs, main)
    BY <2>1 DEF Setup!Shown
  <2>3. main = NoReward => view[p].status # "active"
    <3>1. main = NoReward => subs = {}
      BY <1>3 DEF Tells
    <3>2. Setup!Status({}, NoReward) # "active"
      BY DEF Setup!Status, Setup!On, Setup!Redemptions, NoReward, Setup!NoReward
    <3> QED
      BY <2>2, <3>1, <3>2
  <2>4. \A t : t \in view[p].seen <=> Tells(subs, t)
    BY <2>2 DEF Tells
  <2> QED
    BY <1>1, <1>3, <1>5, <2>2, <2>3, <2>4 DEF AgreeIdle, Rewards
<1> QED
  BY <1>1, <1>2, <1>6 DEF AgreeInv, AgreeAt

(* With one full page open and nothing failed: whenever nothing is under   *)
(* way, the rewards that draw cards are those Twitch tells us of, the main *)
(* one is not among the additional ones, and raids are told of too.        *)
THEOREM AlonePlacesAgree ==
    ASSUME Rewards, SinglePage PROVE Setup!Spec => []Setup!PlacesAgree
<1>1. DInv /\ AgreeInv => Setup!PlacesAgree
  <2> SUFFICES ASSUME DInv, AgreeInv, Setup!Quiet, trouble = 0
               PROVE  /\ {s.on : s \in Setup!Redemptions(subs)} = Setup!Configured
                      /\ main \notin extra
                      /\ main # NoReward => Setup!Alive(Raid)
    BY DEF Setup!PlacesAgree, NoReward, Raid
  <2>1. PICK p \in Page : work[p].at = "idle"
    BY DEF Setup!Quiet, SinglePage
  <2>2. AgreeIdle(view[p], main, extra, subs)
    BY <2>1 DEF AgreeInv, AgreeAt
  <2>3. Setup!Alive(Raid) <=> Lives(subs, Raid)
    BY DEF Setup!Alive, Setup!On, Lives
  <2>4. {s.on : s \in Setup!Redemptions(subs)} = Setup!Configured
    <3>1. PlacesHold(main, extra) /\ \A s \in subs : s.on \in Reward \cup {Raid}
      BY DEF DInv, SetupTypes, SubsHold, IsSub
    <3>2. \A t : t \in Setup!Configured <=> t \in Reward /\ (t \in extra \/ t = main)
      BY <3>1 DEF PlacesHold, Setup!Configured, Rewards, NoReward
    <3>3. \A t : t \in {s.on : s \in Setup!Redemptions(subs)} <=> t \in Reward /\ Tells(subs, t)
      BY <3>1 DEF Setup!Redemptions, Tells, Rewards, Raid
    <3> QED
      BY <2>2, <3>2, <3>3 DEF AgreeIdle
  <2> QED
    BY <2>2, <2>3, <2>4 DEF AgreeIdle
<1>2. DInv /\ AgreeInv /\ [Setup!Next]_(Setup!vars) => DInv' /\ AgreeInv'
  BY SetupSteps, DoneKept, AgreeKept DEF DInv
<1> QED
  BY <1>1, <1>2, SetupInitially, AgreeInitially, PTL DEF Setup!Spec

-----------------------------------------------------------------------------
(* The drop rates (DropRates).                                             *)

\* A row of the cards, and a request, with any values in their fields.
IsCard(row) ==
    row \in [is : {row.is}, active : {row.active}, rarity : {row.rarity},
             share : {row.share}, rate : {row.rate}]

IsRequest(q) ==
    q \in [at : {q.at}, card : {q.card}, body : {q.body}, w : {q.w},
           recalc : BOOLEAN, rates : {q.rates}, alone : BOOLEAN]

Priced ==
    /\ cardRow = [c \in Card |-> cardRow[c]] /\ \A c \in Card : IsCard(cardRow[c])
    /\ request = [r \in Request |-> request[r]] /\ \A r \in Request : IsRequest(request[r])
    /\ failures \in Nat

\* What a request has read is still so, unless another one has written.
Fresh(r) ==
    LET q == request[r] IN
    q.alone =>
        /\ q.at \in {"fetch", "apply"} \/ (q.at = "write" /\ q.recalc) =>
             q.w = weights /\ weights # Rates!Manual
        /\ q.at = "apply" =>
             q.rates = [c \in Rates!Pool |-> Rates!RateOf(weights, Rates!Pool, c)]

PricedInv == Priced /\ \A r \in Request : Fresh(r)

(* Only what a card counts for decides its rate.                           *)
SameWorth ==
    \A c \in Card : /\ cardRow'[c].is = cardRow[c].is
                    /\ cardRow'[c].active = cardRow[c].active
                    /\ cardRow'[c].rarity = cardRow[c].rarity
                    /\ cardRow'[c].share = cardRow[c].share

LEMMA WorthDecides ==
    ASSUME SameWorth
    PROVE  /\ Rates!Pool' = Rates!Pool
           /\ \A w : \A c \in Rates!Pool :
                 Rates!RateOf(w, Rates!Pool, c)' = Rates!RateOf(w, Rates!Pool, c)
<1>1. Rates!Pool' = Rates!Pool
  BY Zenon DEF SameWorth, Rates!Pool, Rates!Here
<1>2. [c \in Card |-> cardRow[c].share]' = [c \in Card |-> cardRow[c].share]
  BY DEF SameWorth
<1>3. ASSUME NEW x PROVE Rates!Total(Rates!Pool, x)' = Rates!Total(Rates!Pool, x)
  <2>1. {c \in Rates!Pool : cardRow[c].rarity = x}' = {c \in Rates!Pool : cardRow[c].rarity = x}
    BY <1>1 DEF SameWorth, Rates!Pool
  <2> QED
    BY <1>2, <2>1, Zenon DEF Rates!Total
<1>4. ASSUME NEW w, NEW c \in Rates!Pool
      PROVE  Rates!RateOf(w, Rates!Pool, c)' = Rates!RateOf(w, Rates!Pool, c)
  <2>1. cardRow'[c].rarity = cardRow[c].rarity /\ cardRow'[c].share = cardRow[c].share
    BY <1>4 DEF SameWorth, Rates!Pool
  <2>2. Rates!Total(Rates!Pool, cardRow[c].rarity)' = Rates!Total(Rates!Pool, cardRow[c].rarity)
    BY <2>1, <1>3
  <2> QED
    BY <2>1, <2>2, <1>1 DEF Rates!RateOf
<1> QED
  BY <1>1, <1>4

(* What each step does to the cards, the setting and the requests, one     *)
(* operator per kind of step.                                              *)
KeepsOthers(r) == \A q \in Request \ {r} : request'[q] = request[q]
TouchesOthers(r) ==
    \A q \in Request \ {r} : request'[q].at = request[q].at /\ ~request'[q].alone

\* A body that changes nothing that counts leaves the row as it was read.
Harmless(q) ==
    DOMAIN q.body = {"rate"} /\ q.body.rate = cardRow[q.card].rate

Asking(r) ==
    /\ cardRow' = cardRow /\ weights' = weights /\ KeepsOthers(r)
    /\ request[r].at = "idle" /\ request'[r].at = "write"
    /\ request'[r].w = weights /\ request'[r].alone
    /\ request'[r].recalc => weights # Rates!Manual
    /\ ~request'[r].recalc /\ weights # Rates!Manual /\ editForm = Rates!NoForm =>
         Harmless(request'[r])

Writing(r) ==
    /\ weights' = weights /\ TouchesOthers(r) /\ request[r].at = "write"
    /\ \/ cardRow' = cardRow
       \/ request[r].card \in Card /\
          cardRow' = [cardRow EXCEPT ![request[r].card] = Rates!Merged(@, request[r].body)]
    /\ IF request[r].recalc
       THEN request'[r].at = "fetch" /\ request'[r].w = request[r].w
            /\ request'[r].alone = request[r].alone
       ELSE request'[r].at = "idle"

Saving(r) ==
    /\ cardRow' = cardRow /\ TouchesOthers(r) /\ request[r].at = "idle"
    /\ IF weights' = Rates!Manual THEN request'[r].at = "idle"
       ELSE request'[r].at = "fetch" /\ request'[r].w = weights' /\ request'[r].alone

Pricing(r) ==
    /\ cardRow' = cardRow /\ weights' = weights /\ KeepsOthers(r) /\ request[r].at = "fetch"
    /\ IF Rates!Pool = {} THEN request'[r].at = "idle"
       ELSE /\ request'[r].at = "apply" /\ request'[r].w = request[r].w
            /\ request'[r].alone = request[r].alone
            /\ request'[r].rates = [c \in Rates!Pool |-> Rates!RateOf(request[r].w, Rates!Pool, c)]

Applying(r) ==
    /\ SameWorth /\ weights' = weights /\ TouchesOthers(r) /\ request[r].at = "apply"
    /\ \A c \in Card : c \in DOMAIN request[r].rates /\ Rates!Here(c) =>
          cardRow'[c].rate = request[r].rates[c]
    /\ \/ failures' = failures /\ request'[r].at = "idle"
       \/ /\ failures' = failures + 1 /\ request'[r].at = "apply" /\ request'[r].w = request[r].w
          /\ request'[r].alone = request[r].alone /\ request'[r].rates = request[r].rates

Failing(r) ==
    /\ cardRow' = cardRow /\ weights' = weights /\ KeepsOthers(r)
    /\ failures' = failures + 1 /\ request'[r].at = "idle"

RatesStep(r) ==
    \/ Asking(r) \/ Writing(r) \/ Saving(r) \/ Pricing(r) \/ Applying(r) \/ Failing(r)

Opening == cardRow' = cardRow /\ weights' = weights /\ request' = request /\ failures' = failures
\* A request begins with the setting it has read.
LEMMA StartsSo ==
    ASSUME Priced, NEW r \in Request, NEW c, NEW body, NEW recalc \in BOOLEAN,
           Rates!Start(r, c, body, recalc)
    PROVE  /\ cardRow' = cardRow /\ weights' = weights /\ KeepsOthers(r)
           /\ request[r].at = "idle" /\ request'[r].at = "write"
           /\ request'[r].w = weights /\ request'[r].card = c /\ request'[r].body = body
           /\ request'[r].recalc = (recalc /\ weights # Rates!Manual) /\ request'[r].alone
           /\ Priced'
<1>1. request' = [request EXCEPT ![r] = [at |-> "write", card |-> c, body |-> body,
                 w |-> weights, recalc |-> recalc /\ weights # Rates!Manual,
                 rates |-> <<>>, alone |-> TRUE]]
  BY DEF Rates!Start
<1>2. request'[r] = [at |-> "write", card |-> c, body |-> body,
                 w |-> weights, recalc |-> recalc /\ weights # Rates!Manual,
                 rates |-> <<>>, alone |-> TRUE]
  BY <1>1 DEF Priced
<1>3. KeepsOthers(r)
  BY <1>1 DEF Priced, KeepsOthers
<1>4. cardRow' = cardRow /\ weights' = weights /\ failures' = failures /\ request[r].at = "idle"
  BY DEF Rates!Start
<1>5. Priced'
  <2>1. IsRequest(request'[r])
    BY <1>2 DEF IsRequest
  <2>2. \A q \in Request : IsRequest(request'[q])
    BY <2>1, <1>3 DEF Priced, KeepsOthers
  <2>3. request' = [q \in Request |-> request'[q]]
    BY <1>1 DEF Priced
  <2> QED
    BY <2>2, <2>3, <1>4 DEF Priced, IsRequest, IsCard
<1> QED
  BY <1>2, <1>3, <1>4, <1>5

\* A write takes from the others what they have read.
LEMMA TouchesSo ==
    ASSUME NEW r \in Request, NEW e, \A q \in Request : IsRequest(e[q]),
           request' = Rates!Touch(r, e)
    PROVE  /\ request' = [q \in Request |-> request'[q]]
           /\ \A q \in Request : IsRequest(request'[q])
           /\ \A q \in Request : /\ request'[q].at = e[q].at /\ request'[q].w = e[q].w
                                 /\ request'[q].rates = e[q].rates
                                 /\ request'[q].recalc = e[q].recalc
                                 /\ request'[q].body = e[q].body
                                 /\ request'[q].card = e[q].card
           /\ request'[r].alone = e[r].alone
           /\ \A q \in Request \ {r} : ~request'[q].alone
<1>1. \A q \in Request : request'[q] = [e[q] EXCEPT !.alone = @ /\ q = r]
  BY DEF Rates!Touch
<1>2. request' = [q \in Request |-> request'[q]]
  BY <1>1 DEF Rates!Touch
<1>3. ASSUME NEW q \in Request
      PROVE  /\ IsRequest(request'[q])
             /\ request'[q].at = e[q].at /\ request'[q].w = e[q].w
             /\ request'[q].rates = e[q].rates /\ request'[q].recalc = e[q].recalc
             /\ request'[q].body = e[q].body /\ request'[q].card = e[q].card
             /\ request'[q].alone = (e[q].alone /\ q = r)
  <2>1. request'[q] = [e[q] EXCEPT !.alone = @ /\ q = r] /\ IsRequest(e[q])
    BY <1>1, <1>3
  <2> QED
    BY <2>1 DEF IsRequest
<1>4. e[r].alone \in BOOLEAN
  BY DEF IsRequest
<1>5. request'[r].alone = e[r].alone
  BY <1>3, <1>4
<1>6. \A q \in Request \ {r} : ~request'[q].alone
  BY <1>3, Zenon
<1> QED
  BY <1>2, <1>3, <1>5, <1>6

LEMMA IdleIsRequest ==
    IsRequest(Rates!Idle) /\ Rates!Idle.at = "idle" /\ Rates!Idle.alone
  BY DEF Rates!Idle, IsRequest

LEMMA BeginsSo ==
    ASSUME Priced, NEW r \in Request, Rates!Begin(r)
    PROVE  (Asking(r) \/ Saving(r)) /\ Priced'
<1>1. CASE Rates!Submit(r)
  <2>1. PICK x \in Rarity, n \in Share :
          Rates!Put(r, editForm.card,
                    IF weights = Rates!Manual
                    THEN [rarity |-> x, rate |-> editForm.rate]
                    ELSE [rarity |-> x, share |-> n, rate |-> editForm.rate])
    BY <1>1 DEF Rates!Submit
  <2> DEFINE body == IF weights = Rates!Manual
                    THEN [rarity |-> x, rate |-> editForm.rate]
                    ELSE [rarity |-> x, share |-> n, rate |-> editForm.rate]
  <2>2. Rates!Start(r, editForm.card, body, Rates!Changes(editForm.card, body))
    BY <2>1 DEF Rates!Put
  <2>3. editForm # Rates!NoForm /\ Rates!Changes(editForm.card, body) \in BOOLEAN
    BY <1>1 DEF Rates!Submit, Rates!Changes
  <2> HIDE DEF body
  <2>4. /\ cardRow' = cardRow /\ weights' = weights /\ KeepsOthers(r)
        /\ request[r].at = "idle" /\ request'[r].at = "write"
        /\ request'[r].w = weights
        /\ request'[r].recalc = (Rates!Changes(editForm.card, body) /\ weights # Rates!Manual) /\ request'[r].alone
        /\ Priced'
    BY <2>2, <2>3, StartsSo
  <2> QED
    BY <2>3, <2>4 DEF Asking
<1>2. ASSUME NEW c \in Card, Rates!Toggle(r, c) PROVE (Asking(r) \/ Saving(r)) /\ Priced'
  <2> DEFINE body == [active |-> ~cardRow[c].active]
  <2>1. Rates!Start(r, c, body, Rates!Changes(c, body))
    BY <1>2 DEF Rates!Toggle, Rates!Put
  <2>2. Rates!Changes(c, body)
    <3>1. "active" \in DOMAIN body \cap {"active", "rarity", "share"}
      OBVIOUS
    <3>2. body["active"] = ~cardRow[c].active
      OBVIOUS
    <3>3. body["active"] # cardRow[c]["active"]
      BY <3>2, Zenon
    <3> HIDE DEF body
    <3> QED
      BY <3>1, <3>3, Zenon DEF Rates!Changes
  <2> HIDE DEF body
  <2>3. Rates!Changes(c, body) \in BOOLEAN
    BY DEF Rates!Changes
  <2>4. /\ cardRow' = cardRow /\ weights' = weights /\ KeepsOthers(r)
        /\ request[r].at = "idle" /\ request'[r].at = "write"
        /\ request'[r].w = weights
        /\ request'[r].recalc = (Rates!Changes(c, body) /\ weights # Rates!Manual) /\ request'[r].alone
        /\ Priced'
    BY <2>1, <2>3, StartsSo
  <2>5. request'[r].recalc = (weights # Rates!Manual)
    BY <2>2, <2>4, Zenon
  <2> QED
    BY <2>4, <2>5 DEF Asking
<1>3. ASSUME NEW c \in Card, Rates!Rename(r, c) PROVE (Asking(r) \/ Saving(r)) /\ Priced'
  <2> DEFINE body == [rate |-> cardRow[c].rate]
  <2>1. Rates!Start(r, c, body, Rates!Changes(c, body))
    BY <1>3 DEF Rates!Rename, Rates!Put
  <2>2. DOMAIN body = {"rate"} /\ body.rate = cardRow[c].rate
    OBVIOUS
  <2> HIDE DEF body
  <2>3. Rates!Changes(c, body) \in BOOLEAN
    BY DEF Rates!Changes
  <2>4. /\ cardRow' = cardRow /\ weights' = weights /\ KeepsOthers(r)
        /\ request[r].at = "idle" /\ request'[r].at = "write"
        /\ request'[r].w = weights /\ request'[r].card = c /\ request'[r].body = body
        /\ request'[r].recalc = (Rates!Changes(c, body) /\ weights # Rates!Manual) /\ request'[r].alone
        /\ Priced'
    BY <2>1, <2>3, StartsSo
  <2>5. Harmless(request'[r])
    BY <2>2, <2>4 DEF Harmless
  <2> QED
    BY <2>3, <2>4, <2>5 DEF Asking
<1>4. ASSUME NEW c \in Card, Rates!Create(r, c) PROVE (Asking(r) \/ Saving(r)) /\ Priced'
  <2>1. PICK x \in Rarity :
          Rates!Start(r, c, [is |-> "here", active |-> TRUE, rarity |-> x,
                             rate |-> Rates!Default], TRUE)
    BY <1>4 DEF Rates!Create
  <2> DEFINE body == [is |-> "here", active |-> TRUE, rarity |-> x, rate |-> Rates!Default]
  <2>2. Rates!Start(r, c, body, TRUE)
    BY <2>1
  <2> HIDE DEF body
  <2> QED
    BY <2>2, StartsSo DEF Asking
<1>5. ASSUME NEW c \in Card, Rates!Delete(r, c) PROVE (Asking(r) \/ Saving(r)) /\ Priced'
  <2> DEFINE body == Rates!NoRow("gone")
  <2>2. Rates!Start(r, c, body, TRUE)
    BY <1>5 DEF Rates!Delete
  <2> HIDE DEF body
  <2> QED
    BY <2>2, StartsSo DEF Asking
<1>6. ASSUME NEW c \in Card, Rates!BatchUpdate(r, c) PROVE (Asking(r) \/ Saving(r)) /\ Priced'
  <2>1. CASE weights = Rates!Manual
    <3> DEFINE body == [rate |-> Rates!Default]
    <3>1. Rates!Start(r, c, body, FALSE)
      BY <1>6, <2>1 DEF Rates!BatchUpdate
    <3> HIDE DEF body
    <3> QED
      BY <2>1, <3>1, StartsSo DEF Asking
  <2>2. CASE weights # Rates!Manual
    <3>1. PICK n \in Share : Rates!Start(r, c, [share |-> n, rate |-> cardRow[c].rate], TRUE)
      BY <1>6, <2>2 DEF Rates!BatchUpdate
    <3> DEFINE body == [share |-> n, rate |-> cardRow[c].rate]
    <3>2. Rates!Start(r, c, body, TRUE)
      BY <3>1
    <3> HIDE DEF body
    <3> QED
      BY <3>2, StartsSo DEF Asking
  <2> QED
    BY <2>1, <2>2
<1>7. ASSUME NEW w \in Scheme \cup {Rates!Manual}, Rates!SaveSetting(r, w)
      PROVE  (Asking(r) \/ Saving(r)) /\ Priced'
  <2> DEFINE e == IF w = Rates!Manual THEN request
                  ELSE [request EXCEPT ![r] = [Rates!Idle EXCEPT
                         !.at = "fetch", !.w = w, !.recalc = TRUE]]
  <2>1. request[r].at = "idle" /\ weights' = w /\ cardRow' = cardRow /\ failures' = failures
        /\ request' = Rates!Touch(r, e)
    BY <1>7 DEF Rates!SaveSetting
  <2>2. /\ \A q \in Request : IsRequest(e[q])
        /\ \A q \in Request \ {r} : e[q] = request[q]
        /\ IF w = Rates!Manual THEN e[r].at = "idle"
           ELSE e[r].at = "fetch" /\ e[r].w = w /\ e[r].alone
    <3>1. CASE w = Rates!Manual
      BY <2>1, <3>1 DEF Priced
    <3>2. CASE w # Rates!Manual
      <4>1. e[r] = [Rates!Idle EXCEPT !.at = "fetch", !.w = w, !.recalc = TRUE]
        BY <3>2 DEF Priced
      <4>2. IsRequest(e[r]) /\ e[r].at = "fetch" /\ e[r].w = w /\ e[r].alone
        <5>1. ASSUME NEW i, IsRequest(i), i.alone
              PROVE  /\ IsRequest([i EXCEPT !.at = "fetch", !.w = w, !.recalc = TRUE])
                     /\ [i EXCEPT !.at = "fetch", !.w = w, !.recalc = TRUE].at = "fetch"
                     /\ [i EXCEPT !.at = "fetch", !.w = w, !.recalc = TRUE].w = w
                     /\ [i EXCEPT !.at = "fetch", !.w = w, !.recalc = TRUE].alone
          BY <5>1 DEF IsRequest
        <5> QED
          BY <4>1, <5>1, IdleIsRequest, Zenon
      <4>3. \A q \in Request \ {r} : e[q] = request[q]
        BY <3>2 DEF Priced
      <4> QED
        BY <3>2, <4>2, <4>3 DEF Priced
    <3> QED
      BY <3>1, <3>2
  <2> HIDE DEF e
  <2>3. /\ request' = [q \in Request |-> request'[q]]
        /\ \A q \in Request : IsRequest(request'[q])
        /\ \A q \in Request : request'[q].at = e[q].at /\ request'[q].w = e[q].w
        /\ request'[r].alone = e[r].alone
        /\ \A q \in Request \ {r} : ~request'[q].alone
    BY <2>1, <2>2, TouchesSo
  <2>4. TouchesOthers(r)
    BY <2>2, <2>3 DEF TouchesOthers
  <2>5. Saving(r)
    BY <2>1, <2>2, <2>3, <2>4 DEF Saving
  <2>6. Priced'
    BY <2>1, <2>3 DEF Priced, IsCard, IsRequest
  <2> QED
    BY <2>5, <2>6
<1> QED
  BY <1>1, <1>2, <1>3, <1>4, <1>5, <1>6, <1>7 DEF Rates!Begin

LEMMA MergesSo ==
    ASSUME NEW row, NEW body, IsCard(row)
    PROVE  IsCard(Rates!Merged(row, body))
<1>1. DOMAIN row = {"is", "active", "rarity", "share", "rate"}
  BY DEF IsCard
<1>2. Rates!Merged(row, body) =
        [k \in {"is", "active", "rarity", "share", "rate"} |->
            IF k \in DOMAIN body THEN body[k] ELSE row[k]]
  BY <1>1 DEF Rates!Merged
<1> QED
  BY <1>2 DEF IsCard

LEMMA WritesSo ==
    ASSUME Priced, NEW r \in Request, Rates!Write(r)
    PROVE  Writing(r) /\ Priced'
<1> DEFINE e == IF request[r].recalc THEN [request EXCEPT ![r].at = "fetch"]
                ELSE [request EXCEPT ![r] = Rates!Idle]
<1>1. /\ weights' = weights /\ failures' = failures /\ request[r].at = "write"
      /\ request' = Rates!Touch(r, e)
      /\ cardRow' = IF Rates!Here(request[r].card) \/ "is" \in DOMAIN request[r].body
                    THEN [cardRow EXCEPT ![request[r].card] = Rates!Merged(@, request[r].body)]
                    ELSE cardRow
  BY DEF Rates!Write, Rates!End
<1>2. /\ \A q \in Request : IsRequest(e[q])
      /\ \A q \in Request \ {r} : e[q] = request[q]
      /\ IF request[r].recalc
         THEN e[r].at = "fetch" /\ e[r].w = request[r].w /\ e[r].alone = request[r].alone
         ELSE e[r].at = "idle"
  <2>1. CASE request[r].recalc
    <3>1. e[r] = [request[r] EXCEPT !.at = "fetch"] /\ \A q \in Request \ {r} : e[q] = request[q]
      BY <2>1 DEF Priced
    <3>2. IsRequest(e[r]) /\ e[r].at = "fetch" /\ e[r].w = request[r].w
          /\ e[r].alone = request[r].alone
      BY <3>1 DEF Priced, IsRequest
    <3> QED
      BY <2>1, <3>1, <3>2 DEF Priced
  <2>2. CASE ~request[r].recalc
    <3>1. e[r] = Rates!Idle /\ \A q \in Request \ {r} : e[q] = request[q]
      BY <2>2 DEF Priced
    <3>2. IsRequest(e[r]) /\ e[r].at = "idle"
      BY <3>1, IdleIsRequest, Zenon
    <3> QED
      BY <2>2, <3>1, <3>2 DEF Priced
  <2> QED
    BY <2>1, <2>2
<1> HIDE DEF e
<1>3. /\ request' = [q \in Request |-> request'[q]]
      /\ \A q \in Request : IsRequest(request'[q])
      /\ \A q \in Request : request'[q].at = e[q].at /\ request'[q].w = e[q].w
      /\ request'[r].alone = e[r].alone
      /\ \A q \in Request \ {r} : ~request'[q].alone
  BY <1>1, <1>2, TouchesSo
<1>4. TouchesOthers(r)
  BY <1>2, <1>3 DEF TouchesOthers
<1>5. IF request[r].recalc
      THEN request'[r].at = "fetch" /\ request'[r].w = request[r].w
           /\ request'[r].alone = request[r].alone
      ELSE request'[r].at = "idle"
  BY <1>2, <1>3
<1>6. \/ cardRow' = cardRow
      \/ request[r].card \in Card /\
         cardRow' = [cardRow EXCEPT ![request[r].card] = Rates!Merged(@, request[r].body)]
  BY <1>1 DEF Priced
<1>7. cardRow' = [c \in Card |-> cardRow'[c]] /\ \A c \in Card : IsCard(cardRow'[c])
  <2>1. CASE cardRow' = cardRow
    BY <2>1 DEF Priced
  <2>2. CASE request[r].card \in Card /\
             cardRow' = [cardRow EXCEPT ![request[r].card] = Rates!Merged(@, request[r].body)]
    <3>1. ASSUME NEW c \in Card PROVE IsCard(cardRow'[c])
      <4>1. IsCard(cardRow[c]) /\ IsCard(Rates!Merged(cardRow[c], request[r].body))
        BY MergesSo DEF Priced
      <4> QED
        BY <2>2, <4>1 DEF Priced
    <3> QED
      BY <2>2, <3>1 DEF Priced
  <2> QED
    BY <1>6, <2>1, <2>2
<1>8. Priced'
  BY <1>1, <1>3, <1>7 DEF Priced, IsCard, IsRequest
<1>9. Writing(r)
  BY <1>1, <1>4, <1>5, <1>6 DEF Writing
<1> QED
  BY <1>8, <1>9

LEMMA PricesSo ==
    ASSUME Priced, NEW r \in Request, Rates!Fetch(r)
    PROVE  Pricing(r) /\ Priced'
<1>1. /\ cardRow' = cardRow /\ weights' = weights /\ failures' = failures
      /\ request[r].at = "fetch"
  BY DEF Rates!Fetch
<1>2. CASE Rates!Pool = {}
  <2>1. request' = [request EXCEPT ![r] = Rates!Idle]
    BY <1>2 DEF Rates!Fetch
  <2>2. request'[r] = Rates!Idle /\ KeepsOthers(r) /\ request' = [q \in Request |-> request'[q]]
    BY <2>1 DEF Priced, KeepsOthers
  <2>3. IsRequest(request'[r]) /\ request'[r].at = "idle"
    BY <2>2 DEF Rates!Idle, IsRequest
  <2>4. \A q \in Request : IsRequest(request'[q])
    BY <2>2, <2>3 DEF Priced, KeepsOthers
  <2>5. Priced'
    BY <1>1, <2>2, <2>4 DEF Priced, IsCard, IsRequest
  <2> QED
    BY <1>1, <1>2, <2>2, <2>3, <2>5 DEF Pricing
<1>3. CASE Rates!Pool # {}
  <2> DEFINE prices == [c \in Rates!Pool |-> Rates!RateOf(request[r].w, Rates!Pool, c)]
  <2>1. request' = [request EXCEPT ![r].at = "apply", ![r].rates = prices]
    BY <1>3 DEF Rates!Fetch
  <2> HIDE DEF prices
  <2>2. request'[r] = [request[r] EXCEPT !.at = "apply", !.rates = prices]
        /\ KeepsOthers(r) /\ request' = [q \in Request |-> request'[q]]
    BY <2>1 DEF Priced, KeepsOthers
  <2>3. IsRequest(request'[r]) /\ request'[r].at = "apply" /\ request'[r].w = request[r].w
        /\ request'[r].alone = request[r].alone /\ request'[r].rates = prices
    BY <2>2 DEF Priced, IsRequest
  <2>4. \A q \in Request : IsRequest(request'[q])
    BY <2>2, <2>3 DEF Priced, KeepsOthers
  <2>5. Priced'
    BY <1>1, <2>2, <2>4 DEF Priced, IsCard, IsRequest
  <2> QED
    BY <1>1, <1>3, <2>2, <2>3, <2>5 DEF Pricing, prices
<1> QED
  BY <1>2, <1>3

\* The rates are written to the cards that are still there.
LEMMA RatesWritten ==
    ASSUME Priced, NEW r \in Request, cardRow' = Rates!WithRates(r)
    PROVE  /\ SameWorth
           /\ \A c \in Card : c \in DOMAIN request[r].rates /\ Rates!Here(c) =>
                 cardRow'[c].rate = request[r].rates[c]
           /\ cardRow' = [c \in Card |-> cardRow'[c]]
           /\ \A c \in Card : IsCard(cardRow'[c])
<1>1. ASSUME NEW c \in Card
      PROVE  /\ cardRow'[c].is = cardRow[c].is /\ cardRow'[c].active = cardRow[c].active
             /\ cardRow'[c].rarity = cardRow[c].rarity /\ cardRow'[c].share = cardRow[c].share
             /\ c \in DOMAIN request[r].rates /\ Rates!Here(c) =>
                  cardRow'[c].rate = request[r].rates[c]
             /\ IsCard(cardRow'[c])
  <2>1. cardRow'[c] = IF c \in DOMAIN request[r].rates /\ Rates!Here(c)
                      THEN [cardRow[c] EXCEPT !.rate = request[r].rates[c]]
                      ELSE cardRow[c]
    BY DEF Rates!WithRates
  <2>2. IsCard(cardRow[c])
    BY DEF Priced
  <2> QED
    BY <2>1, <2>2 DEF IsCard
<1>2. cardRow' = [c \in Card |-> cardRow'[c]]
  BY DEF Rates!WithRates
<1> QED
  BY <1>1, <1>2 DEF SameWorth

LEMMA AppliesSo ==
    ASSUME Priced, NEW r \in Request, Rates!Apply(r) \/ Rates!ApplyAgain(r)
    PROVE  Applying(r) /\ Priced'
<1> DEFINE e == IF Rates!Apply(r) THEN [request EXCEPT ![r] = Rates!Idle] ELSE request
<1>1. /\ weights' = weights /\ request[r].at = "apply" /\ cardRow' = Rates!WithRates(r)
      /\ request' = Rates!Touch(r, e)
      /\ \/ failures' = failures /\ e[r].at = "idle"
         \/ failures' = failures + 1 /\ e[r] = request[r]
      /\ \A q \in Request : IsRequest(e[q])
      /\ \A q \in Request \ {r} : e[q] = request[q]
  <2>1. CASE Rates!Apply(r)
    <3>1. /\ weights' = weights /\ request[r].at = "apply" /\ cardRow' = Rates!WithRates(r)
          /\ request' = Rates!Touch(r, e) /\ failures' = failures
      BY <2>1 DEF Rates!Apply, Rates!End
    <3>2. e[r] = Rates!Idle /\ \A q \in Request \ {r} : e[q] = request[q]
      BY <2>1 DEF Priced
    <3>3. IsRequest(e[r]) /\ e[r].at = "idle"
      BY <3>2, IdleIsRequest, Zenon
    <3> QED
      BY <3>1, <3>2, <3>3 DEF Priced
  <2>2. CASE ~Rates!Apply(r) /\ Rates!ApplyAgain(r)
    BY <2>2 DEF Rates!ApplyAgain, Rates!Fault, Priced
  <2> QED
    BY <2>1, <2>2
<1> HIDE DEF e
<1>2. /\ request' = [q \in Request |-> request'[q]]
      /\ \A q \in Request : IsRequest(request'[q])
      /\ \A q \in Request : request'[q].at = e[q].at /\ request'[q].w = e[q].w
                            /\ request'[q].rates = e[q].rates
      /\ request'[r].alone = e[r].alone
      /\ \A q \in Request \ {r} : ~request'[q].alone
  BY <1>1, TouchesSo
<1>3. TouchesOthers(r)
  BY <1>1, <1>2 DEF TouchesOthers
<1>4. /\ SameWorth
      /\ \A c \in Card : c \in DOMAIN request[r].rates /\ Rates!Here(c) =>
            cardRow'[c].rate = request[r].rates[c]
      /\ cardRow' = [c \in Card |-> cardRow'[c]]
      /\ \A c \in Card : IsCard(cardRow'[c])
  BY <1>1, RatesWritten
<1>5. \/ failures' = failures /\ request'[r].at = "idle"
      \/ /\ failures' = failures + 1 /\ request'[r].at = "apply" /\ request'[r].w = request[r].w
         /\ request'[r].alone = request[r].alone /\ request'[r].rates = request[r].rates
  BY <1>1, <1>2
<1>6. Priced'
  BY <1>2, <1>4, <1>5 DEF Priced, IsCard, IsRequest
<1>7. Applying(r)
  BY <1>1, <1>3, <1>4, <1>5 DEF Applying
<1> QED
  BY <1>6, <1>7

LEMMA FailsSo ==
    ASSUME Priced, NEW r \in Request, Rates!Fail(r)
    PROVE  Failing(r) /\ Priced'
<1>1. /\ cardRow' = cardRow /\ weights' = weights /\ failures' = failures + 1
      /\ request' = [request EXCEPT ![r] = Rates!Idle]
  BY DEF Rates!Fail, Rates!Fault
<1>2. request'[r] = Rates!Idle /\ KeepsOthers(r) /\ request' = [q \in Request |-> request'[q]]
  BY <1>1 DEF Priced, KeepsOthers
<1>3. IsRequest(request'[r]) /\ request'[r].at = "idle"
  BY <1>2 DEF Rates!Idle, IsRequest
<1>4. \A q \in Request : IsRequest(request'[q])
  BY <1>2, <1>3 DEF Priced, KeepsOthers
<1>5. Priced'
  BY <1>1, <1>2, <1>4 DEF Priced, IsCard, IsRequest
<1> QED
  BY <1>1, <1>2, <1>3, <1>5 DEF Failing

LEMMA RatesSteps ==
    ASSUME Priced, [Rates!Next]_(Rates!vars)
    PROVE  (Opening \/ \E r \in Request : RatesStep(r)) /\ Priced'
<1>1. CASE UNCHANGED Rates!vars
  BY <1>1 DEF Rates!vars, Opening, Priced, IsCard, IsRequest
<1>2. ASSUME NEW c \in Card, Rates!OpenForm(c)
      PROVE  (Opening \/ \E r \in Request : RatesStep(r)) /\ Priced'
  BY <1>2 DEF Rates!OpenForm, Opening, Priced, IsCard, IsRequest
<1>3. ASSUME NEW r \in Request,
             Rates!Begin(r) \/ Rates!Serve(r) \/ Rates!ApplyAgain(r) \/ Rates!Fail(r)
      PROVE  RatesStep(r) /\ Priced'
  BY <1>3, BeginsSo, WritesSo, PricesSo, AppliesSo, FailsSo DEF Rates!Serve, RatesStep
<1> QED
  BY <1>1, <1>2, <1>3 DEF Rates!Next

\* What a step leaves alone stays as fresh as it was.
LEMMA StaysFresh ==
    ASSUME SameWorth, weights' = weights, NEW q \in Request, Fresh(q),
           request'[q].at = request[q].at, request'[q].w = request[q].w,
           request'[q].alone = request[q].alone, request'[q].rates = request[q].rates,
           request'[q].recalc = request[q].recalc \/ request[q].at = "apply"
    PROVE  Fresh(q)'
<1>1. [c \in Rates!Pool |-> Rates!RateOf(weights, Rates!Pool, c)]' =
        [c \in Rates!Pool |-> Rates!RateOf(weights, Rates!Pool, c)]
  BY WorthDecides
<1> QED
  BY <1>1 DEF Fresh, Rates!Manual

LEMMA FreshKept ==
    ASSUME PricedInv, [Rates!Next]_(Rates!vars)
    PROVE  PricedInv'
<1>0. Priced'
  BY RatesSteps DEF PricedInv
<1>1. CASE Opening
  BY <1>0, <1>1, StaysFresh DEF PricedInv, Opening, SameWorth
<1>2. ASSUME NEW r \in Request, RatesStep(r), NEW q \in Request PROVE Fresh(q)'
  <2>1. CASE Asking(r)
    <3>1. CASE q = r
      BY <2>1, <3>1 DEF Fresh, Asking
    <3>2. CASE q # r
      BY <2>1, <3>2, StaysFresh DEF PricedInv, Asking, KeepsOthers, SameWorth
    <3> QED
      BY <3>1, <3>2
  <2>2. CASE Writing(r)
    <3>1. CASE q = r
      BY <2>2, <3>1 DEF PricedInv, Fresh, Writing, Rates!Manual
    <3>2. CASE q # r
      BY <2>2, <3>2 DEF Fresh, Writing, TouchesOthers
    <3> QED
      BY <3>1, <3>2
  <2>3. CASE Saving(r)
    <3>1. CASE q = r
      BY <2>3, <3>1 DEF Fresh, Saving, Rates!Manual
    <3>2. CASE q # r
      BY <2>3, <3>2 DEF Fresh, Saving, TouchesOthers
    <3> QED
      BY <3>1, <3>2
  <2>4. CASE Pricing(r)
    <3>0. SameWorth /\ weights' = weights
      BY <2>4 DEF SameWorth, Pricing
    <3>1. CASE q = r
      <4>1. CASE request'[r].at = "idle"
        BY <3>1, <4>1 DEF Fresh
      <4>2. ASSUME request'[r].at = "apply", request'[r].alone
            PROVE  /\ request'[r].w = weights /\ weights # Rates!Manual
                   /\ request'[r].rates = [c \in Rates!Pool |-> Rates!RateOf(weights, Rates!Pool, c)]
        BY <2>4, <4>2 DEF Pricing, PricedInv, Fresh
      <4>3. [c \in Rates!Pool |-> Rates!RateOf(weights, Rates!Pool, c)]' =
              [c \in Rates!Pool |-> Rates!RateOf(weights, Rates!Pool, c)]
        BY <3>0, WorthDecides
      <4>4. request'[r].at = "idle" \/ request'[r].at = "apply"
        BY <2>4 DEF Pricing
      <4> QED
        BY <3>0, <3>1, <4>1, <4>2, <4>3, <4>4 DEF Fresh, Rates!Manual
    <3>2. CASE q # r
      BY <2>4, <3>0, <3>2, StaysFresh DEF PricedInv, Pricing, KeepsOthers
    <3> QED
      BY <3>1, <3>2
  <2>5. CASE Applying(r)
    <3>1. CASE q = r /\ request'[r].at = "apply"
      BY <2>5, <3>1, StaysFresh DEF PricedInv, Applying
    <3>2. CASE q = r /\ request'[r].at = "idle"
      BY <3>2 DEF Fresh
    <3>3. CASE q # r
      BY <2>5, <3>3 DEF Fresh, Applying, TouchesOthers
    <3> QED
      BY <2>5, <3>1, <3>2, <3>3 DEF Applying
  <2>6. CASE Failing(r)
    <3>1. CASE q = r
      BY <2>6, <3>1 DEF Fresh, Failing
    <3>2. CASE q # r
      BY <2>6, <3>2, StaysFresh DEF PricedInv, Failing, KeepsOthers, SameWorth
    <3> QED
      BY <3>1, <3>2
  <2> QED
    BY <1>2, <2>1, <2>2, <2>3, <2>4, <2>5, <2>6 DEF RatesStep
<1> QED
  BY <1>0, <1>1, <1>2, RatesSteps DEF PricedInv

LEMMA PricedStarts == Rates!Init => PricedInv
<1> SUFFICES ASSUME Rates!Init PROVE PricedInv
  OBVIOUS
<1>1. request = [r \in Request |-> Rates!Idle] /\ failures = 0
      /\ cardRow = [c \in Card |-> Rates!NoRow("new")]
  BY DEF Rates!Init
<1>2. \A r \in Request : request[r] = Rates!Idle
  BY <1>1
<1>3. \A r \in Request : IsRequest(request[r]) /\ request[r].at = "idle"
  BY <1>2, IdleIsRequest, Zenon
<1>4. \A c \in Card : cardRow[c] = Rates!NoRow("new")
  BY <1>1
<1>5. \A c \in Card : IsCard(cardRow[c])
  <2>1. ASSUME NEW a, NEW b, NEW d
        PROVE  IsCard([is |-> a, active |-> FALSE, rarity |-> b, share |-> d, rate |-> 0])
    BY DEF IsCard
  <2>2. IsCard(Rates!NoRow("new"))
    BY <2>1, Zenon DEF Rates!NoRow
  <2> QED
    BY <1>4, <2>2, Zenon
<1>6. request = [r \in Request |-> request[r]] /\ cardRow = [c \in Card |-> cardRow[c]]
  BY <1>1
<1>7. Priced
  BY <1>1, <1>3, <1>5, <1>6 DEF Priced
<1> QED
  BY <1>3, <1>7 DEF PricedInv, Fresh

\* A request that ends with its rates written has made them match.
LEMMA AppliedMatch ==
    ASSUME PricedInv, NEW r \in Request, Applying(r), request[r].alone
    PROVE  Rates!RatesMatch'
<1>1. weights' = weights /\ SameWorth
      /\ request[r].rates = [c \in Rates!Pool |-> Rates!RateOf(weights, Rates!Pool, c)]
  BY DEF Applying, PricedInv, Fresh
<1>2. ASSUME NEW c \in Rates!Pool'
      PROVE  cardRow'[c].rate = Rates!RateOf(weights, Rates!Pool, c)'
  <2>1. c \in Rates!Pool /\ Rates!RateOf(weights, Rates!Pool, c)' = Rates!RateOf(weights, Rates!Pool, c)
    BY <1>1, <1>2, WorthDecides
  <2>2. c \in Card /\ Rates!Here(c)
    BY <2>1 DEF Rates!Pool
  <2>3. c \in DOMAIN request[r].rates /\ request[r].rates[c] = Rates!RateOf(weights, Rates!Pool, c)
    BY <1>1, <2>1
  <2>4. cardRow'[c].rate = request[r].rates[c]
    BY <2>2, <2>3 DEF Applying
  <2> QED
    BY <2>1, <2>3, <2>4
<1> QED
  BY <1>1, <1>2 DEF Rates!RatesMatch

(* A recalculation that no other write came between makes every rate match *)
(* the setting, whatever earlier races and failures had left behind.       *)
THEOREM LoneRecalculationRepairs == Rates!Spec => [][Rates!RepairsAlone]_(Rates!vars)
<1>1. ASSUME PricedInv, [Rates!Next]_(Rates!vars) PROVE [Rates!RepairsAlone]_(Rates!vars)
  <2> SUFFICES ASSUME NEW r \in Request, request[r].at = "apply", request[r].alone,
                      request'[r].at = "idle", failures' = failures
               PROVE  Rates!RatesMatch'
    BY DEF Rates!RepairsAlone
  <2>1. failures \in Nat
    BY <1>1 DEF PricedInv, Priced
  <2>2. ~Opening
    BY DEF Opening
  <2>3. PICK q \in Request : RatesStep(q)
    BY <1>1, <2>2, RatesSteps DEF PricedInv
  <2>4. CASE q # r
    BY <2>3, <2>4 DEF RatesStep, Asking, Writing, Saving, Pricing, Applying, Failing,
       KeepsOthers, TouchesOthers
  <2>5. CASE q = r
    <3>1. Applying(r)
      BY <2>1, <2>3, <2>5 DEF RatesStep, Asking, Writing, Saving, Pricing, Failing
    <3> QED
      BY <1>1, <3>1, AppliedMatch
  <2> QED
    BY <2>4, <2>5
<1> QED
  BY <1>1, PricedStarts, FreshKept, PTL DEF Rates!Spec

-----------------------------------------------------------------------------
\* One request at a time, no form and no failure.
Quiet == editForm = Rates!NoForm /\ opened = 0 /\ failures = 0

Following(r) ==
    LET q == request[r] IN
    /\ q.at = "idle" => Rates!RatesMatch
    /\ q.at # "idle" => q.alone
    /\ q.at = "write" /\ ~q.recalc /\ weights # Rates!Manual =>
         Harmless(q) /\ Rates!RatesMatch

FollowInv == PricedInv /\ Quiet /\ \A r \in Request : Following(r)

LEMMA QuietStays ==
    ASSUME MaxForms = 0, MaxFaults = 0, Quiet, [Rates!Next]_(Rates!vars)
    PROVE  Quiet'
<1>1. CASE UNCHANGED Rates!vars
  BY <1>1 DEF Quiet, Rates!vars, Rates!NoForm
<1>2. ASSUME NEW c \in Card, Rates!OpenForm(c) PROVE FALSE
  BY <1>2 DEF Rates!OpenForm, Quiet
<1>3. ASSUME NEW r \in Request, Rates!Begin(r) PROVE Quiet'
  <2>1. ~Rates!Submit(r)
    BY DEF Rates!Submit, Quiet
  <2> QED
    BY <1>3, <2>1 DEF Quiet, Rates!NoForm, Rates!Begin, Rates!SaveSetting, Rates!Toggle,
       Rates!Rename, Rates!Create, Rates!Delete, Rates!BatchUpdate, Rates!Put, Rates!Start
<1>4. ASSUME NEW r \in Request, Rates!Serve(r) PROVE Quiet'
  BY <1>4 DEF Quiet, Rates!NoForm, Rates!Serve, Rates!Write, Rates!Fetch, Rates!Apply
<1>5. ASSUME NEW r \in Request, Rates!ApplyAgain(r) \/ Rates!Fail(r) PROVE FALSE
  BY <1>5 DEF Quiet, Rates!ApplyAgain, Rates!Fail, Rates!Fault
<1> QED
  BY <1>1, <1>2, <1>3, <1>4, <1>5 DEF Rates!Next

\* What changes no worth and no rate leaves matching rates matching.
LEMMA MatchStays ==
    ASSUME Rates!RatesMatch, SameWorth, weights' = weights,
           \A c \in Card : cardRow'[c].rate = cardRow[c].rate
    PROVE  Rates!RatesMatch'
<1>1. ASSUME NEW c \in Rates!Pool'
      PROVE  c \in Rates!Pool /\ c \in Card
             /\ Rates!RateOf(weights, Rates!Pool, c)' = Rates!RateOf(weights, Rates!Pool, c)
  <2>1. c \in Rates!Pool
    BY <1>1, WorthDecides
  <2>2. c \in Card
    BY <2>1 DEF Rates!Pool
  <2> QED
    BY <2>1, <2>2, WorthDecides
<1> QED
  BY <1>1 DEF Rates!RatesMatch, Rates!Manual

LEMMA FollowKept ==
    ASSUME NEW r, Request = {r}, MaxForms = 0, MaxFaults = 0,
           FollowInv, [Rates!Next]_(Rates!vars)
    PROVE  FollowInv'
<1>0. PricedInv' /\ Quiet'
  BY FreshKept, QuietStays DEF FollowInv
<1>1. /\ Priced /\ Quiet /\ Following(r) /\ r \in Request
      /\ request[r].recalc \in BOOLEAN /\ request'[r].recalc \in BOOLEAN
  BY <1>0 DEF FollowInv, PricedInv, Priced, IsRequest
<1> SUFFICES Following(r)'
  BY <1>0 DEF FollowInv
<1>2. CASE Opening
  <2>1. SameWorth /\ weights' = weights /\ request' = request
        /\ \A c \in Card : cardRow'[c] = cardRow[c]
    BY <1>2 DEF SameWorth, Opening
  <2>2. Rates!RatesMatch => Rates!RatesMatch'
    BY <2>1, MatchStays
  <2> QED
    BY <1>1, <1>2, <2>1, <2>2 DEF Following, Harmless, Rates!Manual, Opening
<1>3. CASE Asking(r)
  <2>1. SameWorth /\ weights' = weights /\ cardRow' = cardRow /\ Rates!RatesMatch
    BY <1>1, <1>3 DEF SameWorth, Asking, Following
  <2>2. Rates!RatesMatch'
    BY <2>1, MatchStays
  <2>3. ~request'[r].recalc /\ weights # Rates!Manual => Harmless(request'[r])
    BY <1>1, <1>3 DEF Asking, Quiet
  <2>4. ~request'[r].recalc /\ weights # Rates!Manual => Harmless(request[r])'
    BY <2>1, <2>3 DEF Harmless
  <2>5. request'[r].at = "write" /\ request'[r].alone
    BY <1>3 DEF Asking
  <2> QED
    BY <2>1, <2>2, <2>4, <2>5 DEF Following, Rates!Manual
<1>4. CASE Writing(r)
  <2>1. CASE request[r].recalc
    <3>1. request'[r].at = "fetch" /\ request'[r].alone
      BY <1>1, <1>4, <2>1 DEF Writing, Following
    <3> QED
      BY <3>1 DEF Following
  <2>2. CASE ~request[r].recalc /\ weights = Rates!Manual
    <3>1. request'[r].at = "idle" /\ weights' = Rates!Manual
      BY <1>1, <1>4, <2>2 DEF Writing
    <3> QED
      BY <3>1 DEF Following, Rates!RatesMatch, Rates!Manual
  <2>3. CASE ~request[r].recalc /\ weights # Rates!Manual
    <3>1. request'[r].at = "idle" /\ weights' = weights
      BY <1>1, <1>4, <2>3 DEF Writing
    <3>2. Harmless(request[r]) /\ Rates!RatesMatch
      BY <1>1, <1>4, <2>3 DEF Following, Writing
    <3>3. ASSUME NEW c \in Card
          PROVE  /\ cardRow'[c].is = cardRow[c].is /\ cardRow'[c].active = cardRow[c].active
                 /\ cardRow'[c].rarity = cardRow[c].rarity /\ cardRow'[c].share = cardRow[c].share
                 /\ cardRow'[c].rate = cardRow[c].rate
      <4>1. CASE cardRow'[c] = cardRow[c]
        BY <4>1
      <4>2. CASE c = request[r].card /\ cardRow'[c] = Rates!Merged(cardRow[c], request[r].body)
        <5>1. IsCard(cardRow[c])
          BY <1>1 DEF Priced
        <5> DEFINE row == cardRow[c]
        <5>2. DOMAIN row = {"is", "active", "rarity", "share", "rate"}
          BY <5>1 DEF IsCard
        <5>3. cardRow'[c] = [k \in {"is", "active", "rarity", "share", "rate"} |->
                IF k \in {"rate"} THEN request[r].body[k] ELSE row[k]]
          BY <3>2, <4>2, <5>2 DEF Rates!Merged, Harmless
        <5>4. request[r].body.rate = row.rate
          BY <3>2, <4>2 DEF Harmless
        <5> QED
          BY <5>3, <5>4
      <4>3. \/ cardRow'[c] = cardRow[c]
            \/ c = request[r].card /\ cardRow'[c] = Rates!Merged(cardRow[c], request[r].body)
        BY <1>1, <1>4 DEF Writing, Priced
      <4> QED
        BY <4>1, <4>2, <4>3
    <3>4. Rates!RatesMatch'
      BY <3>1, <3>2, <3>3, MatchStays DEF SameWorth
    <3> QED
      BY <3>1, <3>4 DEF Following
  <2> QED
    BY <2>1, <2>2, <2>3
<1>5. CASE Saving(r)
  <2>1. CASE weights' = Rates!Manual
    BY <1>5, <2>1 DEF Saving, Following, Rates!RatesMatch, Rates!Manual
  <2>2. CASE weights' # Rates!Manual
    <3>1. request'[r].at = "fetch" /\ request'[r].alone
      BY <1>5, <2>2 DEF Saving
    <3> QED
      BY <3>1 DEF Following
  <2> QED
    BY <2>1, <2>2
<1>6. CASE Pricing(r)
  <2>1. CASE Rates!Pool = {}
    <3>1. request'[r].at = "idle" /\ SameWorth
      BY <1>6, <2>1 DEF Pricing, SameWorth
    <3>2. Rates!Pool' = {}
      BY <2>1, <3>1, WorthDecides
    <3> QED
      BY <3>1, <3>2 DEF Following, Rates!RatesMatch
  <2>2. CASE Rates!Pool # {}
    <3>1. request'[r].at = "apply" /\ request'[r].alone
      BY <1>1, <1>6, <2>2 DEF Pricing, Following
    <3> QED
      BY <3>1 DEF Following
  <2> QED
    BY <2>1, <2>2
<1>7. CASE Applying(r)
  <2>1. request[r].alone
    BY <1>1, <1>7 DEF Applying, Following
  <2>2. Rates!RatesMatch'
    BY <1>1, <1>7, <2>1, AppliedMatch DEF FollowInv
  <2>3. request'[r].at = "idle" \/ (request'[r].at = "apply" /\ request'[r].alone)
    BY <1>7, <2>1 DEF Applying
  <2> QED
    BY <2>2, <2>3 DEF Following
<1>8. CASE Failing(r)
  BY <1>0, <1>1, <1>8 DEF Failing, Quiet
<1> QED
  BY <1>1, <1>2, <1>3, <1>4, <1>5, <1>6, <1>7, <1>8, RatesSteps DEF RatesStep

(* Where requests follow one another, nothing fails and no form is open    *)
(* meanwhile, the rates match the setting and the pool whenever no request *)
(* is under way, however cards, their weights and the setting change.      *)
THEOREM RatesFollowSetting ==
    ASSUME NEW r, Request = {r}, MaxForms = 0, MaxFaults = 0
    PROVE  Rates!Spec => []Rates!RatesFollow
<1>1. Rates!Init => FollowInv
  <2> SUFFICES ASSUME Rates!Init PROVE FollowInv
    OBVIOUS
  <2>1. PricedInv /\ Quiet /\ request[r] = Rates!Idle
    BY PricedStarts DEF Rates!Init, Quiet
  <2>2. request[r].at = "idle"
    BY <2>1, IdleIsRequest, Zenon
  <2>3. \A c \in Card : cardRow[c].is = "new"
    <3>1. \A c \in Card : cardRow[c] = Rates!NoRow("new")
      BY DEF Rates!Init
    <3>2. Rates!NoRow("new").is = "new"
      BY DEF Rates!NoRow
    <3> QED
      BY <3>1, <3>2, Zenon
  <2>4. Rates!RatesMatch
    BY <2>3 DEF Rates!RatesMatch, Rates!Pool, Rates!Here
  <2> QED
    BY <2>1, <2>2, <2>4 DEF FollowInv, Following
<1>2. FollowInv /\ [Rates!Next]_(Rates!vars) => FollowInv'
  BY FollowKept
<1>3. FollowInv => Rates!RatesFollow
  BY DEF FollowInv, Following, Rates!RatesFollow
<1> QED
  BY <1>1, <1>2, <1>3, PTL DEF Rates!Spec
==============================================================================
