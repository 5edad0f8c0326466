-------------------------- MODULE GachaTransaction --------------------------
(***************************************************************************)
(* The statements of execute_gacha_transaction_with_chat_outbox, run by    *)
(* concurrent database sessions under READ COMMITTED: a statement sees     *)
(* what was committed before it started, and the writes of a transaction   *)
(* become visible at its COMMIT.  history, copies, outbox, limit and       *)
(* active are the committed tables (see GachaLedger).  A call in progress: *)
(*   phase   the statement that comes next                                 *)
(*   batch, draw, card   the arguments                                     *)
(*   cap     v_max_issuance_count                                          *)
(*   fresh   this transaction inserted the history and user_cards rows     *)
(*   reply   what the session returned to its last call                    *)
(***************************************************************************)
EXTENDS Naturals

CONSTANTS Event, Draws, MaxDraws, Card, Limits, Chat, Session, None, Unlimited

ASSUME DrawsAssumption == /\ MaxDraws \in Nat
                          /\ Draws \in [Event -> 1..MaxDraws]
ASSUME LimitAssumption == /\ Limits \subseteq Nat \cup {Unlimited}
                          /\ Unlimited \notin Nat
ASSUME NoneAssumption  == None \notin Card \cup Event \cup Limits

VARIABLES history, copies, outbox, limit, active,
          phase, batch, draw, card, cap, fresh, reply

tables   == <<history, copies, outbox, limit, active>>
callVars == <<batch, draw, card>>
vars     == <<history, copies, outbox, limit, active,
              phase, batch, draw, card, cap, fresh, reply>>

Phase == {"idle", "lock", "check", "card", "count", "insert", "assemble",
          "commit", "limited"}

Answer(t) == IF phase[t] = "limited" THEN "limit" ELSE reply[t]

Ledger == INSTANCE GachaLedger WITH
    Caller <- Session,
    reply  <- [t \in Session |-> Answer(t)]

TypeOK ==
    /\ history \in [Event -> [1..MaxDraws -> Card \cup {None}]]
    /\ copies  \in [Card -> Nat]
    /\ outbox  \in SUBSET Event
    /\ limit   \in [Card -> Limits]
    /\ active  \in SUBSET Card
    /\ phase   \in [Session -> Phase]
    /\ batch   \in [Session -> Event \cup {None}]
    /\ draw    \in [Session -> 0..MaxDraws]
    /\ card    \in [Session -> Card \cup {None}]
    /\ cap     \in [Session -> Limits \cup {None}]
    /\ fresh   \in [Session -> BOOLEAN]
    /\ reply   \in [Session -> Ledger!Reply]

Init ==
    /\ history = [e \in Event |-> [i \in 1..MaxDraws |-> None]]
    /\ copies  = [c \in Card |-> 0]
    /\ outbox  = {}
    /\ limit   \in [Card -> Limits]
    /\ active  \in SUBSET Card
    /\ phase   = [t \in Session |-> "idle"]
    /\ batch   = [t \in Session |-> None]
    /\ draw    = [t \in Session |-> 0]
    /\ card    = [t \in Session |-> None]
    /\ cap     = [t \in Session |-> None]
    /\ fresh   = [t \in Session |-> FALSE]
    /\ reply   = [t \in Session |-> "none"]

-----------------------------------------------------------------------------
(* Locks are held from the statement that takes them to the end of the     *)
(* transaction.  A card that is not there or not active locks nothing.     *)

HoldsEvent(t) == phase[t] \notin {"idle", "lock"}

HoldsCard(t) == cap[t] # None

EventFree(e, i) ==
    \A u \in Session : ~(HoldsEvent(u) /\ batch[u] = e /\ draw[u] = i)

CardFree(c) == \A u \in Session : ~(HoldsCard(u) /\ card[u] = c)

-----------------------------------------------------------------------------

Begin(t, e, i, c) ==
    /\ phase[t] = "idle"
    /\ phase' = [phase EXCEPT ![t] = "lock"]
    /\ batch' = [batch EXCEPT ![t] = e]
    /\ draw'  = [draw EXCEPT ![t] = i]
    /\ card'  = [card EXCEPT ![t] = c]
    /\ reply' = [reply EXCEPT ![t] = "none"]
    /\ UNCHANGED <<tables, cap, fresh>>

(* pg_advisory_xact_lock on the hash of the event_id.                      *)
Lock(t) ==
    /\ phase[t] = "lock"
    /\ EventFree(batch[t], draw[t])
    /\ phase' = [phase EXCEPT ![t] = "check"]
    /\ UNCHANGED <<tables, callVars, cap, fresh, reply>>

(* Mutant: the duplicate is only noticed by the INSERT.                    *)
CheckNothing(t) ==
    /\ phase[t] = "check"
    /\ phase' = [phase EXCEPT ![t] = "card"]
    /\ UNCHANGED <<tables, callVars, cap, fresh, reply>>

CheckDuplicate(t) ==
    /\ phase[t] = "check"
    /\ phase' = [phase EXCEPT ![t] =
                   IF history[batch[t]][draw[t]] # None THEN "assemble" ELSE "card"]
    /\ UNCHANGED <<tables, callVars, cap, fresh, reply>>

(* SELECT max_issuance_count ... AND is_active = true FOR UPDATE.          *)
LockCard(t) ==
    /\ phase[t] = "card"
    /\ \/ /\ card[t] \in active /\ CardFree(card[t])
          /\ cap'   = [cap EXCEPT ![t] = limit[card[t]]]
          /\ phase' = [phase EXCEPT ![t] = "count"]
       \/ /\ card[t] \notin active
          /\ phase' = [phase EXCEPT ![t] = "limited"]
          /\ UNCHANGED cap
    /\ UNCHANGED <<tables, callVars, fresh, reply>>

Count(t) ==
    /\ phase[t] = "count"
    /\ phase' = [phase EXCEPT ![t] =
                   IF cap[t] # Unlimited /\ copies[card[t]] >= cap[t]
                   THEN "limited" ELSE "insert"]
    /\ UNCHANGED <<tables, callVars, cap, fresh, reply>>

(* INSERT INTO gacha_history ... ON CONFLICT (event_id) DO NOTHING, which  *)
(* waits for a transaction that has inserted the same event_id, and the    *)
(* user and user_cards rows that follow it.                                *)
Insert(t) ==
    /\ phase[t] = "insert"
    /\ \A u \in Session : ~(/\ u # t /\ fresh[u]
                            /\ batch[u] = batch[t] /\ draw[u] = draw[t])
    /\ fresh' = [fresh EXCEPT ![t] = history[batch[t]][draw[t]] = None]
    /\ phase' = [phase EXCEPT ![t] = "assemble"]
    /\ UNCHANGED <<tables, callVars, cap, reply>>

(* Mutant: a final draw takes the draws it finds.                          *)
AssembledAnyway(e, i) == TRUE

(* A final draw rebuilds the batch from the history and inserts the outbox *)
(* row; it raises when a draw of the batch is missing.                     *)
Assembled(e, i) == i = Draws[e] => \A j \in 1..(i - 1) : history[e][j] # None

Assemble(t) ==
    /\ phase[t] = "assemble"
    /\ Assembled(batch[t], draw[t])
    /\ phase' = [phase EXCEPT ![t] = "commit"]
    /\ UNCHANGED <<tables, callVars, cap, fresh, reply>>

(* Mutant: the card row stays locked.                                      *)
EndKeepsCard(t, answer) ==
    /\ phase' = [phase EXCEPT ![t] = "idle"]
    /\ batch' = [batch EXCEPT ![t] = None]
    /\ draw'  = [draw EXCEPT ![t] = 0]
    /\ fresh' = [fresh EXCEPT ![t] = FALSE]
    /\ reply' = [reply EXCEPT ![t] = answer]
    /\ UNCHANGED <<card, cap>>

End(t, answer) ==
    /\ phase' = [phase EXCEPT ![t] = "idle"]
    /\ batch' = [batch EXCEPT ![t] = None]
    /\ draw'  = [draw EXCEPT ![t] = 0]
    /\ card'  = [card EXCEPT ![t] = None]
    /\ cap'   = [cap EXCEPT ![t] = None]
    /\ fresh' = [fresh EXCEPT ![t] = FALSE]
    /\ reply' = [reply EXCEPT ![t] = answer]

Commit(t) ==
    LET e == batch[t]  i == draw[t]  c == card[t]  IN
    /\ phase[t] = "commit"
    /\ history' = IF fresh[t]
                  THEN [history EXCEPT ![e] = [@ EXCEPT ![i] = c]]
                  ELSE history
    /\ copies'  = IF fresh[t] THEN [copies EXCEPT ![c] = @ + 1] ELSE copies
    /\ outbox'  = IF i = Draws[e] /\ e \in Chat THEN outbox \cup {e} ELSE outbox
    /\ End(t, IF fresh[t] THEN "granted" ELSE "duplicate")
    /\ UNCHANGED <<limit, active>>

CommitLimited(t) ==
    /\ phase[t] = "limited"
    /\ End(t, "limit")
    /\ UNCHANGED tables

RaiseIncomplete(t) ==
    /\ phase[t] = "assemble"
    /\ ~Assembled(batch[t], draw[t])
    /\ End(t, "none")
    /\ UNCHANGED tables

(* The connection is lost or a statement fails: everything is undone.      *)
Abort(t) ==
    /\ phase[t] # "idle"
    /\ End(t, "none")
    /\ UNCHANGED tables

(* UPDATE cards by the streamer, which waits for the row lock.             *)
EditCard(c, n, on) ==
    /\ CardFree(c)
    /\ limit'  = [limit EXCEPT ![c] = n]
    /\ active' = IF on THEN active \cup {c} ELSE active \ {c}
    /\ UNCHANGED <<history, copies, outbox, callVars, phase, cap, fresh, reply>>

Run(t) ==
    \/ Lock(t) \/ CheckDuplicate(t) \/ LockCard(t) \/ Count(t) \/ Insert(t)
    \/ Assemble(t) \/ RaiseIncomplete(t) \/ Commit(t) \/ CommitLimited(t)

Next ==
    \/ \E t \in Session, e \in Event, c \in Card :
         \E i \in 1..Draws[e] : Begin(t, e, i, c)
    \/ \E t \in Session : Run(t) \/ Abort(t)
    \/ \E c \in Card, n \in Limits, on \in BOOLEAN : EditCard(c, n, on)

Spec == Init /\ [][Next]_vars

(* The database runs every transaction and grants locks in the order they  *)
(* were asked for.                                                         *)
Fairness ==
    \A t \in Session : WF_vars(Run(t)) /\ SF_vars(Lock(t)) /\ SF_vars(LockCard(t))

-----------------------------------------------------------------------------
(* Properties                                                              *)

(* A commit never issues a copy beyond the limit the card has at that      *)
(* moment, whatever other sessions and the streamer's edits do meanwhile.  *)
CapRespected ==
    [][\A c \in Card : copies'[c] > copies[c]
         => c \in active /\ (limit[c] = Unlimited \/ copies'[c] <= limit[c])]_vars

(* The answer "limit" is never given for a draw that has been granted,     *)
(* which is what the advisory lock is for: the caller refunds on it.       *)
LimitOnlyUngranted ==
    \A t \in Session : phase[t] = "limited" => history[batch[t]][draw[t]] = None

(* The card of a draw is final, every new history row comes with one copy  *)
(* of its card, and no copy without one: a redelivered draw adds nothing.  *)
GrantedOnce ==
    [][/\ \A e \in Event, i \in 1..MaxDraws :
            history'[e][i] # history[e][i] =>
              /\ history[e][i] = None
              /\ copies' = [copies EXCEPT ![history'[e][i]] = @ + 1]
       /\ history' = history => copies' = copies]_vars

(* A final draw implies the whole batch, and the notification of a batch   *)
(* is queued exactly with its final draw.                                  *)
BatchComplete ==
    \A e \in Event :
        history[e][Draws[e]] # None => \A j \in 1..Draws[e] : history[e][j] # None

QueuedWithFinalDraw ==
    \A e \in Event : e \in outbox <=> e \in Chat /\ history[e][Draws[e]] # None

(* What makes the properties above inductive.  A call in progress has its  *)
(* arguments and no answer; each lock has one holder; a card stays as its  *)
(* holder has read it; what the calls behind the duplicate check know of   *)
(* their draw stays true, and so does the room that Count has found.       *)
Arguments ==
    \A t \in Session : phase[t] # "idle" =>
        /\ batch[t] \in Event /\ draw[t] \in 1..Draws[batch[t]]
        /\ card[t] \in Card /\ reply[t] = "none"

EventLocked ==
    \A t, u \in Session :
        HoldsEvent(t) /\ HoldsEvent(u) /\ batch[t] = batch[u] /\ draw[t] = draw[u]
            => t = u

CardLocked ==
    \A t, u \in Session :
        HoldsCard(t) /\ HoldsCard(u) /\ card[t] = card[u] => t = u

CardHeld ==
    \A t \in Session :
        /\ HoldsCard(t) => /\ phase[t] \in {"count", "insert", "assemble", "commit", "limited"}
                           /\ cap[t] = limit[card[t]]
                           /\ card[t] \in active
        /\ phase[t] \in {"count", "insert"} \/ fresh[t] => HoldsCard(t)

DrawKnown ==
    \A t \in Session :
        /\ phase[t] \in {"card", "count", "insert", "limited"} \/ fresh[t]
             => history[batch[t]][draw[t]] = None
        /\ phase[t] \in {"assemble", "commit"} /\ ~fresh[t]
             => history[batch[t]][draw[t]] # None
        /\ fresh[t] => phase[t] \in {"assemble", "commit"}

RoomReserved ==
    \A t \in Session : phase[t] = "insert" \/ fresh[t] => Ledger!Room(card[t])

BatchReady ==
    \A t \in Session : phase[t] = "commit" => Assembled(batch[t], draw[t])

IInv ==
    /\ TypeOK /\ Arguments /\ EventLocked /\ CardLocked /\ CardHeld
    /\ DrawKnown /\ RoomReserved /\ BatchReady
    /\ BatchComplete /\ QueuedWithFinalDraw

(* A transaction is one atomic step of the ledger: the statements and      *)
(* locks of READ COMMITTED sessions amount to GachaLedger.                 *)
ImplementsLedger == Ledger!LedgerSpec

(* Every call is answered or fails: no transaction waits for ever, in      *)
(* particular not for another one that waits for it.                       *)
EveryCallEnds == \A t \in Session : phase[t] # "idle" ~> phase[t] = "idle"
=============================================================================
