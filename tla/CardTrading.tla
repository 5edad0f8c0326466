---------------------------- MODULE CardTrading ----------------------------
(***************************************************************************)
(* The statements of accept_trade_offer, run by concurrent database        *)
(* sessions under READ COMMITTED: a statement sees what was committed      *)
(* before it started, waits for the rows other transactions have locked,   *)
(* and checks its condition again when it has got one.  The writes of a    *)
(* transaction become visible at its COMMIT.  owner, gone, status and deal *)
(* are the committed tables (see TradeBoard).  A call in progress:         *)
(*   phase   the statement that comes next                                 *)
(*   user, offer, request   the arguments                                  *)
(*   held    rows of user_cards it has locked                              *)
(*   todo    rows the PERFORM still has to lock, row the one it waits for  *)
(*   payer   v_payer_user_card_id                                          *)
(*   counted rows of card_owner_stats its triggers have written            *)
(***************************************************************************)
EXTENDS Naturals

CONSTANTS User, Card, Offer, Request, Session,
          Copy, CardOf, Offerer, Offered, Wanted, None

ASSUME CardAssumption  == CardOf \in [Copy -> Card]
ASSUME OfferAssumption == /\ Offerer \in [Offer -> User]
                          /\ Offered \in [Offer -> Copy]
                          /\ Wanted  \in [Offer -> Card]
                          /\ \A o \in Offer : CardOf[Offered[o]] # Wanted[o]
ASSUME NoneAssumption  == None \notin User \cup Copy \cup Offer \cup Request

VARIABLES owner, gone, status, deal, reply,
          phase, user, offer, request, held, todo, row, payer, counted

tables   == <<owner, gone, status, deal>>
args     == <<user, offer, request>>
scanVars == <<todo, row>>
vars     == <<owner, gone, status, deal, reply,
              phase, user, offer, request, held, todo, row, payer, counted>>

Board == INSTANCE TradeBoard WITH Caller <- Session

Phase == {"idle", "offer", "offered", "perform", "lock", "choose", "pay",
          "stats", "commit"}

TypeOK ==
    /\ owner   \in [Copy -> User \cup {None}]
    /\ gone    \in SUBSET Card
    /\ status  \in [Offer -> Board!Status]
    /\ deal    \in [Offer -> Board!Deal \cup {None}]
    /\ reply   \in [Session -> Board!Reply]
    /\ phase   \in [Session -> Phase]
    /\ user    \in [Session -> User \cup {None}]
    /\ offer   \in [Session -> Offer \cup {None}]
    /\ request \in [Session -> Request \cup {None}]
    /\ held    \in [Session -> SUBSET Copy]
    /\ todo    \in [Session -> SUBSET Copy]
    /\ row     \in [Session -> Copy \cup {None}]
    /\ payer   \in [Session -> Copy \cup {None}]
    /\ counted \in [Session -> 0..4]

Init ==
    /\ Board!Init
    /\ phase   = [t \in Session |-> "idle"]
    /\ held    = [t \in Session |-> {}]
    /\ todo    = [t \in Session |-> {}]
    /\ row     = [t \in Session |-> None]
    /\ payer   = [t \in Session |-> None]
    /\ counted = [t \in Session |-> 0]

-----------------------------------------------------------------------------
(* Locks, kept to the end of the transaction                               *)

HoldsOffer(t, o) == offer[t] = o /\ phase[t] \notin {"idle", "offer"}

OfferFree(o) == \A t \in Session : ~HoldsOffer(t, o)

CopyFree(t, c) == \A s \in Session \ {t} : c \notin held[s]

(* Moving a copy makes the trigger of user_cards count the old and the new *)
(* owner's copies: first for the payment, then for the offered copy.       *)
StatRow(t, i) ==
    LET o == offer[t]
    IN  CASE i = 1 -> <<Wanted[o], user[t]>>
          [] i = 2 -> <<Wanted[o], Offerer[o]>>
          [] i = 3 -> <<CardOf[Offered[o]], Offerer[o]>>
          [] i = 4 -> <<CardOf[Offered[o]], user[t]>>

HoldsStat(t, k) == \E i \in 1..counted[t] : StatRow(t, i) = k

(* Session t waits for a lock of session s.                                *)
WaitsFor(t, s) ==
    /\ t # s
    /\ \/ phase[t] = "offer" /\ HoldsOffer(s, offer[t])
       \/ phase[t] = "offered" /\ owner[Offered[offer[t]]] = Offerer[offer[t]]
                               /\ Offered[offer[t]] \in held[s]
       \/ phase[t] = "lock" /\ row[t] \in held[s]
       \/ phase[t] = "pay" /\ owner[payer[t]] = user[t] /\ payer[t] \in held[s]
       \/ phase[t] = "stats" /\ HoldsStat(s, StatRow(t, counted[t] + 1))

Deadlocked(t) ==
    \E S \in SUBSET Session :
        t \in S /\ \A s \in S : \E r \in S : WaitsFor(s, r)

-----------------------------------------------------------------------------
(* A call                                                                  *)

Goto(t, p) == phase' = [phase EXCEPT ![t] = p]

Begin(t, u, o, r) ==
    /\ phase[t] = "idle"
    /\ Board!Ask(t, u, o, r)
    /\ Goto(t, "offer")
    /\ UNCHANGED <<held, scanVars, payer, counted>>

(* The end of a transaction releases its locks.                            *)
End(t, answer) ==
    /\ Goto(t, "idle")
    /\ Board!Answer(t, answer)
    /\ held'    = [held EXCEPT ![t] = {}]
    /\ todo'    = [todo EXCEPT ![t] = {}]
    /\ row'     = [row EXCEPT ![t] = None]
    /\ payer'   = [payer EXCEPT ![t] = None]
    /\ counted' = [counted EXCEPT ![t] = 0]

(* The row of the offer is locked, or free for t to lock.                  *)
Reads(t, o) == phase[t] = "offer" /\ offer[t] = o /\ OfferFree(o)

(* The request that completed the offer is answered before any check.      *)
Replay(t, o) ==
    /\ Reads(t, o)
    /\ Board!Settled(o, user[t], request[t])
    /\ End(t, "traded")
    /\ UNCHANGED tables

(* Mutant: the status is checked before the repeated request.              *)
RefuseClosedFirst(t, o) ==
    /\ Reads(t, o)
    /\ status[o] # "open"
    /\ End(t, "refused")
    /\ UNCHANGED tables

(* TRADE_OFFER_NOT_FOUND or OFFER_NOT_OPEN.                                *)
RefuseClosed(t, o) ==
    /\ Reads(t, o)
    /\ status[o] # "open" /\ ~Board!Settled(o, user[t], request[t])
    /\ End(t, "refused")
    /\ UNCHANGED tables

RefuseOwn(t, o) ==
    /\ Reads(t, o)
    /\ status[o] = "open" /\ user[t] = Offerer[o]
    /\ End(t, "refused")
    /\ UNCHANGED tables

Cancel(t, o) ==
    /\ status' = [status EXCEPT ![o] = "cancelled"]
    /\ End(t, "invalid")
    /\ UNCHANGED <<owner, gone, deal>>

VoidUndefined(t, o) ==
    /\ Reads(t, o)
    /\ status[o] = "open" /\ user[t] # Offerer[o] /\ ~Board!Defined(o)
    /\ Cancel(t, o)

(* TRADE_DISABLED: the settings of the two streamers, at any time.         *)
RefuseDisabled(t, o) ==
    /\ Reads(t, o)
    /\ status[o] = "open" /\ user[t] # Offerer[o] /\ Board!Defined(o)
    /\ End(t, "refused")
    /\ UNCHANGED tables

LockOffer(t, o) ==
    /\ Reads(t, o)
    /\ status[o] = "open" /\ user[t] # Offerer[o] /\ Board!Defined(o)
    /\ Goto(t, "offered")
    /\ UNCHANGED <<tables, reply, args, held, scanVars, payer, counted>>

(* The offered copy is locked when the offerer still has it.               *)
LockOffered(t, o) ==
    /\ phase[t] = "offered" /\ offer[t] = o
    /\ owner[Offered[o]] = Offerer[o] /\ CopyFree(t, Offered[o])
    /\ held' = [held EXCEPT ![t] = @ \cup {Offered[o]}]
    /\ Goto(t, "perform")
    /\ UNCHANGED <<tables, reply, args, scanVars, payer, counted>>

VoidLost(t, o) ==
    /\ phase[t] = "offered" /\ offer[t] = o
    /\ owner[Offered[o]] # Offerer[o]
    /\ Cancel(t, o)

(* Copies of the wanted card that t's user has and does not offer.         *)
Candidates(t) ==
    {c \in Copy : /\ owner[c] = user[t] /\ CardOf[c] = Wanted[offer[t]]
                  /\ \A p \in Offer : status[p] = "open" /\ Offerer[p] = user[t]
                                         => Offered[p] # c}

(* The PERFORM locks its rows one by one, in no particular order.          *)
Scan(t, rows) ==
    \/ /\ rows = {}
       /\ row'  = [row EXCEPT ![t] = None]
       /\ todo' = [todo EXCEPT ![t] = {}]
       /\ Goto(t, "choose")
    \/ \E c \in rows :
       /\ row'  = [row EXCEPT ![t] = c]
       /\ todo' = [todo EXCEPT ![t] = rows \ {c}]
       /\ Goto(t, "lock")

Perform(t) ==
    /\ phase[t] = "perform"
    /\ Scan(t, Candidates(t))
    /\ UNCHANGED <<tables, reply, args, held, payer, counted>>

(* A row that has changed hands while t waited for it is skipped.          *)
LockRow(t) ==
    /\ phase[t] = "lock" /\ CopyFree(t, row[t])
    /\ held' = [held EXCEPT ![t] = @ \cup {c \in {row[t]} : owner[c] = user[t]}]
    /\ Scan(t, todo[t])
    /\ UNCHANGED <<tables, reply, args, payer, counted>>

(* The choice takes no lock: it may find a copy that came after the scan.  *)
Choose(t) ==
    /\ phase[t] = "choose"
    /\ \E c \in Candidates(t) : payer' = [payer EXCEPT ![t] = c]
    /\ Goto(t, "pay")
    /\ UNCHANGED <<tables, reply, args, held, scanVars, counted>>

RefuseNotOwned(t) ==
    /\ \/ phase[t] = "choose" /\ Candidates(t) = {}
       \/ phase[t] = "pay" /\ owner[payer[t]] # user[t]
    /\ End(t, "refused")
    /\ UNCHANGED tables

(* Mutant: the payment is not locked.                                      *)
PayUnlocked(t) ==
    /\ phase[t] = "pay" /\ owner[payer[t]] = user[t]
    /\ Goto(t, "stats")
    /\ UNCHANGED <<tables, reply, args, held, scanVars, payer, counted>>

(* The conditional UPDATE of the payment.  The offered copy, locked before, *)
(* is moved next.                                                           *)
Pay(t) ==
    /\ phase[t] = "pay"
    /\ owner[payer[t]] = user[t] /\ CopyFree(t, payer[t])
    /\ held' = [held EXCEPT ![t] = @ \cup {payer[t]}]
    /\ Goto(t, "stats")
    /\ UNCHANGED <<tables, reply, args, scanVars, payer, counted>>

Count(t) ==
    /\ phase[t] = "stats"
    /\ \A s \in Session \ {t} : ~HoldsStat(s, StatRow(t, counted[t] + 1))
    /\ counted' = [counted EXCEPT ![t] = @ + 1]
    /\ Goto(t, IF counted[t] = 3 THEN "commit" ELSE "stats")
    /\ UNCHANGED <<tables, reply, args, held, scanVars, payer>>

Move(t, o) ==
    /\ owner'  = [owner EXCEPT ![payer[t]] = Offerer[o], ![Offered[o]] = user[t]]
    /\ status' = [status EXCEPT ![o] = "completed"]

Commit(t, o) ==
    /\ phase[t] = "commit" /\ offer[t] = o
    /\ Move(t, o)
    /\ deal' = [deal EXCEPT ![o] = [by |-> user[t], paid |-> payer[t],
                                    request |-> request[t]]]
    /\ End(t, "traded")
    /\ UNCHANGED gone

(* The connection breaks, or the database has found a deadlock.            *)
Abort(t) ==
    /\ phase[t] # "idle"
    /\ End(t, "none")
    /\ UNCHANGED tables

Statement(t) ==
    \/ \E o \in Offer :
          \/ Replay(t, o) \/ RefuseClosed(t, o) \/ RefuseOwn(t, o)
          \/ VoidUndefined(t, o) \/ RefuseDisabled(t, o) \/ LockOffer(t, o)
          \/ LockOffered(t, o) \/ VoidLost(t, o) \/ Commit(t, o)
    \/ Perform(t) \/ LockRow(t) \/ Choose(t) \/ RefuseNotOwned(t)
    \/ Pay(t) \/ Count(t)

-----------------------------------------------------------------------------
(* Everything else that changes the tables, in one step each, when it      *)
(* meets no lock.                                                          *)

CallsUnchanged == UNCHANGED <<phase, args, held, scanVars, payer, counted>>

Post(o) == Board!Post(o) /\ CallsUnchanged

Withdraw(o) == OfferFree(o) /\ Board!Withdraw(o) /\ CallsUnchanged

Obtain(u, c) == Board!Obtain(u, c) /\ CallsUnchanged

Delete(k) ==
    /\ \A o \in Offer : k \in {CardOf[Offered[o]], Wanted[o]} => OfferFree(o)
    /\ \A t \in Session : \A c \in held[t] : CardOf[c] # k
    /\ Board!Delete(k)
    /\ CallsUnchanged

Next ==
    \/ \E t \in Session, u \in User, o \in Offer, r \in Request : Begin(t, u, o, r)
    \/ \E t \in Session : Statement(t) \/ Abort(t)
    \/ \E o \in Offer : Post(o) \/ Withdraw(o)
    \/ \E u \in User, c \in Copy : Obtain(u, c)
    \/ \E k \in Card : Delete(k)

Spec == Init /\ [][Next]_vars

(* The database grants a lock to those who wait for it in turn, and ends   *)
(* a transaction of every deadlock.                                        *)
Fairness ==
    /\ \A t \in Session : SF_vars(Statement(t))
    /\ WF_vars(\E t \in Session : Deadlocked(t) /\ Abort(t))

-----------------------------------------------------------------------------
(* Properties                                                              *)

Moving(t) == phase[t] \in {"stats", "commit"}

(* What accept_trade_offer has checked still holds when it moves the two   *)
(* copies: the offer is open, the offered copy is the offerer's, and the   *)
(* payment, which was chosen without a lock, is the accepting user's.      *)
TransferGrounded ==
    \A t \in Session : Moving(t) =>
        /\ status[offer[t]] = "open" /\ user[t] # Offerer[offer[t]]
        /\ Board!Defined(offer[t])
        /\ owner[Offered[offer[t]]] = Offerer[offer[t]]
        /\ owner[payer[t]] = user[t] /\ CardOf[payer[t]] = Wanted[offer[t]]

(* No copy is moved by two transactions at a time.                         *)
NoDoubleSpend ==
    \A s, t \in Session : s # t /\ Moving(s) /\ Moving(t) =>
        {payer[s], Offered[offer[s]]} \cap {payer[t], Offered[offer[t]]} = {}

(* The statements amount to one atomic step of TradeBoard per call: copies *)
(* change hands in pairs, an offer is settled once, and a request that     *)
(* completed an offer is never refused.                                    *)
ImplementsBoard == Board!Spec

(* Every accept comes to an end: by an answer, or as the victim of a       *)
(* deadlock.                                                               *)
EveryAcceptEnds == \A t \in Session : (phase[t] # "idle") ~> (phase[t] = "idle")

-----------------------------------------------------------------------------
(* The inductive invariant: what each call holds and knows at its phase    *)

Calling(t) == phase[t] # "idle"

Arguments ==
    \A t \in Session : Calling(t) =>
        user[t] \in User /\ offer[t] \in Offer /\ request[t] \in Request

(* Row locks exclude each other.                                           *)
OfferLocked ==
    \A s, t \in Session : s # t /\ phase[s] \notin {"idle", "offer"}
                                /\ phase[t] \notin {"idle", "offer"}
                            => offer[s] # offer[t]

CopiesLocked == \A s, t \in Session : s # t => held[s] \cap held[t] = {}

OfferChecked ==
    \A t \in Session : phase[t] \notin {"idle", "offer"} =>
        /\ status[offer[t]] = "open" /\ user[t] # Offerer[offer[t]]
        /\ Board!Defined(offer[t])

OfferedLocked ==
    \A t \in Session : phase[t] \notin {"idle", "offer", "offered"} =>
        /\ Offered[offer[t]] \in held[t]
        /\ owner[Offered[offer[t]]] = Offerer[offer[t]]

PayerChosen ==
    \A t \in Session : phase[t] \in {"pay", "stats", "commit"} =>
        /\ payer[t] \in Copy /\ CardOf[payer[t]] = Wanted[offer[t]]
        /\ Moving(t) => payer[t] \in held[t] /\ owner[payer[t]] = user[t]

Counting ==
    \A t \in Session :
        (phase[t] = "stats" => counted[t] < 4) /\ (~Moving(t) => counted[t] = 0)

Scanning == \A t \in Session : phase[t] = "lock" => row[t] \in Copy

IInv == /\ TypeOK
        /\ Arguments /\ OfferLocked /\ CopiesLocked /\ OfferChecked
        /\ OfferedLocked /\ PayerChosen /\ Counting /\ Scanning
=============================================================================
