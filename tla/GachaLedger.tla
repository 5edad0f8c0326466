----------------------------- MODULE GachaLedger -----------------------------
(***************************************************************************)
(* What execute_gacha_transaction_with_chat_outbox promises its callers:   *)
(* one call is one atomic step on the tables it touches.  A batch (one     *)
(* EventSub message) has up to MaxDraws draws, each with an event_id of    *)
(* its own.                                                                *)
(*   history   the card that draw i of batch e was granted (gacha_history) *)
(*   copies    the number of user_cards rows of a card                     *)
(*   outbox    batches whose notification has been queued; what becomes of *)
(*             the row is the subject of ChatOutbox                        *)
(*   limit     max_issuance_count, Unlimited for NULL                      *)
(*   active    cards with is_active                                        *)
(*   reply     the answer a caller has received to its last call           *)
(***************************************************************************)
EXTENDS Naturals

CONSTANTS
    Event,      \* message ids of redemptions and raids
    Draws,      \* cards drawn for a batch
    MaxDraws,   \* 15
    Card,
    Limits,     \* values of max_issuance_count: whole numbers, Unlimited
    Chat,       \* batches of streamers that announce in chat
    Caller,
    None,       \* no card
    Unlimited

ASSUME LedgerAssumption ==
    /\ MaxDraws \in Nat
    /\ Draws \in [Event -> 1..MaxDraws]
    /\ None \notin Card

VARIABLES history, copies, outbox, limit, active, reply

tables     == <<history, copies, outbox, limit, active>>
ledgerVars == <<history, copies, outbox, limit, active, reply>>

Reply == {"none", "granted", "duplicate", "limit"}

LedgerTypes ==
    /\ history \in [Event -> [1..MaxDraws -> Card \cup {None}]]
    /\ copies  \in [Card -> Nat]
    /\ outbox  \in SUBSET Event
    /\ limit   \in [Card -> Limits]
    /\ active  \in SUBSET Card
    /\ reply   \in [Caller -> Reply]

LedgerInit ==
    /\ history = [e \in Event |-> [i \in 1..MaxDraws |-> None]]
    /\ copies  = [c \in Card |-> 0]
    /\ outbox  = {}
    /\ limit   \in [Card -> Limits]
    /\ active  \in SUBSET Card
    /\ reply   = [t \in Caller |-> "none"]

Room(c) == c \in active /\ (limit[c] # Unlimited => copies[c] < limit[c])

(* The final draw is only recorded when the rest of the batch is there,    *)
(* and queues the notification unless it is queued already.                *)
Assembled(e, i) ==
    i = Draws[e] => \A j \in 1..(i - 1) : history[e][j] # None

Queued(e, i) == IF i = Draws[e] /\ e \in Chat THEN outbox \cup {e} ELSE outbox

Grant(t, e, i, c) ==
    /\ history[e][i] = None
    /\ Room(c)
    /\ Assembled(e, i)
    /\ history' = [history EXCEPT ![e] = [@ EXCEPT ![i] = c]]
    /\ copies'  = [copies EXCEPT ![c] = @ + 1]
    /\ outbox'  = Queued(e, i)
    /\ reply'   = [reply EXCEPT ![t] = "granted"]
    /\ UNCHANGED <<limit, active>>

Duplicate(t, e, i) ==
    /\ history[e][i] # None
    /\ Assembled(e, i)
    /\ outbox' = Queued(e, i)
    /\ reply'  = [reply EXCEPT ![t] = "duplicate"]
    /\ UNCHANGED <<history, copies, limit, active>>

LimitReached(t, e, i, c) ==
    /\ history[e][i] = None
    /\ ~Room(c)
    /\ reply' = [reply EXCEPT ![t] = "limit"]
    /\ UNCHANGED tables

Call(t, e, i, c) == Grant(t, e, i, c) \/ Duplicate(t, e, i) \/ LimitReached(t, e, i, c)

(* The call failed, its answer was lost, or the caller has moved on.       *)
Lose(t) ==
    /\ reply' = [reply EXCEPT ![t] = "none"]
    /\ UNCHANGED tables

(* The streamer edits a card.                                              *)
EditCard(c, n, on) ==
    /\ limit'  = [limit EXCEPT ![c] = n]
    /\ active' = IF on THEN active \cup {c} ELSE active \ {c}
    /\ UNCHANGED <<history, copies, outbox, reply>>

LedgerNext ==
    \/ \E t \in Caller, e \in Event, c \in Card :
         \E i \in 1..Draws[e] : Call(t, e, i, c)
    \/ \E t \in Caller : Lose(t)
    \/ \E c \in Card, n \in Limits, on \in BOOLEAN : EditCard(c, n, on)

LedgerSpec == LedgerInit /\ [][LedgerNext]_ledgerVars
=============================================================================
