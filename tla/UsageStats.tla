----------------------------- MODULE UsageStats ------------------------------
(***************************************************************************)
(* The statistics that triggers keep: how many copies of a card a viewer   *)
(* owns (card_owner_stats) and what a viewer has redeemed with a streamer  *)
(* (channel_point_usage_stats).  After every change of a row the trigger   *)
(* counts the viewer's rows and writes the count, as two statements of a   *)
(* transaction at READ COMMITTED: each sees what is committed when it      *)
(* begins, and waits only for a row of the statistics that another         *)
(* transaction has written.                                                *)
(***************************************************************************)
EXTENDS Integers, Sequences, FiniteSets

CONSTANTS Row, User, Session

Nobody == "none"

VARIABLES owner,              \* user_cards or gacha_history: whose row it is
          stat,               \* the statistics, 0: no row
          tx                  \* the open transactions

vars == <<owner, stat, tx>>

NoTx == [at |-> "idle", row |-> Nobody, to |-> Nobody, queue |-> <<>>,
         seen |-> 0, wrote |-> <<>>, fresh |-> {}]

Count(o, u) == Cardinality({r \in Row : o[r] = u})

TypeOK ==
    /\ owner \in [Row -> User \cup {Nobody}]
    /\ stat \in [User -> 0..Cardinality(Row)]
    /\ \A s \in Session :
         /\ tx[s].at \in {"idle", "count", "write", "commit"}
         /\ (tx[s].at \in {"count", "write"}) = (tx[s].queue # <<>>)
         /\ DOMAIN tx[s].wrote \cup tx[s].fresh \subseteq User
         /\ \A q \in Session \ {s} :       \* a row of the statistics is
              DOMAIN tx[s].wrote           \* written by one at a time
                  \cap DOMAIN tx[q].wrote = {}

Init ==
    /\ owner = [r \in Row |-> Nobody]
    /\ stat = [u \in User |-> 0]
    /\ tx = [s \in Session |-> NoTx]
-----------------------------------------------------------------------------
\* The trigger refreshes the old viewer first, then the new one.
Viewers(old, new) ==
    CASE old = Nobody -> <<new>> [] new = Nobody -> <<old>>
      [] OTHER -> <<old, new>>

\* A transaction inserts, moves or deletes a row.
Change(s, r, u) ==
    /\ tx[s].at = "idle" /\ owner[r] # u
    /\ \A q \in Session : tx[q].at # "idle" => tx[q].row # r
    /\ tx' = [tx EXCEPT ![s] = [NoTx EXCEPT !.at = "count", !.row = r,
                !.to = u, !.queue = Viewers(owner[r], u)]]
    /\ UNCHANGED <<owner, stat>>

Insert(s, r, u) == owner[r] = Nobody /\ Change(s, r, u)
Move(s, r, u)   == owner[r] # Nobody /\ Change(s, r, u)
Remove(s, r)    == Change(s, r, Nobody)

\* What a statement of s sees.
View(s) == [r \in Row |-> IF tx[s].at # "idle" /\ r = tx[s].row
                          THEN tx[s].to ELSE owner[r]]

(* Mutant: the trigger does not see the change it was fired for.           *)
SeeBefore(s) ==
    /\ tx[s].at = "count"
    /\ tx' = [tx EXCEPT ![s].at = "write",
                ![s].seen = Count(owner, Head(tx[s].queue)),
                ![s].fresh = @ \cup {Head(tx[s].queue)}]
    /\ UNCHANGED <<owner, stat>>
See(s) ==
    /\ tx[s].at = "count"
    /\ tx' = [tx EXCEPT ![s].at = "write",
                ![s].seen = Count(View(s), Head(tx[s].queue)),
                ![s].fresh = @ \cup {Head(tx[s].queue)}]
    /\ UNCHANGED <<owner, stat>>

Held(s, u) == \E q \in Session \ {s} : u \in DOMAIN tx[q].wrote

Wrote(s, w) ==
    /\ tx' = [tx EXCEPT ![s].wrote = w, ![s].queue = Tail(@),
                ![s].at = IF Len(tx[s].queue) = 1 THEN "commit" ELSE "count"]
    /\ UNCHANGED <<owner, stat>>

With(w, u, n) == [v \in DOMAIN w \cup {u} |-> IF v = u THEN n ELSE w[v]]

Upsert(s) ==
    LET u == Head(tx[s].queue) IN
    /\ tx[s].at = "write" /\ tx[s].seen > 0 /\ ~Held(s, u)
    /\ Wrote(s, With(tx[s].wrote, u, tx[s].seen))

\* A deletion passes over a row that is not committed yet.
Clear(s) ==
    LET u == Head(tx[s].queue) IN
    /\ tx[s].at = "write" /\ tx[s].seen = 0
    /\ IF stat[u] = 0 THEN Wrote(s, tx[s].wrote)
       ELSE ~Held(s, u) /\ Wrote(s, With(tx[s].wrote, u, 0))

Commit(s) ==
    /\ tx[s].at = "commit" /\ owner' = View(s)
    /\ stat' = [u \in User |-> IF u \in DOMAIN tx[s].wrote
                               THEN tx[s].wrote[u] ELSE stat[u]]
    /\ tx' = [q \in Session |->
                IF q = s THEN NoTx
                ELSE [tx[q] EXCEPT !.fresh =
                        @ \ {owner[tx[s].row], tx[s].to}]]

\* A deadlock, a timeout or an error of a later statement.
Abort(s) ==
    /\ tx[s].at # "idle" /\ tx' = [tx EXCEPT ![s] = NoTx]
    /\ UNCHANGED <<owner, stat>>

Next ==
    \E s \in Session :
        \/ \E r \in Row : \/ \E u \in User : Insert(s, r, u) \/ Move(s, r, u)
                          \/ Remove(s, r)
        \/ See(s) \/ Upsert(s) \/ Clear(s) \/ Commit(s) \/ Abort(s)

Spec == Init /\ [][Next]_vars
-----------------------------------------------------------------------------
(* The statistics of a viewer are those of the viewer's rows whenever no   *)
(* transaction is open.                                                    *)
StatsFollow ==
    (\A s \in Session : tx[s].at = "idle") =>
        \A u \in User : stat[u] = Count(owner, u)

(* A transaction leaves the statistics of a viewer right, whatever they    *)
(* were before, unless another one of the same viewer committed after this *)
(* one had counted.                                                        *)
CommitsFreshCount ==
    \A s \in Session, u \in User :
        tx[s].at = "commit" /\ u \in tx[s].fresh /\ owner' # owner
        /\ tx'[s].at = "idle" => stat'[u] = Count(owner', u)
=============================================================================
