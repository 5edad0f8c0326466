---------------------------- MODULE ChatDelivery ----------------------------
(***************************************************************************)
(* What the chat outbox promises for the notification of a committed       *)
(* batch, without leases, workers or time: it is queued, it may show up in *)
(* the chat while it is queued, at most Budget times, and it is settled    *)
(* once.  Only a settled notification is forgotten.                        *)
(***************************************************************************)
EXTENDS Naturals

CONSTANTS Batch, Budget

VARIABLES state,   \* none, queued, sent or dead
          shown    \* how often the chat has shown the notification

vars == <<state, shown>>

Init == /\ state = [b \in Batch |-> "none"]
        /\ shown = [b \in Batch |-> 0]

Queue(b) ==
    /\ state[b] = "none"
    /\ state' = [state EXCEPT ![b] = "queued"]
    /\ shown' = [shown EXCEPT ![b] = 0]

Show(b) ==
    /\ state[b] = "queued" /\ shown[b] < Budget
    /\ shown' = [shown EXCEPT ![b] = @ + 1]
    /\ UNCHANGED state

Settle(b, s) ==
    /\ state[b] = "queued"
    /\ state' = [state EXCEPT ![b] = s]
    /\ UNCHANGED shown

(* The relay gives up on several notifications in one statement ...        *)
GiveUp(B) ==
    /\ \A b \in B : state[b] = "queued"
    /\ state' = [b \in Batch |-> IF b \in B THEN "dead" ELSE state[b]]
    /\ UNCHANGED shown

(* ... and forgets several in one statement.                               *)
Forget(B) ==
    /\ \A b \in B : state[b] \in {"sent", "dead"}
    /\ state' = [b \in Batch |-> IF b \in B THEN "none" ELSE state[b]]
    /\ UNCHANGED shown

Next ==
    \/ \E b \in Batch : Queue(b) \/ Show(b) \/ Settle(b, "sent") \/ Settle(b, "dead")
    \/ \E B \in SUBSET Batch : GiveUp(B) \/ Forget(B)

Spec == Init /\ [][Next]_vars
=============================================================================
