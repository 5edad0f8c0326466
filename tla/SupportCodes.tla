---------------------------- MODULE SupportCodes ----------------------------
(***************************************************************************)
(* Support codes and the plan they give.  A code is shared by many users;  *)
(* activating it gives its user a license.  The activation is a database   *)
(* function: a transaction of several statements, each of which reads what *)
(* was committed before it, under a lock on the row of its code.  The      *)
(* valid licenses give the plan, together with the cached Twitch           *)
(* subscription (SubCheck).                                                *)
(***************************************************************************)
EXTENDS Naturals, FiniteSets

CONSTANTS
  User,         \* users
  Code,         \* codes on record
  Call,         \* requests of activations; their number bounds them
  PlanOf,       \* the plan of each code: [Code -> {"support", "patron"}]
  MaxChanges    \* bound on the operator's changes of a code's status

VARIABLES
  codes,     \* support_codes: [status, count]
  licenses,  \* user_licenses: pairs of a user and a code, committed
  call,      \* the activations: [at, user, code, drop (deleted, uncommitted)]
  changes    \* how often a status was changed

vars == <<codes, licenses, call, changes>>

Valid == {"active", "rotating"}

\* Of the plans, patron and the subscription count the same.
Priority(plan) == CASE plan = "basic" -> 0 [] plan = "support" -> 1 [] OTHER -> 2

CodesOf(u, held) == {c \in Code : <<u, c>> \in held /\ codes[c].status \in Valid}

LicensePriority(u, held) ==
  CASE \E c \in CodesOf(u, held) : PlanOf[c] = "patron" -> 2
    [] CodesOf(u, held) # {} /\ \A c \in CodesOf(u, held) : PlanOf[c] = "support" -> 1
    [] OTHER -> 0

Init ==
  /\ codes = [c \in Code |-> [status |-> "active", count |-> 0]]
  /\ licenses = {}
  /\ call = [k \in Call |-> [at |-> "new", user |-> {}, code |-> {}, drop |-> {}]]
  /\ changes = 0

-----------------------------------------------------------------------------
InTransaction(k) == call[k].at \in {"locked", "clear", "dropped"}

Unlocked(c) == ~\E k \in Call : InTransaction(k) /\ call[k].code = {c}

Answer(k, how) == call' = [call EXCEPT ![k].at = how]

Usable(c) == codes[c].status = "active"

(* A user enters a code: its row is locked and its status read.            *)
Enter(k, u, c) ==
  /\ call[k].at = "new"
  /\ Unlocked(c)
  /\ call' = [call EXCEPT ![k].user = {u}, ![k].code = {c},
                          ![k].at = IF Usable(c) THEN "locked" ELSE "refused"]
  /\ UNCHANGED <<codes, licenses, changes>>

Mine(k) == call[k].user \X call[k].code

Owned(k) == Mine(k) \subseteq licenses

(* A license for this very code ends it before anything is deleted.        *)
CheckOwn(k) ==
  /\ call[k].at = "locked"
  /\ Answer(k, IF Owned(k) THEN "already" ELSE "clear")
  /\ UNCHANGED <<codes, licenses, changes>>

Higher(u, c) ==
  {l \in licenses : l[1] = u /\ codes[l[2]].status \in Valid
                      /\ Priority(PlanOf[l[2]]) > Priority(PlanOf[c])}

(* The valid licenses above the new one are deleted.                       *)
DropHigher(k) ==
  /\ call[k].at = "clear"
  /\ \E u \in call[k].user, c \in call[k].code :
       call' = [call EXCEPT ![k].at = "dropped", ![k].drop = Higher(u, c)]
  /\ UNCHANGED <<codes, licenses, changes>>

(* The license is inserted and the use of the code counted.  A license     *)
(* that appeared meanwhile ends it as the check does, the deletion stays.  *)
Commit(k) ==
  /\ call[k].at = "dropped"
  /\ licenses' = (licenses \ call[k].drop) \cup Mine(k)
  /\ IF Mine(k) \subseteq licenses
     THEN Answer(k, "already") /\ UNCHANGED codes
     ELSE /\ Answer(k, "given")
          /\ codes' = [c \in Code |-> IF c \in call[k].code
                                      THEN [codes[c] EXCEPT !.count = @ + 1] ELSE codes[c]]
  /\ UNCHANGED changes

(* The transaction fails or its connection is lost: nothing happened.      *)
Abort(k) ==
  /\ InTransaction(k)
  /\ Answer(k, "failed")
  /\ UNCHANGED <<codes, licenses, changes>>

(* The user goes back to the basic plan: one statement.                    *)
Deactivate(u) ==
  /\ \E l \in licenses : l[1] = u
  /\ licenses' = {l \in licenses : l[1] # u}
  /\ UNCHANGED <<codes, call, changes>>

(* The operator changes the status of a code in the database.              *)
SetStatus(c, status) ==
  /\ changes < MaxChanges
  /\ codes[c].status # status
  /\ Unlocked(c)
  /\ codes' = [codes EXCEPT ![c].status = status]
  /\ changes' = changes + 1
  /\ UNCHANGED <<licenses, call>>

Activation(k) == CheckOwn(k) \/ DropHigher(k) \/ Commit(k) \/ Abort(k)

Next ==
  \/ \E k \in Call, u \in User, c \in Code : Enter(k, u, c)
  \/ \E k \in Call : Activation(k)
  \/ \E u \in User : Deactivate(u)
  \/ \E c \in Code, s \in {"active", "rotating", "revoked"} : SetStatus(c, s)

Spec == Init /\ [][Next]_vars

(* No user sends two requests at a time, and no code comes back to life.   *)
Alone == \A j, k \in Call : InTransaction(j) /\ InTransaction(k) /\ j # k
                              => call[j].user # call[k].user
CalmNext ==
  /\ Next /\ Alone'
  /\ \A c \in Code : codes[c].status = "revoked" => codes'[c].status = "revoked"

-----------------------------------------------------------------------------
\* Every value has its type.
TypeOK ==
  /\ codes \in [Code -> [status : {"active", "rotating", "revoked"}, count : Nat]]
  /\ licenses \subseteq User \X Code
  /\ \A k \in Call : /\ call[k].user \subseteq User /\ call[k].code \subseteq Code
                     /\ call[k].drop \subseteq User \X Code
                     /\ Cardinality(Mine(k)) <= 1
  /\ changes \in 0..MaxChanges

(* A license is given only while its code may be activated.                *)
GivesActiveOnly ==
  \A u \in User, c \in Code :
      <<u, c>> \in licenses' \ licenses => codes[c].status = "active"

(* A request that is told "already" changed nothing, whatever ran beside   *)
(* it: the licenses above are still there.                                 *)
RefusalChangesNothing ==
  \A k \in Call : call'[k].at = "already" /\ call[k].at # "already"
                    => licenses' = licenses

(* After an activation the licenses give the plan of the code: the best    *)
(* one when it is better, a lower one when the user chose to step down.    *)
GivesItsPlan ==
  \A k \in Call, u \in User, c \in Code :
      call[k].user = {u} /\ call[k].code = {c} /\ call[k].at = "dropped"
        /\ call'[k].at = "given"
        => LicensePriority(u, licenses') = Priority(PlanOf[c])
=============================================================================
