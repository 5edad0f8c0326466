---------------------------- MODULE MCOperations ----------------------------
(***************************************************************************)
(* Small instances of what runs beside the program: the migration runner   *)
(* and the error reporter.                                                 *)
(***************************************************************************)
EXTENDS Migrations, TLC

CONSTANTS Scenes, ci, op, a, q

VARIABLES scene,
          cut,        \* has the adoption of a database been cut off?
          reportRow, reportIssue, reportRun, reportOver, reportMissed,
          reportFaults

reportVars == <<reportRow, reportIssue, reportRun, reportOver, reportMissed,
              reportFaults>>

(* Three files; the last of two old ones builds an index.                  *)
Three == 1..3
PlainFlags == [r \in Runner |-> {{}}]
AdoptFlags == [r \in Runner |-> IF r = ci THEN {{}}
                                ELSE {{}, {"bootstrap"}, {"contract"}}]
AnyFlags == [r \in Runner |-> IF r = ci THEN {{}}
                              ELSE {{}, {"bootstrap"}, {"confirm", "contract"}}]

(* A connection may be lost instead of a statement or a run.               *)
Reconnecting == INSTANCE Migrations WITH
    MaxChange <- 1, MaxFail <- 0, MaxCrash <- 0, MaxLoss <- 1

(* A database that was built by other means, and an operator who adopts it.*)
Adopting == INSTANCE Migrations WITH
    Old <- {1, 2}, Adopted <- TRUE, Written <- {1}, Flags <- AdoptFlags,
    MaxChange <- 1, MaxFail <- 1, MaxCrash <- 1, MaxLoss <- 1

(* A bootstrap with the table made and files left, and a run that is past  *)
(* waiting for the lock.                                                   *)
Adopts(r) == "bootstrap" \in run[r].flags /\ run[r].at = "next" /\ run[r].todo # {}
AtWork(r) == run[r].at \notin {"off", "lock"}

(* The bootstrap ends there, or another run is at work beside it.          *)
CutsOff ==
    \E r \in Runner :
      /\ Adopts(r)
      /\ \/ run'[r].at \in {"unlock", "off"}
         \/ \E s \in Runner \ {r} : AtWork(s)

-----------------------------------------------------------------------------
(* One signature of errors and an inquiry, two rows, one fault.            *)
Report == INSTANCE ErrorReporter WITH
    Sig <- {a}, Inquiry <- {q}, Backlog <- "backlog", Run <- {1},
    ErrorLimit <- 2, InquiryLimit <- 1, MaxNew <- 1, MaxRows <- 2,
    MaxClosed <- 1, MaxFull <- 1, MaxFaults <- 1, row <- reportRow,
    issue <- reportIssue, run <- reportRun, over <- reportOver,
    missed <- reportMissed, faults <- reportFaults

-----------------------------------------------------------------------------
(* One component works in a behaviour, as its scene says; the variables of *)
(* the others rest.                                                        *)
AllInit ==
    /\ scene \in Scenes
    /\ scene = "reconnecting" => Reconnecting!Init
    /\ scene = "adopting" => Adopting!Init
    /\ scene \notin {"reconnecting", "adopting"} => Init
    /\ Report!Init
    /\ cut = FALSE

AllNext ==
    \/ /\ scene = "migrations" /\ Next
       /\ UNCHANGED <<scene, cut, reportVars>>
    \/ /\ scene = "reconnecting" /\ Reconnecting!Next
       /\ UNCHANGED <<scene, cut, reportVars>>
    \/ /\ scene = "adopting" /\ Adopting!Next
       /\ cut' = (cut \/ CutsOff)
       /\ UNCHANGED <<scene, reportVars>>
    \/ /\ scene = "report" /\ Report!Next
       /\ UNCHANGED <<scene, cut, vars>>

allVars == <<scene, cut, vars, reportVars>>

AllSpec == AllInit /\ [][AllNext]_allVars
-----------------------------------------------------------------------------
(* Until a bootstrap is cut off, nothing the database was built with is    *)
(* executed by a run that nobody told to, whatever statement fails,        *)
(* whatever run dies and whichever connection is lost: the guard against a *)
(* forgotten --bootstrap.  Cut off is a bootstrap that ends after it has   *)
(* made the table and before it has recorded its last file, or beside      *)
(* which another run is at work, as a lost lock allows: the guard looks    *)
(* only at whether the table is there, and the next plain run passes it.   *)
AdoptedNeverRun == scene = "adopting" /\ ~cut => Adopting!OldNeverRun

(* A marked row was told to the issue it is marked with; a topic has more  *)
(* than one issue only for searches that missed one; the backlog alarm     *)
(* opens one issue (processErrors, processInquiries, the backlog check).   *)
MarkedIsTold ==
    scene = "report" => /\ Report!TypeOK /\ Report!MarkedIsTold
                        /\ Report!NoNeedlessIssue /\ Report!OneBacklogIssue
=============================================================================
