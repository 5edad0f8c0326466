--------------------------- MODULE MCRequestsLive ---------------------------
(***************************************************************************)
(* What is begun comes to an end: the transactions of the draws and the    *)
(* trades, parked redemptions, the runs of the migrations.                 *)
(***************************************************************************)
EXTENDS Naturals

CONSTANTS Scenes, ann, ben, X, Y, x1, y1, c1, b1, b2, l1, r1, t1, t2, ci,
          op, None, Unlimited

VARIABLES scene,
          txHistory, txCopies, txOutbox, txLimit, txActive, txPhase,
          txBatch, txDraw, txCard, txCap, txFresh, txReply,
          tradeOwner, tradeGone, tradeStatus, tradeDeal, tradeReply,
          tradePhase, tradeUser, tradeOffer, tradeRequest, tradeHeld,
          tradeTodo, tradeRow, tradePayer, tradeCounted,
          jobHistory, jobCopies, jobOutbox, jobLimit, jobActive, jobReply,
          jobPhase, jobJob, jobCopy, jobDone, jobPool, jobPick, jobTries,
          jobMisses, jobSeen, jobParked, jobSends, jobAcked, jobRefund,
          jobTold, jobClosed, jobLost,
          deployTree, deployTable, deployRows, deployDb, deployRan,
          deployLock, deployRun, deploySpent,
          kvStore, kvParked, kvFate, kvDone, kvAged, kvMode, kvCall, kvDue,
          kvCut, kvSwitches, kvSlow, kvFaults

txVars == <<txHistory, txCopies, txOutbox, txLimit, txActive, txPhase,
          txBatch, txDraw, txCard, txCap, txFresh, txReply>>
tradeVars == <<tradeOwner, tradeGone, tradeStatus, tradeDeal, tradeReply,
             tradePhase, tradeUser, tradeOffer, tradeRequest, tradeHeld,
             tradeTodo, tradeRow, tradePayer, tradeCounted>>
jobVars == <<jobHistory, jobCopies, jobOutbox, jobLimit, jobActive,
           jobReply, jobPhase, jobJob, jobCopy, jobDone, jobPool, jobPick,
           jobTries, jobMisses, jobSeen, jobParked, jobSends, jobAcked,
           jobRefund, jobTold, jobClosed, jobLost>>
deployVars == <<deployTree, deployTable, deployRows, deployDb, deployRan,
              deployLock, deployRun, deploySpent>>
drainVars == <<kvStore, kvParked, kvFate, kvDone, kvAged, kvMode, kvCall,
             kvDue, kvCut, kvSwitches, kvSlow, kvFaults>>

-----------------------------------------------------------------------------
(* Two sessions, a batch of one draw and one of two, one card.             *)
Grants == INSTANCE GachaTransaction WITH
    Event <- {b1, b2},
    Draws <- [e \in {b1, b2} |-> IF e = b1 THEN 1 ELSE 2], MaxDraws <- 2,
    Card <- {c1}, Limits <- {1, Unlimited}, Chat <- {b2},
    Session <- {t1, t2}, history <- txHistory, copies <- txCopies,
    outbox <- txOutbox, limit <- txLimit, active <- txActive,
    phase <- txPhase, batch <- txBatch, draw <- txDraw, card <- txCard,
    cap <- txCap, fresh <- txFresh, reply <- txReply

TxRests == Grants!Init /\ txActive = {} /\ txLimit[c1] = 1

-----------------------------------------------------------------------------
(* Two sessions and two offers that cross.                                 *)
Trades == INSTANCE CardTrading WITH
    User <- {ann, ben}, Card <- {X, Y}, Copy <- {x1, y1}, Offer <- {b1, b2},
    CardOf <- [c \in {x1, y1} |-> IF c = x1 THEN X ELSE Y],
    Offerer <- [o \in {b1, b2} |-> IF o = b1 THEN ann ELSE ben],
    Offered <- [o \in {b1, b2} |-> IF o = b1 THEN x1 ELSE y1],
    Wanted <- [o \in {b1, b2} |-> IF o = b1 THEN Y ELSE X], Request <- {r1},
    Session <- {t1, t2}, owner <- tradeOwner, gone <- tradeGone,
    status <- tradeStatus, deal <- tradeDeal, reply <- tradeReply,
    phase <- tradePhase, user <- tradeUser, offer <- tradeOffer,
    request <- tradeRequest, held <- tradeHeld, todo <- tradeTodo,
    row <- tradeRow, payer <- tradePayer, counted <- tradeCounted

-----------------------------------------------------------------------------
(* A batch of three draws that was parked.                                 *)
Parked == INSTANCE Redemption WITH
    Event <- {b1}, Draws <- [e \in {b1} |-> 3], MaxDraws <- 3, Card <- {c1},
    Limits <- {0, Unlimited}, Chat <- {}, Caller <- {l1, r1}, Live <- {l1},
    Relay <- {r1}, Raid <- {}, Editable <- {}, MaxSends <- 1, RpcTries <- 2,
    Reselects <- 2, history <- jobHistory, copies <- jobCopies,
    outbox <- jobOutbox, limit <- jobLimit, active <- jobActive,
    reply <- jobReply, phase <- jobPhase, job <- jobJob, copy <- jobCopy,
    done <- jobDone, pool <- jobPool, pick <- jobPick, tries <- jobTries,
    misses <- jobMisses, seen <- jobSeen, parked <- jobParked,
    sends <- jobSends, acked <- jobAcked, refund <- jobRefund,
    told <- jobTold, closed <- jobClosed, lost <- jobLost

JobRests == Parked!Init /\ jobActive = {} /\ jobLimit[c1] = 0

-----------------------------------------------------------------------------
(* Three files, an operator beside the workflow, a failure and a crash.    *)
Deploy == INSTANCE Migrations WITH
    Version <- 1..3, Old <- {1}, Adopted <- FALSE, Forbidden <- {2},
    Contracting <- {}, Runner <- {ci, op},
    Flags <- [r \in {ci, op} |-> {{}}], Threshold <- 4, Written <- {1},
    MaxChange <- 2, MaxFail <- 1, MaxCrash <- 1, MaxLoss <- 0,
    tree <- deployTree, table <- deployTable, rows <- deployRows,
    db <- deployDb, ran <- deployRan, lock <- deployLock, run <- deployRun,
    spent <- deploySpent

-----------------------------------------------------------------------------
(* Batches of two entries; three entries, two of which may stay for ever,  *)
(* a request that fails and one that runs out of time, and the cron.       *)
Drain == INSTANCE ParkDrain WITH
    Limit <- 2, MaxEntries <- 3, MaxOdd <- 2, MaxSwitch <- 1, MaxSlow <- 1,
    MaxFaults <- 1, kv <- kvStore, parked <- kvParked, fate <- kvFate,
    done <- kvDone, aged <- kvAged, mode <- kvMode, call <- kvCall,
    due <- kvDue, cut <- kvCut, switches <- kvSwitches, slow <- kvSlow,
    faults <- kvFaults

-----------------------------------------------------------------------------
(* One component works in a behaviour, as its scene says; the variables of *)
(* the others rest.                                                        *)
AllInit ==
    /\ scene \in Scenes
    /\ scene = "draws" => Grants!Init
    /\ scene # "draws" => TxRests
    /\ Trades!Init
    /\ scene = "parked" => Parked!Init
    /\ scene # "parked" => JobRests
    /\ Deploy!Init
    /\ Drain!Init

AllNext ==
    \/ /\ scene = "draws" /\ Grants!Next
       /\ UNCHANGED <<scene, tradeVars, jobVars, deployVars, drainVars>>
    \/ /\ scene = "trades" /\ Trades!Next
       /\ UNCHANGED <<scene, txVars, jobVars, deployVars, drainVars>>
    \/ /\ scene = "parked" /\ Parked!Next
       /\ UNCHANGED <<scene, txVars, tradeVars, deployVars, drainVars>>
    \/ /\ scene = "deploy" /\ Deploy!Next
       /\ UNCHANGED <<scene, txVars, tradeVars, jobVars, drainVars>>
    \/ /\ scene = "drain" /\ Drain!Next /\ kvDue' = kvDue
       /\ UNCHANGED <<scene, txVars, tradeVars, jobVars, deployVars>>

allVars == <<scene, txVars, tradeVars, jobVars, deployVars, drainVars>>

AllSpec == AllInit /\ [][AllNext]_allVars

(* The database runs every transaction and grants a lock to those who wait *)
(* for it in turn; the cron keeps replaying, every entry gets its turn     *)
(* (the oldest come first, and no more are parked than one request takes), *)
(* and what can succeed does so sooner or later; pushes keep starting      *)
(* migrations, and operators drop broken indexes.                          *)
LiveSpec ==
    /\ AllSpec
    /\ \/ scene = "draws" /\ Grants!Fairness
       \/ /\ scene = "trades"
          /\ \A t \in {t1, t2} : SF_tradeVars(Trades!Statement(t))
          /\ WF_tradeVars(\E t \in {t1, t2} : Trades!Deadlocked(t) /\ Trades!Abort(t))
       \/ scene = "parked" /\ Parked!Fairness
       \/ scene = "deploy" /\ Deploy!Fairness
       \/ scene = "drain" /\ Drain!Fairness
-----------------------------------------------------------------------------
(* Every call of the two transactions ends, whatever locks it waits for.   *)
EveryCallEnds ==
    /\ scene = "draws" => Grants!EveryCallEnds
    /\ scene = "trades" => Trades!EveryAcceptEnds

(* A parked redemption is completed, refunded, refused or given up at the  *)
(* end of its retention (eventsub-replay).                                 *)
ParkedIsSettled == scene = "parked" => Parked!ParkedIsSettled

(* Every run of the migrations ends, and in the end all files are recorded *)
(* (apply).                                                                *)
FilesRecorded == scene = "deploy" => Deploy!EveryRunEnds /\ Deploy!AllRecorded

(* When maintenance is over, the cron brings every parked entry that can   *)
(* be ended to its end, unless as many older ones as a batch holds stay    *)
(* for ever (eventsub-replay, drainEventSubParkBacklogForTarget).          *)
CronDrains == scene = "drain" => Drain!CronDrains
=============================================================================
