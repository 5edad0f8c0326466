----------------------------- MODULE MCHandling -----------------------------
(***************************************************************************)
(* Small instances of the way of a redemption from Twitch to the cards:    *)
(* its handling by the webhook and by the replay, the packs it draws from, *)
(* and the list of cards a streamer keeps.                                 *)
(***************************************************************************)
EXTENDS Redemption, TLC

CONSTANTS Scenes, Single, Triple, c3, l1, r1, x, y, a, b, c, full, compact

VARIABLES scene,
          jobHistory, jobCopies, jobOutbox, jobLimit, jobActive, jobReply,
          jobPhase, jobJob, jobCopy, jobDone, jobPool, jobPick, jobTries,
          jobMisses, jobSeen, jobParked, jobSends, jobAcked, jobRefund,
          jobTold, jobClosed, jobLost,
          packsDb, packsPremium, packsTab, packsRq, packsAct, packsDropped,
          packsOps, packsLost, packsLapses,
          listRow, listList, listShown, listOp, listDoubt

jobVars == <<jobHistory, jobCopies, jobOutbox, jobLimit, jobActive,
           jobReply, jobPhase, jobJob, jobCopy, jobDone, jobPool, jobPick,
           jobTries, jobMisses, jobSeen, jobParked, jobSends, jobAcked,
           jobRefund, jobTold, jobClosed, jobLost>>
packsVars == <<packsDb, packsPremium, packsTab, packsRq, packsAct,
             packsDropped, packsOps, packsLost, packsLapses>>
listVars == <<listRow, listList, listShown, listOp, listDoubt>>

(* A batch of two draws of two single cards that Twitch sends twice,       *)
(* handled by a webhook and by the replay at the same time.                *)
TwoDraws == [e \in {Triple} |-> 2]

-----------------------------------------------------------------------------
(* A batch of three handled one time after the other while the card is     *)
(* edited; a raid, and a single draw, that are sent twice.                 *)
Alone == INSTANCE Redemption WITH
    Event <- {Triple}, Draws <- [e \in {Triple} |-> 3], Card <- {c3},
    Limits <- {1, 2}, Relay <- {}, Caller <- {l1}, Editable <- {c3},
    MaxSends <- 3, history <- jobHistory, copies <- jobCopies,
    outbox <- jobOutbox, limit <- jobLimit, active <- jobActive,
    reply <- jobReply, phase <- jobPhase, job <- jobJob, copy <- jobCopy,
    done <- jobDone, pool <- jobPool, pick <- jobPick, tries <- jobTries,
    misses <- jobMisses, seen <- jobSeen, parked <- jobParked,
    sends <- jobSends, acked <- jobAcked, refund <- jobRefund,
    told <- jobTold, closed <- jobClosed, lost <- jobLost
Raids == INSTANCE Redemption WITH
    Event <- {Single}, Draws <- [e \in {Single} |-> 1], Card <- {c3},
    Raid <- {Single}, history <- jobHistory, copies <- jobCopies,
    outbox <- jobOutbox, limit <- jobLimit, active <- jobActive,
    reply <- jobReply, phase <- jobPhase, job <- jobJob, copy <- jobCopy,
    done <- jobDone, pool <- jobPool, pick <- jobPick, tries <- jobTries,
    misses <- jobMisses, seen <- jobSeen, parked <- jobParked,
    sends <- jobSends, acked <- jobAcked, refund <- jobRefund,
    told <- jobTold, closed <- jobClosed, lost <- jobLost
Refund == INSTANCE Redemption WITH
    Event <- {Single}, Draws <- [e \in {Single} |-> 1], Card <- {c3},
    history <- jobHistory, copies <- jobCopies, outbox <- jobOutbox,
    limit <- jobLimit, active <- jobActive, reply <- jobReply,
    phase <- jobPhase, job <- jobJob, copy <- jobCopy, done <- jobDone,
    pool <- jobPool, pick <- jobPick, tries <- jobTries,
    misses <- jobMisses, seen <- jobSeen, parked <- jobParked,
    sends <- jobSends, acked <- jobAcked, refund <- jobRefund,
    told <- jobTold, closed <- jobClosed, lost <- jobLost

JobRests == Raids!Init /\ jobActive = {}

-----------------------------------------------------------------------------
(* Every request from one page; renames from two pages, one answer lost;   *)
(* two pages whose routes read and write without a pause, while the plan   *)
(* may lapse.                                                              *)
Packs == INSTANCE CardPacks WITH
    Name <- {a, b}, Card <- {x, y}, Tab <- {full},
    Kinds <- {"names", "rename", "weights", "card", "bind"}, MaxOps <- 4,
    MaxLost <- 0, MaxLapses <- 0, db <- packsDb, premium <- packsPremium,
    tab <- packsTab, rq <- packsRq, act <- packsAct,
    dropped <- packsDropped, ops <- packsOps, lost <- packsLost,
    lapses <- packsLapses
Renames == INSTANCE CardPacks WITH
    Name <- {a, b, c}, Card <- {x}, Tab <- {full, compact},
    Kinds <- {"rename"}, MaxOps <- 2, MaxLost <- 1, MaxLapses <- 0,
    db <- packsDb, premium <- packsPremium, tab <- packsTab, rq <- packsRq,
    act <- packsAct, dropped <- packsDropped, ops <- packsOps,
    lost <- packsLost, lapses <- packsLapses
Serial == INSTANCE CardPacks WITH
    Name <- {a, b}, Card <- {x}, Tab <- {full, compact},
    Kinds <- {"names", "rename", "weights"}, MaxOps <- 2, MaxLost <- 0,
    MaxLapses <- 1, db <- packsDb, premium <- packsPremium, tab <- packsTab,
    rq <- packsRq, act <- packsAct, dropped <- packsDropped,
    ops <- packsOps, lost <- packsLost, lapses <- packsLapses

PacksRests == Packs!Init /\ packsDb = Packs!Blank

-----------------------------------------------------------------------------
(* One operation at a time, requests and answers may be lost; two          *)
(* operations of one page at a time.                                       *)
List == INSTANCE CardList WITH
    Card <- {x, y}, Op <- {1}, MaxNumber <- 2,
    Fault <- {"request", "reply"}, row <- listRow, list <- listList,
    shown <- listShown, op <- listOp, doubt <- listDoubt
Busy == INSTANCE CardList WITH
    Card <- {x}, Op <- {1, 2}, MaxNumber <- 0, Fault <- {}, row <- listRow,
    list <- listList, shown <- listShown, op <- listOp, doubt <- listDoubt

ListRests == List!Init /\ listRow = [d \in {x, y} |-> [is |-> "new", active |-> TRUE, number |-> 0]]

-----------------------------------------------------------------------------
(* One component works in a behaviour, as its scene says; the variables of *)
(* the others rest.                                                        *)
AllInit ==
    /\ scene \in Scenes
    /\ scene = "batch" => Init
    /\ scene # "batch" => Init /\ active = {}
    /\ scene = "alone" => Alone!Init
    /\ scene = "raid" => Raids!Init
    /\ scene = "refund" => Refund!Init
    /\ scene \notin {"alone", "raid", "refund"} => JobRests
    /\ scene = "packs" => Packs!Init
    /\ scene = "renames" => Renames!Init
    /\ scene = "serial" => Serial!Init
    /\ scene \notin {"packs", "renames", "serial"} => PacksRests
    /\ scene = "list" => List!Init
    /\ scene = "busy" => Busy!Init
    /\ scene \notin {"list", "busy"} => ListRests

AllNext ==
    \/ /\ scene = "batch" /\ Next
       /\ UNCHANGED <<scene, jobVars, packsVars, listVars>>
    \/ /\ scene = "alone" /\ Alone!Next
       /\ UNCHANGED <<scene, vars, packsVars, listVars>>
    \/ /\ scene = "raid" /\ Raids!Next
       /\ UNCHANGED <<scene, vars, packsVars, listVars>>
    \/ /\ scene = "refund" /\ Refund!Next
       /\ UNCHANGED <<scene, vars, packsVars, listVars>>
    \/ /\ scene = "packs" /\ Packs!Next
       /\ UNCHANGED <<scene, vars, jobVars, listVars>>
    \/ /\ scene = "renames" /\ Renames!Next
       /\ UNCHANGED <<scene, vars, jobVars, listVars>>
    \/ /\ scene = "serial" /\ Serial!Next /\ Serial!Serial
       /\ UNCHANGED <<scene, vars, jobVars, listVars>>
    \/ /\ scene = "list" /\ List!Next
       /\ UNCHANGED <<scene, vars, jobVars, packsVars>>
    \/ /\ scene = "busy" /\ Busy!Next
       /\ UNCHANGED <<scene, vars, jobVars, packsVars>>

allVars == <<scene, vars, jobVars, packsVars, listVars>>

AllSpec == AllInit /\ [][AllNext]_allVars
-----------------------------------------------------------------------------
(* A raid Twitch has a 2xx for is settled or parked, and announced only    *)
(* with its card (the webhook, the replay).                                *)
RaidsHold == scene = "raid" => Raids!AcceptedIsKept /\ Raids!ToldComplete

(* The replay deletes an entry only when its event is settled; and a batch *)
(* is not refunded once draws of it are on record, when its handlings      *)
(* follow each other (the replay route, handleRedemption).                 *)
EndsRightly ==
    [][/\ scene = "batch" => KeepsEntries
       /\ scene = "alone" => Alone!NoBatchRefunded]_allVars

(* What names a pack names a registered one; weights are kept for          *)
(* registered packs only; a page alone shows what the server has.          *)
PacksHold ==
    /\ scene = "packs" => /\ Packs!TypeOK /\ Packs!NoOrphan
                          /\ Packs!PageFollows /\ Packs!WeightsRegistered
    /\ scene = "renames" => Renames!NoOrphan
    /\ scene = "serial" => Serial!WeightsRegistered

(* With nothing under way the list of cards is the server's, unless the    *)
(* page was told less than happened; a save of the numbers is not refused  *)
(* for a number the page itself is about to change.                        *)
ListFollowsServer ==
    /\ scene = "list" => List!TypeOK /\ List!ListFollowsServer /\ List!NoSelfConflict
    /\ scene = "busy" => Busy!TypeOK /\ Busy!NoSelfConflict

(* Packs: a name comes or goes only when a streamer has asked for this, a  *)
(* rename moves packs as a whole, and on the basic plan the list does not  *)
(* grow.  Cards: a save of the numbers that succeeded has given every card *)
(* the number that was asked for, also where the page's own list was       *)
(* wrong; and a reload that no change came between makes the list the      *)
(* server's (the settings and the rename route, CardManager).              *)
DoneAsAsked ==
    [][/\ scene = "packs" => Packs!AskedFor
       /\ scene = "renames" => Renames!AskedFor /\ Renames!MovesWholePacks
       /\ scene = "serial" => Serial!NoGrowthOnBasic
       /\ scene = "list" => List!SavesNumbers /\ List!RepairsList
       /\ scene = "busy" => Busy!RepairsList]_allVars

(* What the gacha transaction's migration says its advisory lock is for: a *)
(* handling that comes after the commit of the same event must not refund  *)
(* because it sees the issuance limit first.                               *)
NoLateRefund == scene = "refund" => Refund!NoRefundAfterGrant
=============================================================================
