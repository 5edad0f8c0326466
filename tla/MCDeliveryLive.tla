--------------------------- MODULE MCDeliveryLive ---------------------------
(***************************************************************************)
(* What has been drawn reaches those who wait for it: the chat, by way of  *)
(* the outbox, and the screen of the streamer, by way of the overlay page. *)
(***************************************************************************)
EXTENDS Naturals

CONSTANTS Scenes, b1, r1, None

VARIABLES scene,
          outboxStatus, outboxAttempts, outboxLease, outboxTimer,
          outboxPhase, outboxJob, outboxTries, outboxWindow, outboxTold,
          outboxPosted, outboxReply, outboxStopped,
          pageGiven, pageSeq, pageLine, pageCommitted, pageLate,
          pageRoomOn, pageSrv, pageDead, pageCl, pageShown, pageDue, pageFaults

outboxVars == <<outboxStatus, outboxAttempts, outboxLease, outboxTimer,
              outboxPhase, outboxJob, outboxTries, outboxWindow, outboxTold,
              outboxPosted, outboxReply, outboxStopped>>
pageVars == <<pageGiven, pageSeq, pageLine, pageCommitted, pageLate,
            pageRoomOn, pageSrv, pageDead, pageCl, pageShown, pageDue, pageFaults>>

-----------------------------------------------------------------------------
(* A message and a relay; two attempts.                                    *)
Outbox == INSTANCE ChatOutbox WITH
    Batch <- {b1}, Live <- {}, Relay <- {r1}, MaxAttempts <- 2,
    SendTries <- 1, LeaseTicks <- 2, SendTicks <- 1,
    RetryTicks <- [n \in 1..2 |-> 1], SentTicks <- 1, DeadTicks <- 1,
    status <- outboxStatus, attempts <- outboxAttempts,
    lease <- outboxLease, timer <- outboxTimer, phase <- outboxPhase,
    job <- outboxJob, tries <- outboxTries, window <- outboxWindow,
    told <- outboxTold, posted <- outboxPosted, reply <- outboxReply,
    stopped <- outboxStopped

-----------------------------------------------------------------------------
(* Two draws and one fault.                                                *)
Screen == INSTANCE OverlayClient WITH
    Event <- {1, 2}, Line <- {1}, Me <- 1, PageRows <- 1, Buffer <- 2,
    Trigger <- 2, Endpoint <- {"A"}, Unusable <- {}, LateCommits <- FALSE,
    MaxFaults <- 1, given <- pageGiven, seq <- pageSeq, line <- pageLine,
    committed <- pageCommitted, late <- pageLate, roomOn <- pageRoomOn,
    srv <- pageSrv, dead <- pageDead, cl <- pageCl, shown <- pageShown, due <- pageDue,
    faults <- pageFaults

PageRests == Screen!Init /\ pageSrv = "polling"

-----------------------------------------------------------------------------
(* One component works in a behaviour, as its scene says; the variables of *)
(* the others rest.                                                        *)
AllInit ==
    /\ scene \in Scenes
    /\ Outbox!Init
    /\ scene = "page" => Screen!Init
    /\ scene # "page" => PageRests

AllNext ==
    \/ /\ scene = "outbox" /\ Outbox!Next
       /\ UNCHANGED <<scene, pageVars>>
    \/ /\ scene = "page" /\ Screen!Next
       /\ UNCHANGED <<scene, outboxVars>>

allVars == <<scene, outboxVars, pageVars>>

AllSpec == AllInit /\ [][AllNext]_allVars

(* The clock runs, a request ends, and the cron keeps starting relays that *)
(* run to their end or are stopped; a relay takes due rows in the order of *)
(* next_attempt_at, which later rows only join behind, so a row that stays *)
(* due gets its turn.  The page's timers fire, its requests are answered,  *)
(* frames arrive.                                                          *)
LiveSpec ==
    /\ AllSpec
    /\ \/ scene = "outbox" /\ Outbox!Fairness
       \/ scene = "page" /\ Screen!Fairness
-----------------------------------------------------------------------------
(* No queued notification stays queued: it is sent or given up, also when  *)
(* workers die in the last attempt (the relay of the chat outbox).         *)
EventuallySettled == scene = "outbox" => Outbox!EventuallySettled

(* Every draw that is committed in order comes to the page, whatever is    *)
(* lost on the way (subscribeToGachaResults).                              *)
EveryDrawShown == scene = "page" => Screen!EveryDrawShown
=============================================================================
