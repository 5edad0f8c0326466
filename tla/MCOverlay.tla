----------------------------- MODULE MCOverlay ------------------------------
(***************************************************************************)
(* Small instances of the way of a draw to the screen: the room of a       *)
(* streamer, the page that subscribes to it, the queue of the cards it     *)
(* shows.                                                                  *)
(***************************************************************************)
EXTENDS OverlayRoom, TLC

CONSTANTS Scenes, e1, e2, c1, obs

VARIABLES scene,
          pageGiven, pageSeq, pageLine, pageCommitted, pageLate,
          pageRoomOn, pageSrv, pageDead, pageCl, pageShown, pageDue, pageFaults,
          showP, showRecords, showLeft, showCame, showShown, showGone,
          showReloads, showThrows, showLapses

pageVars == <<pageGiven, pageSeq, pageLine, pageCommitted, pageLate,
            pageRoomOn, pageSrv, pageDead, pageCl, pageShown, pageDue, pageFaults>>
showVars == <<showP, showRecords, showLeft, showCame, showShown, showGone,
            showReloads, showThrows, showLapses>>

OneCaller == [c \in Line |-> obs]

(* Two events that are sent once, with a fault; and one that is sent again *)
(* after a stop in the middle of its handling.                             *)
Troubled == INSTANCE OverlayRoom WITH MaxAttempts <- 1, MaxFaults <- 1
Retried == INSTANCE OverlayRoom WITH
    Event <- {e1}, MaxPublishes <- 2, MaxFaults <- 1

-----------------------------------------------------------------------------
(* Two draws, pages of one row: two faults, or two endpoints and one       *)
(* fault.                                                                  *)
Page == INSTANCE OverlayClient WITH
    Event <- {1, 2}, Line <- {1}, Me <- 1, PageRows <- 1, Buffer <- 2,
    Trigger <- 2, Endpoint <- {"A"}, Unusable <- {}, LateCommits <- TRUE,
    MaxFaults <- 2, given <- pageGiven, seq <- pageSeq, line <- pageLine,
    committed <- pageCommitted, late <- pageLate, roomOn <- pageRoomOn,
    srv <- pageSrv, dead <- pageDead, cl <- pageCl, shown <- pageShown, due <- pageDue,
    faults <- pageFaults
Moved == INSTANCE OverlayClient WITH
    Event <- {1, 2}, Line <- {1}, Me <- 1, PageRows <- 1, Buffer <- 2,
    Trigger <- 2, Endpoint <- {"A", "B"}, Unusable <- {},
    LateCommits <- TRUE, MaxFaults <- 1, given <- pageGiven,
    seq <- pageSeq, line <- pageLine, committed <- pageCommitted,
    late <- pageLate, roomOn <- pageRoomOn, srv <- pageSrv, dead <- pageDead, cl <- pageCl,
    shown <- pageShown, due <- pageDue, faults <- pageFaults

PageRests == Page!Init /\ pageSrv = "polling"

-----------------------------------------------------------------------------
(* Two batches of two cards, two builds, two exceptions; the streamer is   *)
(* switched; cooldowns run out.                                            *)
Show == INSTANCE DisplayQueue WITH
    Batch <- {1, 2}, Size <- 2, Version <- {"a", "b"}, MaxRecords <- 2,
    MaxThrows <- 2, MaxSwitches <- 0, MaxLapses <- 0, p <- showP,
    records <- showRecords, left <- showLeft, came <- showCame,
    shown <- showShown, gone <- showGone, reloads <- showReloads,
    throws <- showThrows, lapses <- showLapses
Switched == INSTANCE DisplayQueue WITH
    Batch <- {1, 2}, Size <- 2, Version <- {"a", "b"}, MaxRecords <- 2,
    MaxThrows <- 0, MaxSwitches <- 1, MaxLapses <- 0, p <- showP,
    records <- showRecords, left <- showLeft, came <- showCame,
    shown <- showShown, gone <- showGone, reloads <- showReloads,
    throws <- showThrows, lapses <- showLapses
Builds == INSTANCE DisplayQueue WITH
    Batch <- {1}, Size <- 1, Version <- {"a", "b"}, MaxRecords <- 2,
    MaxThrows <- 0, MaxSwitches <- 0, MaxLapses <- 3, p <- showP,
    records <- showRecords, left <- showLeft, came <- showCame,
    shown <- showShown, gone <- showGone, reloads <- showReloads,
    throws <- showThrows, lapses <- showLapses

ShowRests == Show!Init /\ showP = Show!Loaded("a")

-----------------------------------------------------------------------------
(* One component works in a behaviour, as its scene says; the variables of *)
(* the others rest.                                                        *)
AllInit ==
    /\ scene \in Scenes
    /\ scene = "troubled" => Troubled!Init
    /\ scene = "retried" => Retried!Init
    /\ scene \notin {"troubled", "retried"} => Init
    /\ scene = "page" => Page!Init
    /\ scene = "moved" => Moved!Init
    /\ scene \notin {"page", "moved"} => PageRests
    /\ scene = "show" => Show!Init
    /\ scene = "switch" => Switched!Init
    /\ scene = "builds" => Builds!Init
    /\ scene \notin {"show", "switch", "builds"} => ShowRests

AllNext ==
    \/ /\ scene = "room" /\ Next
       /\ UNCHANGED <<scene, pageVars, showVars>>
    \/ /\ scene = "troubled" /\ Troubled!Next
       /\ UNCHANGED <<scene, pageVars, showVars>>
    \/ /\ scene = "retried" /\ Retried!Next
       /\ UNCHANGED <<scene, pageVars, showVars>>
    \/ /\ scene = "page" /\ Page!Next
       /\ UNCHANGED <<scene, vars, showVars>>
    \/ /\ scene = "moved" /\ Moved!Next
       /\ UNCHANGED <<scene, vars, showVars>>
    \/ /\ scene = "show" /\ Show!Next
       /\ UNCHANGED <<scene, vars, pageVars>>
    \/ /\ scene = "switch" /\ Switched!Next
       /\ UNCHANGED <<scene, vars, pageVars>>
    \/ /\ scene = "builds" /\ Builds!Next
       /\ UNCHANGED <<scene, vars, pageVars>>

allVars == <<scene, vars, pageVars, showVars>>

AllSpec == AllInit /\ [][AllNext]_allVars
-----------------------------------------------------------------------------
(* A draw is shown once at most, however often it arrives; the cursor      *)
(* never passes a row that was not shown; a recovery covers what could be  *)
(* read when it was asked for (subscribeToGachaResults).                   *)
ShownOnce ==
    /\ scene = "page" => Page!TypeOK /\ Page!ShownOnce /\ Page!RecoveryCovers
                         /\ Page!NoneBehindCursor
    /\ scene = "moved" => Moved!ShownOnce /\ Moved!RecoveryCovers
                          /\ Moved!NoneBehindCursor

(* One card is shown at a time, in the order of arrival, the sound of a    *)
(* batch once; each build is reloaded to once for each cooldown.           *)
OneAtATime ==
    /\ scene = "show" => /\ Show!TypeOK /\ Show!OneChain
                         /\ Show!ShownInOrder /\ Show!SoundOnce
    /\ scene = "switch" => Switched!OneChain /\ Switched!ShownInOrder /\ Switched!SoundOnce
    /\ scene = "builds" => Builds!ReloadBounded

(* A reload takes no card away: whatever has arrived was shown before, or  *)
(* given up.                                                               *)
ReloadQuiet == [][scene = "show" => Show!ReloadsQuietly]_allVars
=============================================================================
