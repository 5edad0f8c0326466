------------------------------- MODULE MCChat -------------------------------
(***************************************************************************)
(* Small instances of what follows a draw or a webhook: the chat outbox,   *)
(* and the draining of parked events by the operator's script and the      *)
(* cron.                                                                   *)
(***************************************************************************)
EXTENDS ChatOutbox, TLC

CONSTANTS Scenes     \* the scenes of a run

VARIABLES scene,
          parkKv, parkParked, parkFate, parkDone, parkAged, parkMode,
          parkCall, parkDue, parkCut, parkSwitches, parkSlow, parkFaults

parkVars == <<parkKv, parkParked, parkFate, parkDone, parkAged, parkMode,
            parkCall, parkDue, parkCut, parkSwitches, parkSlow, parkFaults>>

(* One tick between attempts; the real delays are 1, 5, 15 and 60 minutes. *)
RetryDelays == [n \in 1..MaxAttempts |-> 1]

-----------------------------------------------------------------------------
(* Batches of two entries; three entries, one of which is damaged, of an   *)
(* unknown type or fails for ever; a switch of the mode, a request that    *)
(* has no time or no room, two faults.                                     *)
Park == INSTANCE ParkDrain WITH
    Limit <- 2, MaxEntries <- 3, MaxOdd <- 1, MaxSwitch <- 1,
    MaxSlow <- 1, MaxFaults <- 2, kv <- parkKv, parked <- parkParked,
    fate <- parkFate, done <- parkDone, aged <- parkAged,
    mode <- parkMode, call <- parkCall, due <- parkDue, cut <- parkCut,
    switches <- parkSwitches, slow <- parkSlow, faults <- parkFaults

-----------------------------------------------------------------------------
(* One component works in a behaviour, as its scene says; the variables of *)
(* the others rest.                                                        *)
AllInit ==
    /\ scene \in Scenes
    /\ Init
    /\ Park!Init

AllNext ==
    \/ /\ scene = "outbox" /\ Next
       /\ UNCHANGED <<scene, parkVars>>
    \/ /\ scene = "park" /\ Park!Next
       /\ UNCHANGED <<scene, vars>>

allVars == <<scene, vars, parkVars>>

AllSpec == AllInit /\ [][AllNext]_allVars
-----------------------------------------------------------------------------
(* A script that ends without an error has seen every entry it found but   *)
(* those a deadline of its requests cut off, whatever the cron does        *)
(* meanwhile: each was handled, carried no event or has no handler.  And   *)
(* no entry leaves the store unhandled but one without an event            *)
(* (replay-maintenance-eventsub.js, eventsub-replay).                      *)
ParkHolds ==
    scene = "park" => Park!TypeOK /\ Park!ScriptComplete /\ Park!KeptUntilHandled
=============================================================================
