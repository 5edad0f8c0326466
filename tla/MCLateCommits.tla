--------------------------- MODULE MCLateCommits ---------------------------
(***************************************************************************)
(* The overlay page when two draws may commit in the other order than the  *)
(* one they took their timestamps in: no room, no fault.                   *)
(***************************************************************************)
EXTENDS OverlayClient

(* Timers fire, requests are answered, frames arrive.                      *)
LateSpec == Spec /\ Fairness
=============================================================================
