---------------------------- MODULE MCBridgeRun ----------------------------
(* BridgeRun on small instances. Messages are interchangeable, slash       *)
(* commands apart.                                                         *)
EXTENDS BridgeRun, TLC

Symmetric == Permutations(Msgs \ Slash)

-----------------------------------------------------------------------------
(* Statements of the sources that an abort refutes (see README, "Known     *)
(* disagreements"); given as INVARIANTs, TLC finds each violated.          *)

(* The task of a stopped run is told to stop, also when the stop came      *)
(* before the engine took the task up.                                     *)
StopReachesTask ==
    agent.at \in {"start", "step"} /\ ended[agent.task] = "ABORTED" => stopSig

(* A stop breaks off the task of the run it was meant for, no later one.   *)
StopsOnlyItsRun == agent.at = "step" /\ stopSig => agent.task \in aborted

(* What the user said is read by the run it was handed to.                 *)
NoStrayRead == strayRead = {}
=============================================================================
