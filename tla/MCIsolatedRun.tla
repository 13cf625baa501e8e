--------------------------- MODULE MCIsolatedRun ---------------------------
(***************************************************************************)
(* One isolated run in each of the plan's modes.                           *)
(***************************************************************************)
EXTENDS IsolatedRun

AllModes == {"adopted", "namespace", "minikube"}
=============================================================================
