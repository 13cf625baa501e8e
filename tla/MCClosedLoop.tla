---------------------------- MODULE MCClosedLoop ----------------------------
(* An output directory and two versions of its profile, for TLC.           *)
EXTENDS ClosedLoop

CONSTANTS good, bad
=============================================================================
