---------------------------- MODULE MCLiveBatch ----------------------------
(* A live batch of two candidates, for TLC.                                *)
EXTENDS LiveBatch

CONSTANTS c1, c2

InOrder == <<c1, c2>>
=============================================================================
