--------------------------- MODULE MCMeasurement ---------------------------
(* Instances of Measurement for TLC.                                       *)
EXTENDS MeasurementRefinement, TLC

CONSTANTS p1, p2, p3, p4

PodSymmetry == Permutations(Pods)
=============================================================================
