-------------------------- MODULE MCIsolationLease --------------------------
(***************************************************************************)
(* Two leases of one project in one store, both L3: they contend for the   *)
(* project and for the one slot of the coordination root.                  *)
(***************************************************************************)
EXTENDS IsolationRefinement

CONSTANTS a, b, s1, root, p1

OneStore == [l \in {a, b} |-> s1]
OneProject == [l \in {a, b} |-> p1]

SharedRoot == [s \in Store |-> root]
=============================================================================
