------------------------- MODULE IsolationRefinement ------------------------
(***************************************************************************)
(* The isolation manager implements L3Slot for its L3 leases.              *)
(***************************************************************************)
EXTENDS IsolationLease

LifeOf(l) ==
    IF file[l] \in {"none", "empty"} THEN "unborn"
    ELSE IF file[l] = "released" THEN "ended" ELSE "alive"

Promise == INSTANCE L3Slot WITH
    Lease  <- L3,
    Slot   <- Root,
    SlotOf <- [l \in L3 |-> Coord(l)],
    Nobody <- None,
    life   <- [l \in L3 |-> LifeOf(l)],
    owner  <- claim,
    stands <- [l \in L3 |-> env[l]]

\* Whatever interleaves, fails or dies, an L3 lease lives once, from its file to
\* its verified release, its environment stands only while it lives and owns the
\* slot of its coordination root, and it loses the slot only after it has ended.
ImplementsL3Slot == Promise!Spec
=============================================================================
