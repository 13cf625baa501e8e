------------------------------- MODULE L3Slot -------------------------------
(***************************************************************************)
(* What the isolation manager promises about Minikube environments, free   *)
(* of files, locks, processes and failed attempts: a lease lives once, a   *)
(* slot has one owner, an environment stands only while its lease lives    *)
(* and owns the slot, and a slot is taken from no living lease.            *)
(***************************************************************************)
CONSTANTS
    Lease,   \* leases that need the slot
    Slot,    \* one per machine (coordination root)
    SlotOf,  \* lease -> its slot
    Nobody

VARIABLES
    life,   \* "unborn", "alive" or "ended"
    owner,  \* of each slot
    stands  \* the lease's environment exists

slotVars == <<life, owner, stands>>

Init ==
    /\ life = [l \in Lease |-> "unborn"]
    /\ owner = [s \in Slot |-> Nobody]
    /\ stands = [l \in Lease |-> FALSE]

Begin(l) ==
    /\ life[l] = "unborn"
    /\ life' = [life EXCEPT ![l] = "alive"]
    /\ UNCHANGED <<owner, stands>>

Acquire(l) ==
    /\ life[l] = "alive"
    /\ owner[SlotOf[l]] = Nobody
    /\ owner' = [owner EXCEPT ![SlotOf[l]] = l]
    /\ UNCHANGED <<life, stands>>

Build(l) ==
    /\ life[l] = "alive"
    /\ owner[SlotOf[l]] = l
    /\ stands' = [stands EXCEPT ![l] = TRUE]
    /\ UNCHANGED <<life, owner>>

Demolish(l) ==
    /\ stands' = [stands EXCEPT ![l] = FALSE]
    /\ UNCHANGED <<life, owner>>

End(l) ==
    /\ life[l] = "alive"
    /\ ~stands[l]
    /\ life' = [life EXCEPT ![l] = "ended"]
    /\ UNCHANGED <<owner, stands>>

Free(l) ==
    /\ life[l] = "ended"
    /\ owner[SlotOf[l]] = l
    /\ owner' = [owner EXCEPT ![SlotOf[l]] = Nobody]
    /\ UNCHANGED <<life, stands>>

Next ==
    \E l \in Lease :
        Begin(l) \/ Acquire(l) \/ Build(l) \/ Demolish(l) \/ End(l) \/ Free(l)

Spec == Init /\ [][Next]_slotVars
=============================================================================
