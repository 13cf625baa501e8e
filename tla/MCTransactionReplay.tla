------------------------ MODULE MCTransactionReplay ------------------------
(* Small instances of TransactionReplay: one object that is created and    *)
(* then updated, two objects, one or two runs of one project.              *)
EXTENDS TransactionReplay, TLC

CONSTANTS p1, p2, r1, r2, project, l1, l2, create, update, noRun

OneProject == [r \in Runs |-> project]
OneLease == [r \in Runs |-> l1]

CreateThenUpdate == <<create, update>>
ObjectOfCreate == [o \in Ops |-> create]
DeleteCreated == <<create>>
NoDeletion == << >>

(* Sessions are interchangeable, and so are runs that share a lease.       *)
Interchangeable == Permutations({p1, p2}) \cup Permutations({r1, r2})
=============================================================================
