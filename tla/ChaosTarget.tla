---------------------------- MODULE ChaosTarget ----------------------------
(***************************************************************************)
(* The cluster as one chaos experiment meets it: a Deployment whose Pods   *)
(* are killed, evicted and replaced, and the one Chaos Mesh object that    *)
(* kubectl applies and deletes.  Neither is in the repository; both are    *)
(* modelled from what its polls read.                                      *)
(***************************************************************************)
EXTENDS Naturals, FiniteSets

CONSTANTS
  Pods,         \* Pod identities (UIDs): the Deployment uses up one per Pod
  MaxReplicas,  \* bound: spec.replicas
  Disturbances, \* bound: evictions, lost readiness, deletions by others
  NoPod

ASSUME TargetAssumption ==
  /\ IsFiniteSet(Pods) /\ NoPod \notin Pods
  /\ MaxReplicas \in Nat /\ Disturbances \in Nat

VARIABLES
  replicas,  \* spec.replicas of the Deployment
  fault,     \* what the object does to its target
  pod,       \* where each Pod is in its life
  restarts,  \* restartCount of the Pod's target container
  chaos,     \* the object with the mutation's name
  recovered, \* the controller has lifted the fault and said so in an Event
  victim,    \* the Pod the experiment's own object was injected into
  disturbed  \* disturbances so far

targetVars == <<replicas, fault, pod, restarts, chaos, recovered, victim, disturbed>>

Faults == {"pod-kill", "container-kill", "timed", "dns"}

TargetTypeOK ==
  /\ replicas \in 1 .. MaxReplicas
  /\ fault \in Faults
  /\ pod \in [Pods -> {"unborn", "starting", "ready", "killed", "terminating", "gone"}]
  /\ restarts \in [Pods -> 0 .. 1]
  /\ chaos \in {"absent", "accepted", "injected", "finalizing"}
  /\ recovered \in BOOLEAN
  /\ victim \in Pods \cup {NoPod}
  /\ disturbed \in 0 .. Disturbances

(* The object of an earlier experiment may still be there.                 *)
TargetInit ==
  /\ replicas \in 1 .. MaxReplicas
  /\ fault \in Faults
  /\ \E first \in SUBSET Pods :
       /\ Cardinality(first) = replicas
       /\ pod = [p \in Pods |-> IF p \in first THEN "ready" ELSE "unborn"]
  /\ restarts = [p \in Pods |-> 0]
  /\ chaos \in {"absent", "injected"}
  /\ recovered = FALSE
  /\ victim = NoPod
  /\ disturbed = 0

(* What kubectl get pods shows: a Pod whose container was just killed is   *)
(* Ready until the kubelet notices.                                        *)
Listed == {p \in Pods : pod[p] \notin {"unborn", "gone"}}
Active == {p \in Pods : pod[p] \in {"starting", "ready", "killed"}}
Ready == {p \in Pods : pod[p] \in {"ready", "killed"}}

(* The Service has an endpoint that answers.                               *)
Serving == \E p \in Pods : pod[p] = "ready"

(* The object's status counts an injection.                                *)
InjectionCounted == chaos = "injected" \/ (chaos = "finalizing" /\ victim # NoPod)

---------------------------------------------------------------------------
(* The Deployment's controller and the kubelet.                            *)

Moves(p, from, to) == pod[p] = from /\ pod' = [pod EXCEPT ![p] = to]

Replace ==
  /\ Cardinality(Active) < replicas
  /\ \E p \in Pods : Moves(p, "unborn", "starting")
  /\ UNCHANGED restarts

Progress ==
  \E p \in Pods :
    \/ Moves(p, "starting", "ready") /\ UNCHANGED restarts
    \/ Moves(p, "terminating", "gone") /\ UNCHANGED restarts
    \/ Moves(p, "killed", "starting") /\ restarts' = [restarts EXCEPT ![p] = 1]

Workload ==
  /\ Replace \/ Progress
  /\ UNCHANGED <<replicas, fault, chaos, recovered, victim, disturbed>>

---------------------------------------------------------------------------
(* The controller of Chaos Mesh.                                           *)

Effect(p) ==
  CASE fault = "pod-kill" -> pod' = [pod EXCEPT ![p] = "terminating"]
    [] fault = "container-kill" -> Moves(p, "ready", "killed")
    [] OTHER -> UNCHANGED pod

Inject ==
  /\ chaos = "accepted"
  /\ \E p \in Active : Effect(p) /\ victim' = p
  /\ chaos' = "injected"
  /\ UNCHANGED recovered

(* spec.duration has passed; the object may go before a poll sees that.    *)
Expire ==
  /\ fault \in {"timed", "dns"}
  /\ chaos = "injected" /\ victim # NoPod
  /\ recovered' = TRUE
  /\ chaos' \in {"injected", "absent"}
  /\ UNCHANGED <<pod, victim>>

(* A deleted object is recovered first and goes with its finalizer.        *)
Finalize ==
  /\ chaos = "finalizing"
  /\ chaos' = "absent"
  /\ recovered' = (recovered \/ victim # NoPod)
  /\ UNCHANGED <<pod, victim>>

Controller ==
  /\ Inject \/ Expire \/ Finalize
  /\ UNCHANGED <<replicas, fault, restarts, disturbed>>

---------------------------------------------------------------------------
(* Others: an eviction, a readiness probe that fails for a while, a batch  *)
(* in the same namespace whose sweep deletes the object.                   *)

Disturb ==
  /\ disturbed < Disturbances
  /\ disturbed' = disturbed + 1
  /\ \/ /\ \E p \in Active : pod' = [pod EXCEPT ![p] = "terminating"]
        /\ UNCHANGED chaos
     \/ /\ \E p \in Pods : Moves(p, "ready", "starting")
        /\ UNCHANGED chaos
     \/ /\ chaos \in {"accepted", "injected"}
        /\ chaos' = "finalizing"
        /\ UNCHANGED pod
  /\ UNCHANGED <<replicas, fault, restarts, recovered, victim>>

TargetStep == Workload \/ Controller \/ Disturb
=============================================================================
