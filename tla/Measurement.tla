---------------------------- MODULE Measurement ----------------------------
(***************************************************************************)
(* One chaos experiment, call by call: the applicability gate, the         *)
(* business probes, kubectl apply, the polls for the injection and the     *)
(* recovery, the deletion with its check, and the verdicts drawn.  There   *)
(* are two clients: KubernetesLifecycleExecutor.run() and the stand-alone  *)
(* runner run_chaos_experiment.main().  The cluster moves between any two  *)
(* calls; a call may fail, a failed command may have had its effect, and   *)
(* a poll may run into its deadline at any time.                           *)
(***************************************************************************)
EXTENDS ChaosTarget, Verdicts

CONSTANTS
  StableChecks,  \* MIN_STABLE_REPRODUCTIONS
  OtherRestarts  \* bound: earlier restarts of a Pod's other containers

ASSUME PollAssumption == StableChecks \in Nat \ {0} /\ OtherRestarts \in Nat

VARIABLES
  client,  \* who runs the experiment
  pc,      \* the call it makes next
  run,     \* its record of the experiment
  noted,   \* restart counts the gate noted
  stable,  \* polls of the recovery wait that found the target recovered
  seen,    \* the recovery wait has seen the object injected
  failed,  \* an attempt of the probe under way has failed
  fixture, \* the business fixture exists
  stray    \* another chaos object in the namespace, and whose it is

clientVars == <<client, pc, run, noted, stable, seen, failed, fixture, stray>>
measureVars == <<targetVars, clientVars>>

Clients == {"executor", "script"}
Calls == {"idle", "scope", "platform", "targets", "name", "capability", "prepare", "baseline", "apply", "inject",
          "observe", "recover", "delete", "verify", "sweep", "settle", "done"}

Runs ==
  [kind: Faults, targets: SUBSET Pods, suitable: BOOLEAN,
   decision: {"none", "ready_for_injection", "blocked", "not_applicable"},
   baseline: {"none", "pass", "failed"}, applied: BOOLEAN, injected: BOOLEAN,
   observation: {"none", "pass", "degraded", "business_unreachable"},
   samples: SUBSET {"ok", "server_error", "timeout", "refused"},
   recovery: BOOLEAN, absent: BOOLEAN, swept: BOOLEAN, settled: BOOLEAN,
   prepared: BOOLEAN, raised: BOOLEAN,
   status: {"blocked", "environment_blocked", "inapplicable", "business_not_reachable",
            "business_fixture_prepare_failed", "apply_failed", "injection_not_confirmed",
            "recovery_timeout", "executed", "cleanup_failed"},
   forced: {"none", "invalid_request_configuration", "apply_failed", "runner_error"}]

MeasureTypeOK ==
  /\ TargetTypeOK
  /\ client \in Clients /\ pc \in Calls /\ run \in Runs
  /\ noted \in [Pods -> 0 .. 1 + OtherRestarts]
  /\ stable \in 0 .. StableChecks - 1
  /\ seen \in BOOLEAN /\ failed \in BOOLEAN /\ fixture \in BOOLEAN
  /\ stray \in {"none", "owned", "unowned"}

Blank(kind) ==
  [kind |-> kind, targets |-> {}, suitable |-> FALSE, decision |-> "none", baseline |-> "none",
   applied |-> FALSE, injected |-> FALSE, observation |-> "none", samples |-> {},
   recovery |-> FALSE, absent |-> FALSE, swept |-> FALSE, settled |-> FALSE,
   prepared |-> FALSE, raised |-> FALSE, status |-> "blocked", forced |-> "none"]

MeasureInit ==
  /\ TargetInit
  /\ client \in Clients
  /\ pc = "idle"
  /\ run = Blank(fault)
  /\ noted = [p \in Pods |-> 0]
  /\ stable = 0 /\ seen = FALSE /\ failed = FALSE /\ fixture = FALSE
  /\ stray \in {"none", "owned", "unowned"}

Go(from, to) == pc = from /\ pc' = to

(* What a call leaves alone besides what it names.                         *)
Polling == UNCHANGED <<client, noted, fixture, stray>>
ReadOnly == UNCHANGED targetVars /\ Polling
Elsewhere == UNCHANGED <<client, noted, stable, seen, failed>>
OnlyChaos == UNCHANGED <<replicas, fault, pod, restarts, recovered, victim, disturbed>>

---------------------------------------------------------------------------
(* The scope of the executor and the applicability gate, check_mutation(). *)

Start ==
  /\ Go("idle", "scope")
  /\ UNCHANGED <<targetVars, run, stable, seen, failed>> /\ Polling

(* What the scope checks read of a manifest: its namespace, those of its   *)
(* selector, whether the selector has labels, its mode and its shape.      *)
Manifests ==
  [namespace: {"own", "allowed", "foreign"},
   selected: {"missing", "empty", "own", "allowed", "foreign"},
   labelled: BOOLEAN, mode: {"one", "all"}, shaped: BOOLEAN]

ExecutorAdmits(m) ==
  m.namespace = "own" /\ m.selected \in {"missing", "empty", "own"} /\ m.labelled

(* An empty list of namespaces, which the executor reads as its own, is    *)
(* refused here.                                                           *)
GateAdmits(m) ==
  /\ m.namespace # "foreign" /\ m.selected \notin {"empty", "foreign"}
  /\ m.labelled /\ m.mode = "one" /\ m.shaped

(* The gate looks everything up before it decides; it only reads, so a     *)
(* check that decides for itself may end it.                               *)
Refused(decision) ==
  /\ pc' = "done"
  /\ run' = [run EXCEPT
               !.decision = decision,
               !.status = IF client = "executor" THEN "environment_blocked" ELSE @]

CheckScope ==
  /\ pc = "scope"
  /\ \E manifest \in Manifests, approved \in BOOLEAN :
       IF client = "executor" /\ ~(approved /\ ExecutorAdmits(manifest)) THEN Refused("none")
       ELSE IF ~GateAdmits(manifest) THEN Refused("blocked")
       ELSE pc' = "platform" /\ UNCHANGED run
  /\ ReadOnly /\ UNCHANGED <<stable, seen, failed>>

(* daemon_prerequisite(): what the logs of the daemons say, then what a    *)
(* probe of every daemon answers; silence is no evidence.                  *)
Prerequisite(logs, probes) ==
  "lacking" \notin logs /\ ("supported" \in logs \/ probes = {TRUE})

CheckPlatform ==
  /\ pc = "platform"
  /\ \/ Refused("blocked")
     \/ /\ \E logs \in SUBSET {"lacking", "supported", "silent"}, probes \in SUBSET BOOLEAN :
             fault = "timed" => Prerequisite(logs, probes)
        /\ pc' = "targets" /\ UNCHANGED run
  /\ ReadOnly /\ UNCHANGED <<stable, seen, failed>>

(* One read of the selector's Pods, the terminating ones among them; a     *)
(* terminating Pod is not ready, and a target may lack the port.           *)
ListTargets ==
  /\ Go("targets", "name")
  /\ \/ /\ \E suitable \in BOOLEAN :
             /\ suitable => Listed # {} /\ Listed \subseteq Ready
             /\ run' = [run EXCEPT !.targets = Listed, !.suitable = suitable]
        /\ \E others \in 0 .. OtherRestarts :
             noted' = [p \in Pods |-> IF p \in Listed THEN restarts[p] + others ELSE 0]
     \/ UNCHANGED <<run, noted>>
  /\ UNCHANGED <<targetVars, client, stable, seen, failed, fixture, stray>>

(* Seeded fault: whether the name is free is not looked at.                *)
DecisionOnTargets(found) ==
  IF run.suitable THEN "ready_for_injection" ELSE "not_applicable"

(* Only a NotFound makes the name available: an error is no absence.       *)
Decision(found) ==
  CASE found # "not_found" -> "blocked"
    [] found = "not_found" /\ run.suitable -> "ready_for_injection"
    [] OTHER -> "not_applicable"

Lookup == {"error", IF chaos = "absent" THEN "not_found" ELSE "found"}

AfterGate ==
  CASE client = "script" -> "apply"
    [] client = "executor" /\ fault = "dns" -> "capability"
    [] OTHER -> "prepare"

CheckName ==
  /\ pc = "name"
  /\ \E found \in Lookup :
       IF Decision(found) = "ready_for_injection"
       THEN /\ pc' = AfterGate
            /\ run' = [run EXCEPT !.decision = Decision(found)]
       ELSE Refused(Decision(found))
  /\ ReadOnly /\ UNCHANGED <<stable, seen, failed>>

(* Whether a target's resolver can be written, which none may answer, and  *)
(* whether the object can express the delay.                               *)
Capability == IF run.targets = {} THEN {"inapplicable"}
              ELSE {"ready", "inapplicable", "fallback_required"}

(* A NetworkChaos of another name, which may be taken, too.                *)
Fallback ==
  /\ fault' = "timed"
  /\ chaos' \in {"absent", "injected"}
  /\ run' = Blank("timed")

(* What the targets cannot take is replaced, if the address of the DNS     *)
(* service can be read, and goes through the gate again.                   *)
ProbeCapability ==
  /\ pc = "capability"
  /\ \/ "ready" \in Capability /\ pc' = "prepare" /\ UNCHANGED <<fault, chaos, run>>
     \/ /\ Capability \ {"ready"} # {} /\ pc' = "done"
        /\ run' = [run EXCEPT !.status = "inapplicable"]
        /\ UNCHANGED <<fault, chaos>>
     \/ Capability \ {"ready"} # {} /\ pc' = "scope" /\ Fallback
  /\ UNCHANGED <<replicas, pod, restarts, recovered, victim, disturbed>>
  /\ Polling /\ UNCHANGED <<stable, seen, failed>>

Gate ==
  Start \/ CheckScope \/ CheckPlatform \/ ListTargets \/ CheckName \/ ProbeCapability

---------------------------------------------------------------------------
(* Before the mutation, in the executor.                                   *)

PrepareFixture ==
  /\ UNCHANGED <<targetVars, stray>> /\ Elsewhere
  /\ \/ /\ Go("prepare", "baseline")
        /\ \E prepared \in BOOLEAN :
             /\ fixture' = prepared
             /\ run' = [run EXCEPT !.prepared = prepared]
     \/ /\ Go("prepare", "done")
        /\ fixture' \in BOOLEAN
        /\ run' = [run EXCEPT !.status = "business_fixture_prepare_failed"]

(* What a request through a port forward may come back with.               *)
Sample == {"timeout", "refused"} \cup (IF Serving THEN {"ok", "server_error"} ELSE {})

(* One attempt of the HTTP oracle: all its samples are good, or the next   *)
(* attempt follows while the window is open.  The answer of a success      *)
(* after an attempt that failed is "degraded".                             *)
HttpAttempt ==
  {"retry", "business_unreachable"} \cup
  (IF "ok" \in Sample THEN {IF failed THEN "degraded" ELSE "pass"} ELSE {})

(* The gRPC oracle tries once before the fault, and in a window under it.  *)
GrpcAttempt == IF pc = "observe" THEN HttpAttempt ELSE HttpAttempt \ {"retry"}

Attempt == HttpAttempt \cup GrpcAttempt

(* Only "pass" goes on.                                                    *)
Baseline ==
  /\ pc = "baseline"
  /\ \/ \E answer \in Attempt :
          /\ pc' = CASE answer = "pass" -> "apply"
                     [] answer = "retry" -> "baseline"
                     [] OTHER -> "settle"
          /\ failed' = (answer = "retry")
          /\ run' = CASE answer = "pass" -> [run EXCEPT !.baseline = "pass"]
                      [] answer = "retry" -> run
                      [] OTHER -> [run EXCEPT !.baseline = "failed",
                                              !.status = "business_not_reachable"]
     \/ /\ pc' = "done"
        /\ run' = [run EXCEPT !.raised = TRUE]
        /\ UNCHANGED failed
  /\ ReadOnly /\ UNCHANGED <<stable, seen>>

---------------------------------------------------------------------------
(* The mutation.                                                           *)

Created == chaos' = IF chaos = "absent" THEN "accepted" ELSE chaos

(* After an apply that failed or timed out nobody deletes.                 *)
Apply ==
  /\ pc = "apply"
  /\ \/ /\ pc' = "inject" /\ Created
        /\ run' = [run EXCEPT !.applied = TRUE]
     \/ /\ pc' = "done" /\ (Created \/ UNCHANGED chaos)
        /\ run' = IF client = "executor" THEN [run EXCEPT !.status = "apply_failed"]
                  ELSE [run EXCEPT !.forced = "apply_failed"]
  /\ OnlyChaos /\ Polling /\ UNCHANGED <<stable, seen, failed>>

(* A request path without a service is noticed after the gate.             *)
Misconfigured ==
  /\ client = "script" /\ Go("apply", "done")
  /\ run' = [run EXCEPT !.forced = "invalid_request_configuration"]
  /\ ReadOnly /\ UNCHANGED <<stable, seen, failed>>

(* wait_for_lifecycle(..., "injected"): every other answer is polled over. *)
PollInjected ==
  /\ pc = "inject"
  /\ \/ /\ InjectionCounted
        /\ pc' = "observe"
        /\ run' = [run EXCEPT !.injected = TRUE]
     \/ /\ pc' = "delete"
        /\ run' = IF client = "executor" THEN [run EXCEPT !.status = "injection_not_confirmed"]
                  ELSE run
  /\ ReadOnly /\ UNCHANGED <<stable, seen, failed>>

---------------------------------------------------------------------------
(* The observation.                                                        *)

(* A probe that raises takes the executor to its finally block.            *)
Probe ==
  /\ client = "executor" /\ pc = "observe"
  /\ \/ \E answer \in Attempt :
          /\ pc' = IF answer = "retry" THEN "observe" ELSE "recover"
          /\ failed' = (answer = "retry")
          /\ run' = IF answer = "retry" THEN run ELSE [run EXCEPT !.observation = answer]
     \/ /\ pc' = "delete"
        /\ run' = [run EXCEPT !.raised = TRUE]
        /\ UNCHANGED failed
  /\ ReadOnly /\ UNCHANGED <<stable, seen>>

(* The runner's requests, or the one sample of a port forward that failed. *)
(* An error of the runner itself ends them; the recovery is still awaited. *)
Request ==
  /\ client = "script" /\ pc = "observe"
  /\ \/ /\ \E sample \in Sample : run' = [run EXCEPT !.samples = @ \cup {sample}]
        /\ pc' \in {"observe", "recover"}
     \/ /\ pc' = "recover" /\ run' \in {run, [run EXCEPT !.forced = "runner_error"]}
  /\ ReadOnly /\ UNCHANGED <<stable, seen, failed>>

---------------------------------------------------------------------------
(* The recovery, as each kind of fault shows it.                           *)

TargetReplaced(targets) ==
  /\ Cardinality(Active) = Cardinality(targets)
  /\ Active # {} /\ Active \subseteq Ready
  /\ Ready \ targets # {}

(* Seeded fault: whether the container has run again is not looked at.     *)
AllReady(targets) ==
  /\ Cardinality(Active) = Cardinality(targets)
  /\ Active # {} /\ Active \subseteq Ready

ContainerRestarted(targets) ==
  /\ Cardinality(Active) = Cardinality(targets)
  /\ Active # {} /\ Active \subseteq Ready
  /\ victim \in Active /\ restarts[victim] > noted[victim]

Recovered(confirmed) ==
  /\ Go("recover", "delete")
  /\ run' = [run EXCEPT
               !.recovery = confirmed,
               !.status = IF client # "executor" THEN @
                          ELSE IF confirmed THEN "executed" ELSE "recovery_timeout"]
  /\ UNCHANGED <<stable, seen>>

(* wait_for_target_ready() and wait_for_container_ready(): a poll that     *)
(* fails to read is no poll.                                               *)
PollPods ==
  /\ fault \in {"pod-kill", "container-kill"}
  /\ LET recoveredNow == IF fault = "pod-kill" THEN TargetReplaced(run.targets)
                         ELSE ContainerRestarted(run.targets)
     IN IF recoveredNow /\ stable + 1 = StableChecks THEN Recovered(TRUE)
        ELSE /\ Go("recover", "recover")
             /\ stable' = IF recoveredNow THEN stable + 1 ELSE 0
             /\ UNCHANGED <<run, seen>>

(* wait_for_lifecycle(..., "recovered"): once the object is gone its       *)
(* Events tell, if a poll of this wait has seen it injected.               *)
PollRecovered ==
  /\ fault \in {"timed", "dns"}
  /\ LET injectedNow == IF chaos = "absent" THEN seen ELSE InjectionCounted
     IN IF injectedNow /\ recovered THEN Recovered(TRUE)
        ELSE /\ Go("recover", "recover")
             /\ seen' = injectedNow
             /\ UNCHANGED <<run, stable>>

Recover ==
  /\ PollPods \/ PollRecovered \/ Recovered(FALSE)
  /\ ReadOnly /\ UNCHANGED failed

---------------------------------------------------------------------------
(* The cleanup.                                                            *)

(* The command may fail, or return before the finalizer has run.           *)
Delete ==
  /\ Go("delete", "verify")
  /\ chaos' \in {chaos, IF chaos = "absent" THEN "absent" ELSE "finalizing"}
  /\ OnlyChaos /\ Polling /\ UNCHANGED <<run, stable, seen, failed>>

(* Seeded fault: any lookup that fails confirms.                           *)
AnyFailure(found) == found # "found"

(* Only a NotFound confirms; an object still there is looked up again.     *)
Verified(found) == found = "not_found"

VerifyAbsent ==
  /\ pc = "verify"
  /\ \E found \in Lookup :
       /\ pc' = IF client = "executor" THEN "sweep" ELSE "done"
       /\ run' = [run EXCEPT !.absent = Verified(found)]
  /\ ReadOnly /\ UNCHANGED <<stable, seen, failed>>

(* cleanup_namespace_chaos_resources(): what is owned is deleted, what is  *)
(* not owned is reported; a call that fails is an error of the sweep.      *)
Sweep ==
  /\ Go("sweep", "settle")
  /\ chaos' \in {chaos, IF chaos = "absent" THEN "absent" ELSE "finalizing", "absent"}
  /\ stray' \in {stray, IF stray = "owned" THEN "none" ELSE stray}
  /\ \E complete \in BOOLEAN :
       run' = [run EXCEPT !.swept = complete /\ chaos' = "absent" /\ stray' = "none"]
  /\ recovered' = (recovered \/ (chaos # "absent" /\ chaos' = "absent" /\ victim # NoPod))
  /\ UNCHANGED <<replicas, fault, pod, restarts, victim, disturbed, fixture>> /\ Elsewhere

(* Seeded fault: the fixture's cleanup does not decide the status.         *)
SettleSilently ==
  /\ Go("settle", "done")
  /\ \E settled \in BOOLEAN :
       /\ ~run.prepared => settled
       /\ fixture' \in IF run.prepared /\ ~settled THEN {fixture, FALSE} ELSE {FALSE}
       /\ run' = [run EXCEPT !.settled = settled]
  /\ UNCHANGED <<targetVars, stray>> /\ Elsewhere

(* workflow_cleanup() and the executor's last word on its status.          *)
SettleFixture ==
  /\ Go("settle", "done")
  /\ \E settled \in BOOLEAN :
       /\ ~run.prepared => settled
       /\ fixture' \in IF run.prepared /\ ~settled THEN {fixture, FALSE} ELSE {FALSE}
       /\ LET ended == [run EXCEPT !.settled = settled]
          IN run' = IF run.applied /\ ~CleanupConfirmed(ended)
                    THEN [ended EXCEPT !.status = "cleanup_failed"] ELSE ended
  /\ UNCHANGED <<targetVars, stray>> /\ Elsewhere

---------------------------------------------------------------------------
Experiment ==
  \/ Gate
  \/ PrepareFixture \/ Baseline
  \/ Apply \/ Misconfigured \/ PollInjected
  \/ Probe \/ Request
  \/ Recover
  \/ Delete \/ VerifyAbsent \/ Sweep \/ SettleFixture

Cluster == pc # "done" /\ TargetStep /\ UNCHANGED clientVars

MeasureNext == Experiment \/ Cluster

MeasureSpec == MeasureInit /\ [][MeasureNext]_measureVars

---------------------------------------------------------------------------
(* Properties.                                                             *)

Reported == pc = "done" /\ ~run.raised

(* What the experiment itself left behind.                                 *)
Gone == chaos = "absent" /\ ~fixture /\ stray # "owned"

(* A recovery is confirmed only of the fault that this experiment injected *)
(* itself: the killed Pod is out, the killed container has run again, or   *)
(* the controller has lifted the fault, also when the object went before   *)
(* a poll saw it recovered.                                                *)
RecoveryIsReal ==
  run.recovery =>
    /\ victim # NoPod
    /\ fault = "pod-kill" => victim \notin Active
    /\ fault = "container-kill" => restarts[victim] = 1
    /\ fault \in {"timed", "dns"} => recovered

(* An experiment that leaves its object or its fixture says so: the        *)
(* executor in the status, the runner in the label or the exit code; and a *)
(* lifecycle that is attested as valid, which lets its result be promoted, *)
(* leaves no object of this owner either, and none that is not owned.      *)
ResidueIsReported ==
  Reported =>
    /\ (client = "executor"
          /\ run.status \in {"executed", "recovery_timeout", "injection_not_confirmed"})
         => Gone
    /\ (client = "executor" /\ Valid(run)) => Gone /\ stray = "none"
    /\ (client = "script" /\ ExitCode(run) = 0 /\ "cleanup_unconfirmed" \notin Labels(run))
         => chaos = "absent"

Effects == {"availability_degraded", "availability_defended", "response_observed"}

(* No effect is ascribed to an experiment whose own object hit nothing,    *)
(* such as to the object an earlier one left under the same name; no       *)
(* mechanism is evident from a fault that was not lifted or is still       *)
(* there; and redundancy is claimed only of a Deployment that has some,    *)
(* after a kill of this experiment's own, with nothing left of it.         *)
EffectsAreCaused ==
  Reported =>
    /\ (client = "executor"
          /\ (LiveOutcome(run) \in Effects \/ ObservationVerdict(run) \in Observations))
         => victim # NoPod
    /\ (client = "executor" /\ MechanismEvidence(run) # {})
         => victim # NoPod /\ Gone /\ (fault \in {"timed", "dns"} => recovered)
    /\ (client = "executor" /\ LiveOutcome(run) = "availability_defended")
         => /\ replicas >= 2 /\ victim \notin Active
            /\ CleanupReport(run) = "verified" /\ Gone
    /\ (client = "script"
          /\ (Classification(run) \notin NonExecution
                \/ Contract(run) \in {"weakness", "response_preserved"}
                \/ EvidenceState(run) \notin {"no_effect_evidence", "no_defense_conclusion"}))
         => victim # NoPod

---------------------------------------------------------------------------
(* Statements of docs and comments that the code does not keep (README,    *)
(* section 6).                                                             *)

(* "at least one remaining Ready replica preserved the business Oracle     *)
(* while one Pod was killed" (engine.py:848): what is observed as a pass   *)
(* is a Deployment that is short of the killed Pod.                        *)
KillIsObserved ==
  [][(pc = "observe" /\ run.kind = "pod-kill" /\ run'.observation = "pass") =>
       Cardinality(Ready) < replicas]_measureVars

(* "connects confirmed injection, target Pod identity change, business     *)
(* observation and recovery" (engine.py:990): the record of a network      *)
(* fault says so, too, where no Pod was replaced.                          *)
MechanismIsNamed ==
  (Reported /\ client = "executor" /\ MechanismEvidence(run) # {}
     /\ RecoveryMode(run) = "pod_replacement") => victim \notin Active
=============================================================================
