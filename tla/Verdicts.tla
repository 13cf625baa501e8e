------------------------------ MODULE Verdicts ------------------------------
(***************************************************************************)
(* What is made of one experiment's record r: the attestation of the       *)
(* lifecycle executor, the engine's verdict, its claim of redundancy and   *)
(* its evidence, and the classifier of the stand-alone runner with the     *)
(* result contract.  Pure operators on the record.                         *)
(***************************************************************************)
EXTENDS Naturals, FiniteSets

---------------------------------------------------------------------------
(* The executor's attestation (kubernetes_lifecycle_executor.py).          *)

CleanupConfirmed(r) == r.settled /\ (r.applied => r.absent /\ r.swept)

Observations == {"pass", "degraded", "business_unreachable"}

Observed(r) == r.observation \in Observations

Comparable(r) ==
  /\ r.baseline = "pass" /\ r.injected /\ Observed(r)
  /\ r.recovery /\ CleanupConfirmed(r)

(* The gates of one lifecycle that are met.                                *)
Attestation(r) ==
  {g \in {"baseline", "injection", "observation", "recovery", "cleanup",
          "independent_oracle", "comparison_eligible"} :
     CASE g = "baseline" -> r.baseline = "pass"
       [] g = "injection" -> r.injected
       [] g = "observation" -> Observed(r)
       [] g = "recovery" -> r.recovery
       [] g = "cleanup" -> r.applied /\ CleanupConfirmed(r)
       [] g = "independent_oracle" -> r.baseline = "pass" /\ Observed(r)
       [] g = "comparison_eligible" -> Comparable(r)}

Required == {"baseline", "injection", "observation", "recovery", "cleanup",
             "independent_oracle", "comparison_eligible"}

(* validate_attestation(), and with it promotion_allowed.                  *)
Valid(r) == Required \subseteq Attestation(r)

(* result["outcome_status"]; without an observation it is the status.      *)
Outcome(r) ==
  CASE r.observation = "pass" -> "observed"
    [] r.observation = "none" -> r.status
    [] OTHER -> r.observation

(* observation_verdict().                                                  *)
ObservationVerdict(r) ==
  IF r.observation # "none" THEN r.observation
  ELSE IF r.status = "executed" THEN "observation_pending" ELSE r.status

---------------------------------------------------------------------------
(* The engine (orchestration/engine.py).                                   *)

Lifecycle == {"baseline", "injection", "observation", "recovery", "cleanup"}

(* _live_defense_evidence(): `targets` holds the Pods before the kill, and *)
(* a recovery is confirmed with as many Ready ones.                        *)
RedundancyClaimed(r) ==
  /\ r.kind = "pod-kill"
  /\ Lifecycle \cup {"independent_oracle"} \subseteq Attestation(r)
  /\ r.observation = "pass"
  /\ Cardinality(r.targets) >= 2

LiveOutcome(r) ==
  IF r.status \in {"environment_blocked", "business_not_reachable"} THEN r.status
  ELSE IF ~r.injected THEN "injection_not_confirmed"
  ELSE CASE Outcome(r) = "business_unreachable" -> "business_not_reachable"
         [] Outcome(r) = "degraded" -> "availability_degraded"
         [] Outcome(r) = "observed" /\ RedundancyClaimed(r) -> "availability_defended"
         [] OTHER -> "response_observed"

(* _live_lifecycle_evidence(): one record per gate that was met.           *)
LifecycleEvidence(r) == Lifecycle \cap Attestation(r)

(* _collect_live_evidence(): what the record of the mechanism, written     *)
(* behind a complete lifecycle, satisfies.                                 *)
MechanismEvidence(r) ==
  {e \in {"mechanism_evidence", "defense_mechanism_evidence"} :
     /\ LifecycleEvidence(r) = Lifecycle
     /\ r.observation = IF e = "mechanism_evidence" THEN "degraded" ELSE "pass"}

(* How that record says the target recovered: only the wait for a          *)
(* container names its mode.                                               *)
RecoveryMode(r) == IF r.kind = "container-kill" THEN "container_restart" ELSE "pod_replacement"

(* _live_cleanup_report(): one fault per run.                              *)
CleanupReport(r) ==
  IF r.applied /\ CleanupConfirmed(r) THEN "verified" ELSE "blocked"

---------------------------------------------------------------------------
(* The stand-alone runner's classifier (classify_runtime_result.py), which *)
(* main() calls without a baseline: then no contract can have changed.     *)

(* A timeout of any sample comes before a server error.                    *)
EffectOf(samples) ==
  IF "timeout" \in samples THEN "client_timeout_observed"
  ELSE IF "server_error" \in samples THEN "server_error_observed"
  ELSE IF samples = {"ok"} THEN "response_observed" ELSE "transport_or_observation_error"

Classified(r) ==
  CASE r.decision = "blocked" -> "platform_or_preflight_blocked"
    [] r.decision = "not_applicable" -> "not_applicable"
    [] OTHER -> IF r.injected THEN EffectOf(r.samples) ELSE "invalid_not_injected"

(* The outcome of the runner's control goes before the evidence's.         *)
Classification(r) == IF r.forced = "none" THEN Classified(r) ELSE r.forced

EvidenceState(r) ==
  IF r.decision # "ready_for_injection" THEN "no_defense_conclusion"
  ELSE IF ~r.injected THEN "no_effect_evidence"
  ELSE IF r.recovery THEN "runtime_effect_observed"
  ELSE "runtime_effect_without_recovery_confirmation"

Labels(r) ==
  {l \in {"recovery_unconfirmed", "cleanup_unconfirmed"} :
     /\ r.injected
     /\ l = "recovery_unconfirmed" => ~r.recovery
     /\ l = "cleanup_unconfirmed" => ~r.absent}

NonExecution == {"platform_or_preflight_blocked", "not_applicable", "invalid_not_injected",
                 "invalid_request_configuration", "apply_failed", "runner_error"}

ExitCode(r) == IF Classification(r) \in NonExecution THEN 2 ELSE 0

(* result_contract_from_classification() without evidence of a defense.    *)
Contract(r) ==
  LET c == Classified(r)
  IN CASE c = "platform_or_preflight_blocked" -> "environment_blocked"
       [] c = "not_applicable" -> "business_not_reachable"
       [] c = "invalid_not_injected" -> "injection_not_confirmed"
       [] c = "response_observed" -> "response_preserved"
       [] c = "transport_or_observation_error" -> "effect_unobserved"
       [] OTHER -> "weakness"
=============================================================================
