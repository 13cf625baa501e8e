------------------------- MODULE LifecycleExecutor -------------------------
(***************************************************************************)
(* One chaos experiment: KubernetesLifecycleExecutor.run()                 *)
(* (tools/kubernetes_lifecycle_executor.py), which sets up a business      *)
(* fixture, probes the baseline, applies a Chaos Mesh object, waits for    *)
(* the injection and the recovery, and removes what it set up.             *)
(*                                                                         *)
(* Every call to the cluster or to the business oracle may fail, some may  *)
(* raise, and a call that fails may still have had its effect.             *)
(***************************************************************************)
EXTENDS Naturals, FiniteSets

CONSTANTS
  Actions,  \* action_id: one experiment each
  NoAction  \* no call in progress

ASSUME ActionAssumption == NoAction \notin Actions

VARIABLES
  step,     \* where run() is, "idle" outside a call
  action,   \* the action of the call in progress
  facts,    \* what the call knows: which of its steps were confirmed
  status,   \* result["status"]
  faults,   \* actions whose chaos object exists in the namespace
  fixtures  \* actions whose business fixture exists

callVars == <<step, action, facts, status>>
clusterVars == <<faults, fixtures>>
lifecycleVars == <<callVars, clusterVars>>

Steps == {"idle", "gate", "prepare", "baseline", "apply", "wait", "observe", "recover",
          "delete", "sweep", "settle", "returned"}
Facts == {"prepared", "applied", "injected", "absent", "swept", "settled", "raised"}
Statuses == {"blocked", "environment_blocked", "inapplicable", "business_fixture_prepare_failed",
             "business_not_reachable", "apply_failed", "injection_not_confirmed",
             "recovery_timeout", "executed", "cleanup_failed"}

LifecycleTypeOK ==
  /\ step \in Steps
  /\ action \in Actions \cup {NoAction}
  /\ facts \subseteq Facts
  /\ status \in Statuses
  /\ faults \subseteq Actions
  /\ fixtures \subseteq Actions

LifecycleInit ==
  /\ step = "idle"
  /\ action = NoAction
  /\ facts = {}
  /\ status = "blocked"
  /\ faults = {}
  /\ fixtures = {}

Go(from, to) == step = from /\ step' = to

(* The effect of a command that failed or timed out: it may have happened. *)
MayExist(things) == {things, things \cup {action}}
MayBeGone(things) == {things, things \ {action}}

Call(a) ==
  /\ Go("idle", "gate")
  /\ action' = a
  /\ facts' = {}
  /\ status' = "blocked"
  /\ UNCHANGED clusterVars

Return ==
  /\ Go("returned", "idle")
  /\ action' = NoAction
  /\ UNCHANGED <<facts, status, faults, fixtures>>

---------------------------------------------------------------------------
(* Before the mutation.                                                    *)

(* The applicability gate: among its checks, that no object has the name.  *)
Gate ==
  /\ UNCHANGED <<action, facts, faults, fixtures>>
  /\ \/ Go("gate", "prepare") /\ action \notin faults /\ UNCHANGED status
     \/ Go("gate", "returned") /\ status' \in {"environment_blocked", "inapplicable"}

(* workflow_call() turns an exception of prepare_fixture into a failure,   *)
(* and a fixture that failed is not cleaned up here.                       *)
PrepareFixture ==
  /\ UNCHANGED <<action, faults>>
  /\ \/ /\ Go("prepare", "baseline")
        /\ \/ fixtures' = fixtures \cup {action} /\ facts' = facts \cup {"prepared"}
           \/ UNCHANGED <<fixtures, facts>>
        /\ UNCHANGED status
     \/ /\ Go("prepare", "returned")
        /\ fixtures' \in MayExist(fixtures)
        /\ status' = "business_fixture_prepare_failed"
        /\ UNCHANGED facts

Baseline ==
  /\ UNCHANGED <<action, faults, fixtures>>
  /\ \/ Go("baseline", "apply") /\ UNCHANGED <<facts, status>>
     \/ Go("baseline", "settle") /\ status' = "business_not_reachable" /\ UNCHANGED facts
     \/ Go("baseline", "returned") /\ facts' = facts \cup {"raised"} /\ UNCHANGED status

---------------------------------------------------------------------------
(* The mutation: an apply that failed leaves `applied` false, and then     *)
(* the finally block removes nothing.                                      *)

Apply ==
  /\ UNCHANGED <<action, fixtures>>
  /\ \/ /\ Go("apply", "wait")
        /\ faults' = faults \cup {action}
        /\ facts' = facts \cup {"applied"}
        /\ UNCHANGED status
     \/ /\ Go("apply", "returned")
        /\ faults' \in MayExist(faults)
        /\ status' = "apply_failed"
        /\ UNCHANGED facts

WaitInjected ==
  /\ UNCHANGED <<action, faults, fixtures>>
  /\ \/ Go("wait", "observe") /\ facts' = facts \cup {"injected"} /\ UNCHANGED status
     \/ Go("wait", "delete") /\ status' = "injection_not_confirmed" /\ UNCHANGED facts

(* A transaction probe raises when the application does not answer as the  *)
(* contract says, the default probe when its port forward cannot start.    *)
Observe ==
  /\ UNCHANGED <<action, status, faults, fixtures>>
  /\ \/ Go("observe", "recover") /\ UNCHANGED facts
     \/ Go("observe", "delete") /\ facts' = facts \cup {"raised"}

WaitRecovered ==
  /\ Go("recover", "delete")
  /\ status' \in {"executed", "recovery_timeout"}
  /\ UNCHANGED <<action, facts, faults, fixtures>>

---------------------------------------------------------------------------
(* The finally block, and the fixture's cleanup after a failed baseline.   *)

(* delete_resource(): confirmed only by a NotFound after the deletion.     *)
Delete ==
  /\ Go("delete", "sweep")
  /\ \/ faults' = faults \ {action} /\ facts' = facts \cup {"absent"}
     \/ faults' \in MayBeGone(faults) /\ UNCHANGED facts
  /\ UNCHANGED <<action, status, fixtures>>

(* cleanup_namespace_chaos_resources(): every object of this owner in the  *)
(* namespace goes, confirmed when none is left and nothing failed.         *)
Sweep ==
  /\ Go("sweep", "settle")
  /\ \/ faults' = {} /\ facts' = facts \cup {"swept"}
     \/ faults' \in SUBSET faults /\ UNCHANGED facts
  /\ UNCHANGED <<action, status, fixtures>>

CleanupConfirmed(known) ==
  /\ "settled" \in known
  /\ "applied" \in known => {"absent", "swept"} \subseteq known

(* workflow_cleanup(): a fixture that was not prepared needs none.         *)
SettleFixture ==
  /\ Go("settle", "returned")
  /\ \/ "prepared" \notin facts /\ facts' = facts \cup {"settled"} /\ UNCHANGED fixtures
     \/ /\ "prepared" \in facts
        /\ \/ fixtures' = fixtures \ {action} /\ facts' = facts \cup {"settled"}
           \/ fixtures' \in MayBeGone(fixtures) /\ UNCHANGED facts
  /\ status' = IF "applied" \in facts /\ ~CleanupConfirmed(facts')
               THEN "cleanup_failed" ELSE status
  /\ UNCHANGED <<action, faults>>

LifecycleStep ==
  \/ Gate \/ PrepareFixture \/ Baseline
  \/ Apply \/ WaitInjected \/ Observe \/ WaitRecovered
  \/ Delete \/ Sweep \/ SettleFixture

---------------------------------------------------------------------------
(* One executor on its own: the objects of others, of an earlier run or of *)
(* the name a fallback takes, are there from the start or from the gate    *)
(* on, and they may go at any time.                                        *)

OneCallInit ==
  /\ step = "idle"
  /\ action = NoAction
  /\ facts = {}
  /\ status = "blocked"
  /\ faults \subseteq Actions
  /\ fixtures = {}

ObjectsOfOthers ==
  /\ faults' \subseteq IF step = "gate" THEN Actions ELSE faults
  /\ UNCHANGED <<callVars, fixtures>>

OneCallNext ==
  \/ \E a \in Actions : Call(a)
  \/ LifecycleStep \/ Return
  \/ ObjectsOfOthers

OneCall == OneCallInit /\ [][OneCallNext]_lifecycleVars
=============================================================================
