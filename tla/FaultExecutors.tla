--------------------------- MODULE FaultExecutors ---------------------------
(***************************************************************************)
(* The specialised fault executors and the wrapper that puts the business  *)
(* workflow around them:                                                   *)
(*   tools/kubernetes_fault_executor.py      merge patches of an object,   *)
(*                                           and the control plane's delay *)
(*   tools/minikube_control_plane_mutator.py the delay itself              *)
(*   tools/native_resource_fault_executor.py commands in a target pod      *)
(*   tools/native_http_fault_executor.py,                                  *)
(*   tools/native_extension_fault_executor.py   a control file in a pod    *)
(*   orchestration/workflow_executor.py      the wrapper                   *)
(*                                                                         *)
(* The target is a set of fields, one per thing a fault family changes: a  *)
(* key of the object, the control file, the qdisc, the pressure file. A    *)
(* command that is answered with an error (kubectl's time-out is one) may  *)
(* have had its effect. Calls follow each other on one target, as the      *)
(* faults of a phase do in run_scenario().                                 *)
(***************************************************************************)
EXTENDS Naturals, FiniteSets

CONSTANTS
  Families,   \* the fault families of the instance
  MaxCalls,   \* bound: calls on the target
  MaxCrashes  \* bound: deaths of the process

(* The families by executor; Additive ones add a key to a map.             *)
ApiFamilies == {"replica_reduction", "config_reload", "config_drift", "env_misconfiguration",
                "image_pull_failure", "rollout_pause", "secret_rotation", "pod_unschedulable"}
Additive == {"secret_rotation", "pod_unschedulable"}
ResourceFamilies == {"disk_pressure", "file_descriptor_exhaustion", "process_exhaustion"}
HttpFamilies == {"http_rate_limit", "business_dependency_unreachable"}
ExtensionFamilies == {"extension.queue_backlog", "extension.connection_pool_exhaustion",
                      "extension.runtime_pause"}
ControlFamilies == {"api_server_delay"}
AllFamilies == ApiFamilies \cup ResourceFamilies \cup HttpFamilies \cup ExtensionFamilies
                 \cup ControlFamilies
NoFamily == "none"

ASSUME FamiliesAssumption == Families \subseteq AllFamilies
ASSUME BoundsAssumption == MaxCalls \in Nat /\ MaxCrashes \in Nat

(* What a family changes. Families of one executor share a field where the *)
(* code gives them the same key or the same path.                          *)
Field(f) ==
  CASE f \in HttpFamilies -> "http-control"
    [] f \in ExtensionFamilies -> "extension-control"
    [] f \in {"env_misconfiguration", "image_pull_failure"} -> "containers"
    [] OTHER -> f
Fields == {Field(f) : f \in Families}
Values == {"absent", "own", "faulty"}

VARIABLES
  target,       \* the target's fields
  others,       \* additive families whose map holds other keys too
  needsFixture, \* the workflow prepares a business fixture
  fixture,      \* a business fixture exists
  pc,           \* where the call is, "idle" outside one
  fam,          \* its fault family
  snap,         \* the snapshot it took
  facts,        \* what it knows of its steps
  report,       \* the result's attestation.valid, cleanup_confirmed, promotion_allowed
  calls, crashes,
  \* history
  origin,       \* the target before the first call
  before,       \* the target before this call
  seen,         \* the fault was on the target while the business was observed
  trusted       \* every earlier call that tried its mutation reported a clean end

world == <<target, others, needsFixture, fixture>>
call == <<fam, snap, facts, report>>
counters == <<calls, crashes>>
history == <<origin, before, seen, trusted>>
vars == <<world, pc, call, counters, history>>

Steps == {"idle", "fixture", "preflight", "baseline", "apply", "confirm", "observe",
          "restore", "verify", "evidence", "settle"}
Facts == {"prepared", "baseline", "tried", "applied", "injected", "sealed", "observed",
          "raised", "undone", "restored", "recovered", "cleaned"}
Targets == [Fields -> Values]
Reports == [valid : BOOLEAN, cleanup : BOOLEAN, promotion : BOOLEAN]
NoReport == [valid |-> FALSE, cleanup |-> FALSE, promotion |-> FALSE]

TypeOK ==
  /\ target \in Targets /\ snap \in Targets /\ origin \in Targets /\ before \in Targets
  /\ others \subseteq Additive
  /\ needsFixture \in BOOLEAN /\ fixture \in BOOLEAN
  /\ pc \in Steps
  /\ fam \in Families \cup {NoFamily}
  /\ pc # "idle" => fam \in Families
  /\ facts \subseteq Facts
  /\ report \in Reports
  /\ calls \in 0 .. MaxCalls /\ crashes \in 0 .. MaxCrashes
  /\ seen \in BOOLEAN /\ trusted \in BOOLEAN

(* A field the object may lack: a key of a map, or spec.paused. Replicas   *)
(* and containers are always there; what lives in a pod or in the control  *)
(* plane's network never is.                                               *)
Optional == {"config_reload", "config_drift", "rollout_pause"} \cup Additive
PristineValues(k) ==
  CASE k \in Optional -> {"absent", "own"}
    [] k \in {"replica_reduction", "containers"} -> {"own"}
    [] OTHER -> {"absent"}

Init ==
  /\ target \in {t \in Targets : \A k \in Fields : t[k] \in PristineValues(k)}
  /\ others \in SUBSET (Additive \cap Families)
  /\ needsFixture \in BOOLEAN
  /\ fixture = FALSE
  /\ pc = "idle"
  /\ fam = NoFamily
  /\ facts = {}
  /\ report = NoReport
  /\ snap = target /\ origin = target /\ before = target
  /\ calls = 0 /\ crashes = 0
  /\ seen = FALSE /\ trusted = TRUE

Go(from, to) == pc = from /\ pc' = to
Learn(new) == facts' = facts \cup new

(* _finalize(): every gate of the attestation, from what is known by then. *)
Gates == {"baseline", "injected", "observed", "recovered", "cleaned"}
Finalized(known) ==
  [valid |-> Gates \subseteq known, cleanup |-> "cleaned" \in known,
   promotion |-> Gates \subseteq known]

(* The executor's answer. An exception loses the result: the wrapper makes *)
(* one with nothing confirmed. A result that was finalized before the      *)
(* finally block keeps its verdict, whatever the block adds to it.         *)
Answer(known) ==
  /\ facts' = IF "raised" \in known THEN known \ Gates ELSE known
  /\ report' = IF "raised" \in known THEN NoReport
               ELSE IF "sealed" \in known THEN report ELSE Finalized(known)

(* Every earlier mutation, and that of the last call, was reported clean.  *)
Accounted == trusted /\ ("tried" \in facts => report.cleanup)

---------------------------------------------------------------------------
(* What the mutation and its undoing do to the target.                     *)

Put(v) == [target EXCEPT ![Field(fam)] = v]
Faulted == Put("faulty")

(* The target after a mutation that was answered with success.             *)

(* The API server may accept a patch that a controller reverts.            *)
ApiAccepted == {target, Faulted}

(* A resource command is started in the background and answered before it  *)
(* has run. The shell that starts the two exhaustion commands expands      *)
(* their $i itself: it is unset, so under -u they end at once.             *)
ResourceAccepted == IF fam = "disk_pressure" THEN {target, Faulted} ELSE {target}

(* The other commands have had their effect when they are answered: the    *)
(* redirection into the control file, and tc's qdisc.                      *)
HttpAccepted == {Faulted}
ExtensionAccepted == {Faulted}
DelayAccepted == {Faulted}

Accepted ==
  CASE fam \in ApiFamilies -> ApiAccepted
    [] fam \in ResourceFamilies -> ResourceAccepted
    [] fam \in HttpFamilies -> HttpAccepted
    [] fam \in ExtensionFamilies -> ExtensionAccepted
    [] OTHER -> DelayAccepted

(* build_mutation()'s restore patch: the snapshot's value, null for a key  *)
(* that was absent, but an additive family whose map holds other keys does *)
(* not mention a key that was absent, and a merge patch then leaves it.    *)
ApiRestored ==
  IF fam \in Additive /\ snap[fam] = "absent" /\ fam \in others
  THEN target ELSE Put(snap[Field(fam)])

(* What the others undo is what there is: a file is removed, the qdisc is  *)
(* deleted, and two of the resource families have nothing to remove.       *)
Restored ==
  CASE fam \in ApiFamilies -> ApiRestored
    [] fam \in ResourceFamilies \ {"disk_pressure"} -> target
    [] OTHER -> Put("absent")

(* Seeded fault: the patch's answer is enough.                             *)
AnswerIsEnough == TRUE

(* What the read-back after the undoing compares: the object with its      *)
(* snapshot, the control file with its absence; of a resource fault only   *)
(* the marker files, which the same command removes.                       *)
ReadsBack ==
  CASE fam \in ApiFamilies -> \A k \in Fields \cap ({"containers"} \cup ApiFamilies) : target[k] = snap[k]
    [] fam \in HttpFamilies \cup ExtensionFamilies -> target[Field(fam)] = "absent"
    [] OTHER -> TRUE

---------------------------------------------------------------------------
(* Before the mutation.                                                    *)

(* A script calls the extension executor without the wrapper.              *)
Call(f) ==
  /\ calls < MaxCalls
  /\ f \in ExtensionFamilies => ~needsFixture
  /\ Go("idle", "fixture")
  /\ fam' = f
  /\ facts' = {}
  /\ report' = NoReport
  /\ snap' = target
  /\ calls' = calls + 1
  /\ before' = target
  /\ seen' = FALSE
  /\ trusted' = Accounted
  /\ UNCHANGED <<world, crashes, origin>>

(* A fixture that failed is the workflow's own business to remove, and the *)
(* call reports what the workflow says of that.                            *)
PrepareFixture ==
  /\ UNCHANGED <<target, others, needsFixture, fam, snap, counters, history>>
  /\ \/ /\ Go("fixture", "preflight")
        /\ fixture' = (fixture \/ needsFixture)
        /\ Learn(IF needsFixture THEN {"prepared"} ELSE {})
        /\ UNCHANGED report
     \/ /\ Go("fixture", "idle")
        /\ needsFixture
        /\ fixture' \in BOOLEAN
        /\ \E clean \in BOOLEAN : /\ clean => ~fixture'
                                  /\ report' = [report EXCEPT !.cleanup = clean]
        /\ UNCHANGED facts

(* What each executor asks of the target before it begins, behind the      *)
(* gates on manifest, namespace, approval and parameters. A Running pod    *)
(* with a shell and a writable /tmp is enough for a resource fault, also   *)
(* one that is under such a fault already; the probes of the other two     *)
(* in-pod executors want the control file absent.                          *)
ApiMayStart == fam \in ApiFamilies
ResourceMayStart == fam \in ResourceFamilies
HttpMayStart == fam \in HttpFamilies /\ target[Field(fam)] = "absent"
ExtensionMayStart == fam \in ExtensionFamilies /\ target[Field(fam)] = "absent"
DelayMayStart == fam \in ControlFamilies

CapabilityReady ==
  ApiMayStart \/ ResourceMayStart \/ HttpMayStart \/ ExtensionMayStart \/ DelayMayStart

(* The gates of a call, the snapshot, and the capability probe.            *)
Preflight ==
  /\ UNCHANGED <<world, fam, report, counters, history>>
  /\ \/ /\ Go("preflight", "baseline")
        /\ CapabilityReady
        /\ snap' = target
        /\ UNCHANGED facts
     \/ Go("preflight", "evidence") /\ UNCHANGED <<snap, facts>>

(* The independent business baseline: passed, or failed or raised.         *)
Baseline ==
  /\ UNCHANGED <<world, fam, snap, report, counters, history>>
  /\ \/ Go("baseline", "apply") /\ Learn({"baseline"})
     \/ Go("baseline", "evidence") /\ UNCHANGED facts

---------------------------------------------------------------------------
(* The mutation.                                                           *)

(* The control plane's mutator refuses a network that is delayed already.  *)
DefaultQdisc == fam \in ControlFamilies => target[fam] = "absent"

(* An answer that is an error leaves `applied` false: nothing is undone,   *)
(* though the mutation may have landed.                                    *)
Apply ==
  /\ UNCHANGED <<others, needsFixture, fixture, fam, snap, counters, history>>
  /\ \/ /\ Go("apply", IF fam \in ApiFamilies THEN "confirm" ELSE "observe")
        /\ DefaultQdisc
        /\ target' \in Accepted
        /\ Learn({"tried", "applied"} \cup IF fam \in ApiFamilies THEN {} ELSE {"injected"})
        /\ UNCHANGED report
     \/ /\ Go("apply", "evidence")
        /\ DefaultQdisc
        /\ target' \in {target} \cup Accepted
        /\ Answer(facts \cup {"tried"})
     \/ /\ Go("apply", "evidence")
        /\ ~DefaultQdisc
        /\ Answer(facts)
        /\ UNCHANGED target

(* Seeded fault: an accepted patch is an injection.                        *)
ConfirmAccepted ==
  /\ Go("confirm", "observe")
  /\ Learn({"injected"})
  /\ UNCHANGED <<world, fam, snap, report, counters, history>>

(* _confirm_injection() reads the object until its deadline. The result of *)
(* an injection that was not confirmed is finalized here, before the       *)
(* finally block undoes the mutation.                                      *)
Confirm ==
  /\ UNCHANGED <<world, fam, snap, counters, history>>
  /\ \/ /\ Go("confirm", "observe")
        /\ target[Field(fam)] = "faulty"
        /\ Learn({"injected"})
        /\ UNCHANGED report
     \/ /\ Go("confirm", "restore")
        /\ Learn({"sealed"})
        /\ report' = Finalized(facts)

(* Seeded fault: the probe is outside the try block.                       *)
ObserveUnguarded ==
  /\ pc = "observe"
  /\ seen' = (target[Field(fam)] = "faulty")
  /\ \/ Go("observe", "restore") /\ Learn({"observed"}) /\ UNCHANGED report
     \/ Go("observe", "evidence") /\ Answer(facts \cup {"raised"})
  /\ UNCHANGED <<world, fam, snap, counters, origin, before, trusted>>

(* The business probe: conclusive, inconclusive, or it raises, which only  *)
(* the control plane's mutator catches.                                    *)
Observe ==
  /\ Go("observe", "restore")
  /\ seen' = (target[Field(fam)] = "faulty")
  /\ \/ Learn({"observed"})
     \/ UNCHANGED facts
     \/ fam \notin ControlFamilies /\ Learn({"raised"})
  /\ UNCHANGED <<world, fam, snap, report, counters, origin, before, trusted>>

---------------------------------------------------------------------------
(* The finally block.                                                      *)

Restore ==
  /\ Go("restore", "verify")
  /\ \/ target' = Restored /\ Learn({"undone", "restored"})
     \/ target' \in {target, Restored} /\ Learn({"undone"})
  /\ UNCHANGED <<others, needsFixture, fixture, fam, snap, report, counters, history>>

VerifiedNow == "restored" \in facts /\ ReadsBack

(* Recovery and cleanup are one word of the API executor: the restore      *)
(* patch was accepted, the object reads as its snapshot, and the business  *)
(* answers again.                                                          *)
ApiVerify ==
  /\ fam \in ApiFamilies
  /\ \/ VerifiedNow /\ Answer(facts \cup {"recovered", "cleaned"})
     \/ Answer(facts)

(* A resource fault has recovered when the command that ends it succeeds,  *)
(* and is cleaned up when the marker files are gone; nothing is probed.    *)
ResourceVerify ==
  /\ fam \in ResourceFamilies
  /\ \/ VerifiedNow /\ Answer(facts \cup {"recovered", "cleaned"})
     \/ "restored" \in facts /\ Answer(facts \cup {"recovered"})
     \/ Answer(facts)

(* A control file that is gone is cleaned up, whatever the probe says. The *)
(* HTTP executor takes a probe that raises for one that did not pass; that *)
(* of the extensions lets it through.                                      *)
HttpVerify ==
  /\ fam \in HttpFamilies
  /\ \/ VerifiedNow /\ \E new \in {{"cleaned"}, {"cleaned", "recovered"}} : Answer(facts \cup new)
     \/ Answer(facts)

ExtensionVerify ==
  /\ fam \in ExtensionFamilies
  /\ \/ VerifiedNow /\ \E new \in {{"cleaned"}, {"cleaned", "recovered"}, {"cleaned", "raised"}} :
                         Answer(facts \cup new)
     \/ Answer(facts)

(* The control plane has recovered when /readyz answers, and is cleaned up *)
(* when the qdisc was deleted as well.                                     *)
DelayVerify ==
  /\ fam \in ControlFamilies
  /\ \/ VerifiedNow /\ Answer(facts \cup {"recovered", "cleaned"})
     \/ \E new \in {{}, {"recovered"}} : Answer(facts \cup new)

Verify ==
  /\ Go("verify", "evidence")
  /\ ApiVerify \/ ResourceVerify \/ HttpVerify \/ ExtensionVerify \/ DelayVerify
  /\ UNCHANGED <<world, fam, snap, counters, history>>

---------------------------------------------------------------------------
(* The wrapper's end: evidence, and the fixture's cleanup.                 *)

CollectEvidence ==
  /\ Go("evidence", "settle")
  /\ \/ UNCHANGED report
     \/ report' = [report EXCEPT !.promotion = FALSE]
  /\ UNCHANGED <<world, fam, snap, facts, counters, history>>

(* Seeded fault: the fault's cleanup decides alone.                        *)
FaultOnly(clean) ==
  IF "cleaned" \in facts THEN [report EXCEPT !.cleanup = TRUE] ELSE NoReport

(* _cleanup_failed(): both cleanups, from the nested words of the result.  *)
WithBusiness(clean) ==
  IF "cleaned" \in facts /\ clean
  THEN [report EXCEPT !.cleanup = TRUE]
  ELSE NoReport

SettleFixture ==
  /\ Go("settle", "idle")
  /\ \/ "prepared" \notin facts /\ UNCHANGED <<fixture, report>>
     \/ "prepared" \in facts /\ fixture' = FALSE /\ report' = WithBusiness(TRUE)
     \/ "prepared" \in facts /\ fixture' \in {fixture, FALSE} /\ report' = WithBusiness(FALSE)
  /\ UNCHANGED <<target, others, needsFixture, fam, snap, facts, counters, history>>

(* The process dies; nothing of the call is persisted.                     *)
Crash ==
  /\ crashes < MaxCrashes
  /\ pc # "idle" /\ pc' = "idle"
  /\ report' = NoReport
  /\ crashes' = crashes + 1
  /\ UNCHANGED <<world, fam, snap, facts, calls, history>>

Step ==
  \/ PrepareFixture \/ Preflight \/ Baseline
  \/ Apply \/ Confirm \/ Observe
  \/ Restore \/ Verify
  \/ CollectEvidence \/ SettleFixture

Next ==
  \/ \E f \in Families : Call(f)
  \/ Step
  \/ Crash

Spec == Init /\ [][Next]_vars

---------------------------------------------------------------------------
(* Properties.                                                             *)

(* As long as every call that tried its mutation has reported a confirmed  *)
(* cleanup, the target is as it was before the first of them, whatever     *)
(* timed out, raised or was reverted on the way: no executor calls clean   *)
(* what it has not undone.                                                 *)
NoSilentResidue == pc = "idle" /\ Accounted => target = origin

(* Once a mutation was acknowledged, its undoing is sent before the call   *)
(* answers, also when the observation raised or nothing was confirmed.     *)
AppliedIsUndone ==
  pc \in {"evidence", "settle"} /\ "applied" \in facts => "undone" \in facts

(* A valid attestation is that of a call that left nothing behind: no      *)
(* fixture, and no field changed that was not changed before it, in a      *)
(* target that earlier calls may have left in any state.                   *)
AttestedIsClean ==
  pc = "idle" /\ report.valid =>
    /\ ~fixture
    /\ \A k \in Fields : target[k] # origin[k] => before[k] # origin[k]

(* A valid attestation is that of a fault that was on the target when the  *)
(* business was observed; of the executors, all but the resource one.      *)
AttestedIsReal ==
  pc = "idle" /\ report.valid /\ fam \notin ResourceFamilies => seen

-----------------------------------------------------------------------------
(* Statements of docs and comments that the code does not keep (README,    *)
(* section 6).                                                             *)

(* The same of every executor: an injection that is not confirmed does not *)
(* count as evidence.                                                      *)
EveryAttestedIsReal == pc = "idle" /\ report.valid => seen
=============================================================================
