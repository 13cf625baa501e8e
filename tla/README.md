# Formal model of ChaosAtlas

ChaosAtlas plans chaos experiments, runs them against disposable Kubernetes
environments or transaction services, explains what they show, and promotes
what it learns. This directory holds TLA+ modules for the parts of it where
order, failure and concurrency decide whether it is correct, TLC configurations
that check them on small instances, and TLAPS proofs of the properties that
matter most. All source paths are relative to the repository; modules of the
package are under `src/chaosatlas/`, its tools under `tools/`.

## 1. Inventory

| Component | Source | State it keeps | Operations | What is hard, and what makes it correct |
|---|---|---|---|---|
| Isolation manager, lease store, lease contract | `isolation/{manager,lease_store,contracts}.py` | lease files, audits, `active-l3.json`, flock files | `prepare`, `release`, `recover`, `reap_expired`, `status` | processes interleave, die between steps, read a lease before they lock it; one active lease per project, one L3 environment per coordination root, no environment that no lease tracks |
| Isolation providers | `isolation/providers.py` | namespaces, Minikube profiles, resource identities in the lease | `preflight`, `prepare`, `verify_ready`, `cleanup`, `verify_absent` | partial creation, replaced objects, slow deletion, commands killed on a time-out; never delete what the lease does not own, never call it gone while it exists |
| Isolation planner and blueprint | `isolation/{planner,blueprint}.py` | none | `plan`, `compile_blueprint` | isolation level never lowered; pure functions |
| Isolated run | `orchestration/isolated_run.py` | `isolation-lifecycle.json` | `run_isolated_live` | always releases; what it reports must match the lease |
| Transaction replay and recovery | `oracles/{replay_session,recovery_ledger,ownership,transaction_*,runtime_binding}.py` | recovery ledger per run, external service's objects | `prepare`, `execute`, `cleanup`, `recover` | a request whose answer is lost, a crash between intent and effect, a replaced object; never delete a foreign object, never close a run with objects left |
| Replay, identity bootstrap, oracle compilation | `oracles/{replay,replay_validation,identity_bootstrap,registry,builder,project_v3,...}.py` | recorded traffic, registries | compile, validate, approve | pure transformations of recorded data |
| Experiment lifecycle executor | `tools/kubernetes_lifecycle_executor.py`, `tools/run_chaos_experiment.py`, `tools/runtime_applicability_gate.py`, `tools/chaos_mesh_cleanup.py` | fault object, workload fixture, evidence | gate, probe, apply, wait, observe, recover, clean up, judge | exceptions at each step, a cluster that moves between two polls; every fixture and fault that was set up is removed, no effect is ascribed to a fault that was not there |
| Fault executors | `tools/{kubernetes,native_*}_fault_executor.py`, `tools/minikube_control_plane_mutator.py`, `orchestration/workflow_executor.py` | a changed object, a control file, a qdisc, a pressure file; a snapshot in memory | one call: fixture, baseline, mutate, confirm, observe, undo, read back, attest | a mutation that landed without being acknowledged, an exception between mutation and undoing; nothing is called clean that was not undone, nothing attested that was not there |
| Live batch | `orchestration/batch.py` | `batch_manifest.json`, `batch_state.jsonl`, `policy-state.json`, `batch_summary.json`, an output directory per candidate | `run_live_batch`, resume | a crash between two journal entries; a live mutation is never repeated |
| Closed loop engine | `orchestration/engine.py`, `tools/chaosatlas_contracts.py` | `run_manifest.json`, stage artifacts, `checkpoint.json`, advisory files, `summary.json` | fifteen stages, resume | a resumed run must act on what the interrupted run decided |
| Planning tools | `tools/{kubernetes_project_adapter,chaosatlas_adapters,parameterized_candidates,chaosatlas_hypothesis,decision_engine,evidence_action_planner}.py` | none | map, rank, plan, select | three places choose a candidate, by different orders; what is executed must be what was recorded |
| Policies and gates | `tools/{policy_controller,policy_selection_gate,experiment_policy*,stop_policy}.py` | policy files | selection, stop decision, feedback | numeric boundaries, stale feedback |
| RCA loop | `tools/{rca_loop,rca_runtime_loop,discovery_to_rca,sock_shop_rca,compile_rca_regression,validate_rca_loop}.py` | a round directory: cases, manifest, drafts, report | rounds, ingestion, gates | evidence that contradicts what earlier rounds concluded; a round that ends anywhere |
| Knowledge promotion and retrieval | `tools/{weakness_promotion_stage,defense_promotion_stage,defense_knowledge,validate_knowledge_base,decision_engine}.py` | the knowledge root: cards, intents | promote, validate, retrieve, boost | several processes write one root file by file without a lock |
| Adaptive coverage campaign | `tools/{dify_adaptive_coverage,dify_experience_promotion,adaptive_budget,causal_identity,llm_policy}.py`, `scripts/run_dify_k8s_adaptive_coverage.py` | `adaptive_state.json`, rows, cards, index | select, try, promote, save, resume | a death forgets a trial; caps, repetitions and completeness must survive it |
| Improvement retest | `tools/{deployment_improvement,fresh_deploy,run_live_improvement,run_deployment_scenario}.py` | a patched copy, a deployed namespace, summary and evidence | patch, deploy, retest, compare, clean up | partial applies and deletions; nothing is an improvement that was not in force |
| Capabilities and experiments | `capabilities/*.py`, `experiments/p5.py`, `tools/fault_catalog.py` | assessment tables | compile, assess | pure |
| Command line, workspace, scripts | `cli.py`, `workspace.py`, `scripts/*.py` | none | argument parsing, process entry points | glue |

The components meet in files and in calls. `cli.py` calls the engine, the
batch, the isolated run or the isolation manager. The isolated run prepares a
lease, writes a runtime profile for it, calls an executor and releases. The
batch runs one isolated or direct live execution per item and promotes at its
end. The engine maps, retrieves from the knowledge root, ranks, plans and
selects, then executes one candidate. The executor applies a fault around a
workload fixture or a transaction session. Separate processes (another
workspace, a periodic `reap-expired`, an operator's `recover`, another batch)
share only the lease store, the coordination root, the recovery ledger and the
knowledge root.

## 2. Plan

The order puts first what is concurrent, persistent or destructive: a mistake
there damages an environment or a report, and no unit test reaches it. All
steps below are done.

| Step | Modules | Subject |
|---|---|---|
| 1 | `IsolationLease`, `L3Slot`, `IsolationRefinement`, `IsolationLeaseProofs` | leases, locks, reaping, crashes; what the manager promises, and that it keeps it |
| 2 | `TransactionReplay`, `TransactionReplayProofs` | ledger, ownership, recovery of business transactions |
| 3 | `LifecycleExecutor`, `LiveBatch`, `LiveBatchProofs` | one experiment, and batches of them with resume |
| 4 | `ClosedLoop`, `LoopAndStoreProofs` | the output directory of a run: stages, checkpoint, resume |
| 5 | `FaultExecutors`, `FaultExecutorsProofs` | the native, API and control-plane executors: mutate, observe, undo, attest |
| 6 | `RcaLoop`, `RcaAndMeasurementProofs` | rounds, hypotheses, evidence, cases and their knowledge |
| 7 | `KnowledgeStore`, `CandidateChoice`, `LoopAndStoreProofs` | publication into the knowledge root; what a run makes of it |
| 8 | `AdaptiveCoverage`, `AdaptiveCoverageProofs` | the adaptive campaign, its caps and its memory |
| 9 | `IsolatedRun`, `RunAndRetestProofs` | one isolated run with the providers' commands and a recovery beside it |
| 10 | `ChaosTarget`, `Verdicts`, `Measurement`, `MeasurementRefinement`, `RcaAndMeasurementProofs` | one experiment against a moving cluster, and that it implements step 3's |
| 11 | `Improvement`, `RunAndRetestProofs` | the retest of a manifest improvement |

What a continuation would take up first: a run for each of the disagreements of
section 6, and the posterior and the stop rules of the policies as operators
over bounded numbers.

## 3. The modules and the code

Names of variables, operators and actions follow the code where they can.
Every module says in its header what it models; this section says how state
and actions correspond.

### IsolationLease (isolation/manager.py, lease_store.py, contracts.py)

`file[l]` is the state in `leases/<id>.json`: absent, created empty by
`save(require_new=True)`, or one of `LEASE_STATES`.  `registered` and `env` are
the lease's recorded resource identity and the environment itself, `claim` is
`active-l3.json` of each coordination root, `creation` and `oplock` are the
flock locks, `expired` the clock's view of the TTL.  `pc`, `job` and `todo` are
each process's place, lease and reaping list.

`prepare()` takes eleven actions from `RequestPrepare` (creation lock) through
`Admit` (the scan), the two-step creation of the file, the L3 claim, the gap
between its two locks, to provisioning, registration, creation of the
environment and `ready`.  `release()`/`recover()` and `reap_expired()` share the
release actions: write `releasing`, clean up, record `released` or
`cleanup_failed`, free the claim.  A process may die at every one of them; its
locks are dropped and everything on disk stays.  What the code writes from a
lease object it read earlier is written from that object: a lease written back
to `preparing` after it had been released is remembered in `resurrected`.

`L3Slot` is the promise free of files, locks and processes;
`IsolationRefinement` maps life, owner and standing to `file`, `claim` and `env`.

### IsolatedRun (orchestration/isolated_run.py, isolation/providers.py)

One call of `run_isolated_live()` with both built-in providers command by
command, and a recovery or reaper that may take the lease whenever its
operation lock is free.  `run` is the next step of the call, `rel` that of
`_release_locked`, whoever executes it; `lease`, `inner`, `errors` and `raising`
are the call's local variables, `life` and `result` what it reports.  `there` is
the set of parts of the environment that exist (a namespace; a profile's
directories, container and kubeconfig), `pending` those a killed command may
still create, `recorded` the identities in the lease file.  Every command has
three outcomes: done, failed before or after its effect, and killed with the
effect to come (`Land`).  `IsolationLease` has the same calls as steps that
succeed or fail; claims and other leases are there.

### TransactionReplay (oracles/replay_session.py, recovery_ledger.py, ownership.py, runtime_binding.py)

`lifecycle`, `entry`, `identity` and `tunnel` are the ledger file of each run:
its lifecycle, the state of each operation (table `TRANSITIONS`), the recorded
object identity, and whose tunnel origin it is bound to.  `request`, `object`
and `deletes` are the application: where the one request of each operation is
(an answer may be lost, a commit may come late), what a lookup by marker finds,
the deletions under way.  `lease` is the environment's lease.

One action is one save of the ledger, one request or one answer, since a crash
can separate any two of these.  `prepare()` is `CreateLedger` to `Prepared`, a
write being `Intent`, `MarkUnknown`, `Send`, `Respond`, `Confirm`; `cleanup()`
and `recover()` share `StartCleanup` to `Close`.  Read steps, `probe()` and
`self_check()` change no state.

### LifecycleExecutor and LiveBatch (tools/kubernetes_lifecycle_executor.py, orchestration/batch.py)

`LifecycleExecutor` is one call of `run()`: gate, fixture, baseline, apply,
wait, observe, recover, delete, sweep, fixture cleanup.  `facts` is what the
call knows (its booleans), `faults` and `fixtures` are what is in the
namespace.  A command that fails may have had its effect, and each step that
raises goes where the code's `except` and `finally` send it.

`LiveBatch` composes it with `run_live_batch()`: `journal` is the last line of
each candidate in `batch_state.jsonl`, `used` the non-empty output directories,
`cleanup` the cleanup reports, `learned` the run counts of the policy state.
Both loops are modelled, the legacy one over the candidates in order and the
one in which the policy chooses; which candidate it picks and when it stops is
free, so the properties hold for every policy.

### Measurement, ChaosTarget, Verdicts (the executor, run_chaos_experiment.py, runtime_applicability_gate.py, classify_runtime_result.py, engine.py)

The same call against a cluster that moves.  `ChaosTarget` is what the polls
read and the repository does not contain: a Deployment whose Pods are killed,
evicted, replaced and become ready, and the one Chaos Mesh object; it is
external and modelled from how the polls use it.  `Measurement` has two
clients, `KubernetesLifecycleExecutor.run()` and the stand-alone runner's
`main()`; one action is one call or one poll: the gate check by check, probes,
`kubectl apply`, the polls for injection and recovery with their `stable`
counter, deletion with its read-back, the sweep.  `run` is the record the client
fills in, `base` the restart counts the gate noted, `seen` whether the recovery
wait has seen the object injected, `victim` (of the target) the Pod this
experiment's own object hit.  A poll may run into its deadline at any time.
`Verdicts` are the pure functions drawn from the record: the attestation, the
engine's verdict, evidence and claim of redundancy, the runner's classification
and result contract.  `MeasurementRefinement` maps it to `LifecycleExecutor`:
what a batch takes for one step is a run of calls here.

### ClosedLoop (orchestration/engine.py, tools/chaosatlas_contracts.py)

One output directory of `run_closed_loop()`.  `manifest` is the input snapshot
(mode and profile) with `torn` for a manifest that was being written,
`checkpoint` the number of stages `checkpoint.json` lists, `artifact[i]` the
profile the artifact of stage i was made from, `side` the portrait, the
registry and the evidence plan, `summary` the status in `summary.json`.
`WriteArtifact` and `WriteCheckpoint` are the two atomic replaces of `_stage()`;
side files are opened and filled in two steps because they are written in
place.  `Start`, `Resume` and `Refuse` are the three beginnings of an
invocation, `Abort` the handler at the end of the function, used by `Raise`
(whatever raises) and `ReadTorn` (a file that does not parse).

### CandidateChoice (the planning tools, decision_engine.py, engine.py)

How a run comes to the one candidate it executes, as operators: `Space` (the
mapping of the live and of the offline adapter, with parameter ladders),
`Ranked` (native scores, or `fallback_rank` when the legacy registries are
needed and missing), `Planned` (the evidence plan), `Selection`
(`candidate_selection.json`) and `LiveChoice`, `Admitted`, `Executed` (what a live
run takes, and the checks before its scenario). A run reads the knowledge root
once, so all of it is a function of the inventory, the request, the oracle and
what `Retrieved` gives: the module has no state, and its properties are asked in
every state of `KnowledgeStore`. A place in the ranking is one more than the
number of candidates ahead, and the first that matches is the one at the least
index; sorting and filtering by a comparison give the same lists where ids are
unique (`SpaceAssumption`; `expand_candidates` raises on a duplicate id,
parameterized_candidates.py:88, the evidence plan blocks on one,
evidence_action_planner.py:190), and the provers can look into these forms.

### KnowledgeStore (the promotion stages, validate_knowledge_base.py)

The knowledge root and the processes that publish into it. `files` are the
names in the root (the two cards, their `KB-` files, the intents), each absent,
torn or the card it was made from; `stage`, `card` and `todo` are where a
promotion is, `report` its last `knowledge_promotion.json`. `StartWeakness` and
`StartDefense` are the gates over a history; then each file is a look (a weakness
never overwrites a different file), an open that truncates it and a fill, and
the process may die (`Die`) or the copy fail (`CopyFails`) at each. A recorded
run is its identity, its fingerprint and its `flaws`, the checks of
`_validate_run` it would fail.

### RcaLoop (tools/rca_loop.py, rca_runtime_loop.py, and their inputs)

`base` is the round directory that is read, `work` the one being written, file
by file: `AdvanceCase` (plan, execute, ingest one case), `WriteManifest`,
`WriteDrafts`, `Validate`, and `Raise` for a round that ends in between.
`Begin` starts a round on the last one, with a set of declared preconditions,
live or dry. `HYPOTHESES`, `EvidenceActions` and `FROZEN` are the tables of the
case families, `Plan` the planner's order, `Ingest` the whole of
`ingest_action_result`: evidence merged, hypotheses, case and knowledge card
recomputed by the gates (`NextRca`, `NextKnowledge`). Evidence is a record of who
says what about which hypothesis, and which requirements it meets.

### AdaptiveCoverage (tools/dify_adaptive_coverage.py, its driver, dify_experience_promotion.py)

The campaign's driver: `Select` (the deterministic selector, or any answer of a
model behind the guard), `Trial`, `Promote`, `Refresh` (cards and index), `Save`
(the state file), `Die` and `Start` again. `rows` is the memory of the driver, by
candidate and outcome, `saved` the state file, `cards` and `index` the knowledge
root. `completed` and `confirmed` are history: what really ran, which a death may
make the driver forget.

### FaultExecutors (the specialised executors, orchestration/workflow_executor.py)

`target` is what the fault families change, a field each: `absent`, the
target's `own` value, or `faulty`; families that share a key, the containers or
the control file share a field, and an object and the pods rolled out from it
are one field.  `facts` is what a call has recorded in its result, `report` the
attestation, `cleanup_confirmed` and `promotion_allowed` of its answer, which
the wrapper may still lower.  `others` says for which families that add a key
the object's map holds other keys too, since a merge patch then cannot take the
key away.

One action is one command or probe with all its outcomes: `PrepareFixture`,
`Preflight` (gates, snapshot, capability probe), `Baseline`, `Apply`,
`Confirm`, `Observe`, then `Restore` and `Verify` of the finally block, and
`CollectEvidence` and `SettleFixture` of the wrapper.  An executor without a
step skips it; what each executor's command may do to the field, and what its
read-back looks at, is an operator per executor (`ApiAccepted`,
`ResourceAccepted`, `DelayAccepted`, ...).  A command that is answered with an
error or a time-out may have had its effect, an accepted patch may be reverted
by a controller, and a resource command is answered before it has run.  `sealed`
marks a result that was finalized before the finally block, `raised` one that
was lost to an exception.  `origin`, `before`, `seen` and `trusted` are history:
the target before the first and before this call, whether the fault was there
while the business was observed, and whether every earlier mutation was
reported clean.

### Improvement (deployment_improvement.py, fresh_deploy.py, run_live_improvement.py, run_deployment_scenario.py)

Three entries on one namespace: the dry run, the approved live retest and the
scenario retest. `layout` are the sources, files of documents that each declare
an object, `proposal` what is patched, `live` the objects of the namespace:
absent, `before`, or as this run applied them, `original` or `patched`. `ApplyFile`
and `DeleteFile` are one kubectl command each, which when it fails has done any
part of its work; `Retest` is the run of the engine, one step with an outcome.
`status`, `evidence` and `promotion` are the answer, written apart by the code.
`measured` and `residue` are history.

## 4. What is checked

`MC*` modules give the constants small values; every bound is a constant of the
module it bounds.  `CHECK_DEADLOCK` is off where everybody may be done and
nobody has to call anything; `RcaLoop` and `KnowledgeStore` can always go on,
and are checked for deadlock.

| Run | Instance | Shows |
|---|---|---|
| `isolation_project` | 2 L3 leases of one project in one store; 2 clients, 1 reaper, 1 crash; fair | `ProjectExclusive`, `ExpiredReclaimed`, `ImplementsL3Slot`: one live lease per project, every expired lease is released unless the code cannot clean it up, and the manager keeps the promise of the slot |
| `isolated_run` | one run in each mode of the plan; 3 faults (interrupts, store errors, failing cleanups), 2 deaths; fair | `ResidueIsRecorded`, `ReleasedIsAbsent`, `NamespacesAreReleased`: what exists is on record wherever a process dies, what is released is gone, a namespace's lease ends released |
| `transaction_exact` | 2 sessions, 2 runs of one project, a creation and an update of its object, deletion by exact identity, 1 crash | `OneActiveRun`, `NeverSentTwice`, `LedgerCoversObjects`, `CopiesSurvive` |
| `transaction_lease` | 2 sessions, 1 run in a lease-exclusive environment that its cleanup releases, 2 crashes; fair | `EnvironmentsAreReleased` |
| `live_batch` | 2 candidates, both loops, 2 crashes, any residue removed by the operator between invocations | `ExperimentsAreIsolated`, `InjectedOnce`, `VerifiedIsClean`, `LearnedOnce` |
| `measurement` | up to 2 replicas out of 4 Pod identities, 4 kinds of fault, 1 disturbance, 3 stable polls, 1 earlier restart, an object left by an earlier run or a stranger; both clients | `RecoveryIsReal`, `ResidueIsReported`, `EffectsAreCaused`, `ImplementsLifecycle`: a recovery is that of the fault this run injected, residue is reported, no effect is ascribed to a fault that hit nothing, and a batch's view of the call is right |
| `closed_loop` | a valid and an invalid profile that are exchanged between invocations, both modes, 2 crashes, 1 exception; fair | `OneProfile`, `LiveIsAppendOnly`, `InterruptedRunsFinish` |
| `fault_executors` | 8 families, one of each way to mutate and undo, 2 calls on one target, 1 crash | `NoSilentResidue`, `AttestedIsReal` |
| `rca_loop` | 2 cases with results that prove, half prove, contradict mildly or severely, any number of rounds, live and dry | `ConfirmedIsEarned`, `ReusableIsUncontradicted`, `RoundsKeepTheirParent` |
| `knowledge_store` | a batch and a defence over 7 histories (copied, incomplete, too few, unwatched runs among them), any number of deaths and failed copies; read by runs of 3 inventories with 5 requests (one of them none) and 5 oracles | `RankIsEarned`, `ExecutedIsRecorded`, `PromotedIsInstalled`, `ValidatorAgrees`, `WeaknessIsKept` |
| `adaptive_coverage` | 4 candidates of 2 services, one with two levels; with and without a cap, with and without history; 4 actions, 1 death | `BudgetHolds`, `StopIsComplete`, `CardsAreEarned`, `FinishedIsPublished` |
| `improvement` | 2 objects in 4 layouts, 2 phases of 2 faults, 2 invocations on one namespace, 1 death | `ImprovementIsClean`, `ImprovementIsMeasured`, `ResidueIsBlocked`, `EvidenceAgrees` |

Why the bounds are enough to be of interest: two leases, runs, candidates, cases
or profiles are the fewest that can be confused with each other; a conflict
needs two processes, and the reaper is the third that comes in between; one
crash leaves every intermediate state of every operation, and the second lets
the recovery itself be interrupted. The safety properties of these runs are
proved for all values of the constants (section 5), so that their bounds matter
for the liveness properties, and for what the runs are also for: to find a flaw
in a changed model before it is proved again. Two calls of a fault executor are
a fault and the next one, which starts in what the first left; so are two
invocations of an improvement. Contention across stores, leases that are not L3
and more processes are covered by the theorems about `IsolationLease`, and by
`IsolatedRun` for one lease. The bounds are chosen for the cases that can be
told apart: in `measurement` two replicas distinguish redundancy from a
singleton, four Pod identities allow each replica to be replaced once and one
replacement to be disturbed; the histories of `knowledge_store` miss one
condition each, and its inventories have a ladder, a StatefulSet and another
project, whose cards must not count; the layouts of `improvement` have an object
declared once, twice in one file and twice in two. In `transaction_exact` the
sessions and runs, in `measurement` the Pods are interchangeable (symmetry);
neither checks liveness.

Properties that are proved and no longer in a run: the types, `StepInv`,
`EnvIsTracked`, `L3EnvHoldsClaim`, `ReleasedLeaseFreesClaim`, `LegalWrites`,
`OneOperator`, `LedgerSteps`, `RecoverableSteps`, `DeletionsAreClaimed`,
`TerminalStatesAreFinal`, `CheckpointIsBacked`, `ProgressIsKept`, `AppliedIsUndone`,
`AttestedIsClean`, and `VerifiedIsClean` of `IsolatedRun`.

Fairness, and why the code justifies it:

- A call that has begun goes on until it returns or its process dies: weak
  fairness of the steps of a call, in all fair specifications. The code has no
  unbounded wait between two of them: commands and polls have time-outs.
- `IsolationLease`: `reap-expired` runs periodically and finds the store
  readable again and again (strong fairness of `ReapList`, as a listing that
  raises is tried again); a provider that can clean a lease up does not fail
  for ever (strong fairness of a successful cleanup); TTLs run out (weak
  fairness of `Expire`). Nobody has to prepare or release.
- `IsolatedRun`: recovery is called as long as the lease is not released, and a
  namespace that is being deleted is finalized in the end (weak fairness of
  `Recover` and `Finalize`). Outside prepare() and release() the call itself need
  not go on.
- `TransactionReplay`: somebody retries the recovery, and neither the cluster
  queries nor the release fail for ever (strong fairness of `Recover`,
  `StartCleanup`, `ReleaseEnvironment`).
- `ClosedLoop`: an operator who has the run's own profile again and again
  resumes the run (strong fairness of `Resume("dry-run")`). Crashes, edits and
  exceptions are never forced; they are bounded.

Liveness: every lease that expires is released or is one the code cannot clean
up, which the property names (`ExpiredReclaimed`); the lease of a namespace is
released wherever the run or a recovery ended (`NamespacesAreReleased`); in a
disposable environment the environment of an active transaction is released in
the end (`EnvironmentsAreReleased`); an interrupted dry run of a valid profile
can be finished by resuming it, unless a file written in place was torn
(`InterruptedRunsFinish`).

Every property of a run has a mutant in `PROJECT.json`: a definition that models
code, changed as a plausible bug would, with which the run finds the property
violated. The changed forms stand in the modules as "Seeded fault".

## 5. What is proved

TLAPS proves the safety properties and refinements for every number of leases,
stores, roots, processes, runs, sessions, contracts, candidates, profiles, cases,
faults, Pods, polls, files and crashes, for any evidence and any inventory, from
the named assumptions of the modules, which TLC evaluates on every run:

| Assumption | What it says, and why |
|---|---|
| `LeaseAssumption`, `ContractAssumption`, `BatchAssumption`, `RcaAssumption` | the shapes of what a store, a contract, a selection and a case are made of; a contract's and a case's tables are well-formed when they are loaded |
| `ActionAssumption`, `LoopAssumption`, `MarkerAssumption`, `FamiliesAssumption`, `TargetAssumption` | the values that stand for "nothing" are none of the others; finitely many Pods |
| `BoundsAssumption`, `PollAssumption`, `IsolatedRunAssumption` | bounds are numbers, at least one stable poll is asked for |
| `CampaignAssumption`, `HistoryAssumption` | a finite set of candidates; a cap is not below what the history has used |
| `KnowledgeAssumption` | finitely many recorded runs, of which histories consist; a process promotes weaknesses or defences |
| `SpaceAssumption` | a candidate space is a list of candidates of its project with ids of their own (section 3) |
| `ImprovementAssumption` | sources are one or more files of one or more documents, as `_manifest_paths` finds them |

Each component has an inductive invariant; no property is inductive by itself.
Three proof modules are about two components each, which have no state in
common.

- `IsolationLeaseProofs`: `IInv` adds `StepInv` to the properties. An
  environment is tracked because of what the lease file says at the step its
  creator has reached, which the operation lock protects; a project is
  exclusive because the scan stays true from `Admit` to the write, which the
  creation lock protects; the claim of a prepared L3 lease cannot be released
  in the gap between the locks, because nothing is registered yet and no
  cleanup of it can be verified. On it rests `Spec => ImplementsL3Slot`: every
  action is a step of the promise or leaves its variables alone, since an
  environment is built by a lease that still owns the slot.
- `RunAndRetestProofs`, isolated run (`IInv`): whoever holds the operation lock alone moves the lease
  file; the run reaches a creating command only with its parts on record; and
  what a release reads of the cluster under the lock stays true up to its
  record, but for a killed command's effect, which `stray` remembers.
- `RunAndRetestProofs`, retest (`RInv`): `FlowInv` is the order of the steps; what
  this run owns in the namespace is declared in its sources, and there is none
  before it applies and after it settles (`OwnInv`); the patched object is in
  force from the file that holds it on, if every object is declared once
  (`ForceInv`); what was deleted so far was declared once and is gone, because
  kubectl does not find an object a second time (`DeleteInv`); what is recorded as
  cleaned up is (`PhaseInv`). So a cleanup that succeeded is also the proof that
  no second document took the patch back. The answers are drawn from these, on
  each of the paths by which a run ends.
- `TransactionReplayProofs`: `IInv` adds `RecoverableSteps`, which ties ledger,
  wire and application together at every place a session can be: who sends has
  recorded an unknown outcome, who settles an entry has seen the object gone.
  With it the properties hold in both ownership modes and for contracts of any
  length, also for exact lookups in an environment that is released, which no
  run covers.
- `LiveBatchProofs`: `IInv` says that a candidate has one call of the executor
  in its life (its directory is used before the mutation), that what the
  executor has confirmed is so at each of its steps, that `verified` is written
  only when the call has returned with nothing left, and that what a resumed
  batch has not attempted is not in a terminal state.
- `LoopAndStoreProofs`, loop (`IInv`): the invariant says that an untorn manifest names the profile of
  every artifact, that an invocation is never behind the checkpoint, and that a
  live execution is behind a live manifest, behind which nothing begins.
- `LoopAndStoreProofs`, knowledge root: `RootInv` says that a promotion has an
  earned card in hand (three sound runs of one claim with different artefacts)
  and writes it under this card's names only, so that what lies whole under a
  card's name was earned, whatever number of batches and defences interleave,
  fail and die. The validator accepts such weakness cards. `BatchInv` adds in
  which order a batch has copied its files; it and what rests on it
  (`PromotedIsInstalled`, `WeaknessIsKept`) are proved for one batch at a time
  beside any number of defences (`OneBatch`): with two the properties are false
  (section 6).
- `LoopAndStoreProofs`, choice: ids are in a total order, so that score and id
  rank the candidates of a space without ties, and a rank, being an injection of
  a finite set into one of its size, is taken by exactly one. Whoever is ahead of
  a smaller id has the higher score, which a card must have given, and a card of
  the root was earned (`RanksAreEarned`). What is executed is what was recorded,
  whatever the order, because each of the three choices is a single candidate
  and the last one is compared with the plan (`ExecutionsAreRecorded`).
- `FaultExecutorsProofs`: `IInv` says which facts a call has at each step, that
  a field other than the call's own is untouched since the call began, that the
  own field is as before until the mutation is tried and again when its undoing
  has been read back, and that a report is never better than the facts. With it
  an answer can be trusted in a target that earlier calls may have left in any
  state. `PatchesAreReversible` is about `build_mutation()` alone: a restore
  patch gives the snapshot back, but for the additive families' omitted key.
- `RcaAndMeasurementProofs`, loop (`IInv`): a case file is a first case or what `Ingest` made of a good
  one, and `Ingest` turns good cases into good cases that keep what they were
  made from (evidence, finished actions, rejections); everything else a round
  does copies cases. A confirmed hypothesis needs the evidence of all rounds,
  so the invariant is about cases, not about the round at hand.
- `RcaAndMeasurementProofs`, measurement (`MInv`): up to the mutation the record
  holds only what the gate read, and behind the gate the name is free (`CallInv`),
  so that the object that is there later is this experiment's; what counts as
  injected has hit a Pod, and a Pod that was hit stays so whatever the
  controllers do (`HitInv`, `ObjectInv`); what is confirmed as removed is gone and
  nothing brings it back (`CleanInv`). Each verdict asks for records of these
  facts. With the invariant every call maps to a step of `LifecycleExecutor` or to
  none (`MeasurementImplementsLifecycle`), so that the batch, which is proved with
  that module, is right about the executor it calls.
- `AdaptiveCoverageProofs`: the cap needs both memories of the driver beside
  what really ran: the rows it counts by may lack one trial for each death, and
  those of its state file one more (`Forgotten`, `Ran`, `Phases`). That a stop
  with room left is complete needs that a non-empty set of candidates has a
  first one (`FirstExists`, from the finite sets of predecessors); where there is
  room the selector then has a candidate as long as work is open.
  `HistoryAssumption` says that a cap is not below what the history has used.

Only model-checked: the liveness properties (`ExpiredReclaimed`,
`NamespacesAreReleased`, `EnvironmentsAreReleased`, `InterruptedRunsFinish`), since
fairness is outside the prover's reach. The mapping of workloads to a space
(`LiveSpace`, `OfflineSpace`) is made with sorting and filtering operators that
the provers cannot expand: what the proofs about the choice need of a space is
`SpaceAssumption`, which TLC evaluates for the inventories of its run.

## 6. Where the code and the documents disagree

No run is kept for these. The first list has statements that the modules
define, each in a block of its own ("Statements that the code does not keep");
to see the counterexample, add the name to the `INVARIANTS` or, where it says P,
the `PROPERTIES` of the configuration.

| Statement | Configuration | What the code does |
|---|---|---|
| `ProjectHasOneLease` | `IsolationProject.cfg`, `L3 = {b}` | The design allows one active lease per project. prepare() writes `preparing` from the lease in memory after its first lock is dropped (manager.py:84): a lease released in the gap comes back, beside the project's next lease. `ProjectExclusive` excepts such a lease. |
| `InterruptedIsReaped` (P, one client) | `IsolationProject.cfg` | After an interruption recover or reap-expired is to go on. An L3 lease interrupted before its profile is registered is blocked by every cleanup (providers.py:564). |
| `ProfilesAreReleased` (P) | `IsolatedRun.cfg` | The design deletes after a failed creation too. A Minikube lease without its record, or with a directory that its profile has lost, stays for ever (providers.py:543, 571, 591). |
| `NotRequiredIsTrue` | `IsolatedRun.cfg` | "Always release": prepare() may raise after it wrote a lease; the run then reports that no cleanup was required (isolated_run.py:150, 234). |
| `SuccessIsVerified` | `LiveBatch.cfg`, no crash | The design requires a verified cleanup for success. A batch is reported completed though a cleanup failed, because the report says `blocked` where the summary looks for `failed` (batch.py:231, engine.py:810). |
| `InvalidProfileStops` | `ClosedLoop.cfg` | A profile that onboarding rejected goes through all stages when the run is resumed: the verdict is looked at only where the stage was written (engine.py:1328). |
| `EveryAttestedIsReal` | `FaultExecutors.cfg` with `Families <- ExhaustionFamilies`, one call | The exhaustion faults are attested although their command, quoted for the wrong shell, ends before it has begun (native_resource_fault_executor.py:191). |
| `TwoDefendedRunsPromote` | `KnowledgeStore.cfg` | "Promote two independent defended runs": the shared gate asks for three (defense_knowledge.py:61, 81). |
| `RankIsOwn` | `KnowledgeStore.cfg` | A card raises its own target. Beside one StatefulSet availability_hard_filter() imports a registry that is not in the repository (decision_engine.py:289), and all candidates are ranked by the family of the cards alone. |
| `OfferedIsExpressible` | `KnowledgeStore.cfg` | Candidates of StatefulSets are offered, and raise when they are chosen: `_live_scenario()` looks for a Deployment (engine.py:536). |
| `ResumeKeepsSelection` | `KnowledgeStore.cfg` | A dry run resumed behind its hypotheses has no ranks and selects in the order of the mapping (engine.py:1461). |
| `BaselinesRotate` (P) | `AdaptiveCoverage.cfg`, `Guarded = FALSE` | "Rotate through the least-covered targets first": a baseline whose trial ends in a status outside `BLOCKING_STATUSES` is chosen again before others were tried (dify_adaptive_coverage.py:426). |
| `ContradictedIsDemoted` | `RcaLoop.cfg` | The plan wants contradicting evidence to bring a confirmed cause down: the hypothesis is rejected, the case stays confirmed. |
| `ReusableRoundsComplete` | `RcaLoop.cfg` | A round that plans a runtime test of reusable knowledge is not a valid round. |
| `KillIsObserved` (P) | `Measurement.cfg` | "At least one remaining Ready replica preserved the business Oracle while one Pod was killed" (engine.py:848): the replacement may be Ready before the first request. |
| `MechanismIsNamed` | `Measurement.cfg` | The record connects the fault with a "target Pod identity change" (engine.py:990) for network faults too, since `recovery_mode` defaults to `pod_replacement`. |

Met while modelling, without a statement of their own.

Isolation and isolated runs: a second `release()` of a released L3 lease raises
when another lease has taken the slot (lease_store.py:145), where the design
calls release idempotent; isolated runs have a coordination root each
(isolated_run.py:132), where the design allows one L3 lease per machine; the
adopted mode binds a run to `lease.target_name` (isolated_run.py:99); an early
return keeps `environment_blocked` also when the release failed; a recovery or a
reaper may free the environment while the run executes, which may still end
`verified`.

Transactions: a run whose lease has ended can never be closed, because
recover() and cleanup() both verify the lease first (replay_session.py:341,
421), and blocks its project's next transaction, whose refusal says to recover
it (recovery_ledger.py:103).

Batch and loop: a batch goes on after an experiment whose cleanup failed
(batch.py:837), where the design stops it; a refused invocation of the closed
loop replaces the summary of the run it refuses to touch (engine.py:1256, 1268);
knowledge that was promoted before an interruption is reported as not promoted
after the resume (engine.py:1944).

Choice: with a plan of more than one candidate, a live run's
`candidate_selection.json` may name another candidate than the one executed,
because engine.py:1614 chooses again by the order of the mapping after the
record was written; extension candidates sort before all others (`extension:`
before `server:`) and carry no recovery contract, so that where one is first the
evidence plan blocks the run; the comment "skip-recommended beats everything"
(decision_engine.py:576) is undone, for the word of the priority, by a hint, an
override or a card below it.

Executors: the restore patch of `secret_rotation` and `pod_unschedulable` cannot
take away a key it added beside others (kubernetes_fault_executor.py:80, 200),
though build_mutation() calls itself reversible; a fault whose apply command
timed out is not undone (kubernetes_fault_executor.py:404), in the lifecycle
executor neither object nor fixture is then removed; an interrupt in its finally
block skips the deletion and the report; no executor can resume, which the
design asks of all; the wrapper reports `cleanup_failed` of a call that was
blocked before it mutated anything (workflow_executor.py:30). Nothing checks that
the fault is still in force while the requests are sent; `baseline_retry_window_s`
has no effect (kubernetes_lifecycle_executor.py:678); the counts before a
container kill sum all containers, while the wait counts the selected ones; API
errors do not reset the "consecutive" polls; the sweep takes any refusal that
mentions "not found" for absence; the runner's main() may fail to read the
mutation file in its finally block and skip the deletion.

Knowledge: two batches that promote into one root at once break
`WeaknessIsKept`, each finding the name absent; a contested promotion leaves the
files it had written; a defence overwrites the intents and the report of the
weakness, and never compares the targets of its runs.

Adaptive campaign: a driver that dies over its first action leaves an output
directory that neither starts nor resumes; a torn `adaptive_state.json` refuses
every resume.

Improvements: the namespace of the profile is never compared with the one that
is deployed to (`aimed`), the namespace that was created is never deleted, and a
cleanup deletes by manifest what others deployed; an exception between
apply_live() and the try block skips the cleanup; a rollback to an old value of
None restores nothing, where the docstring says "reversible"; a proposal without
a selector patches the first document, whatever it declares; the verdict of a
scenario is that of the first phase that has one, so that a later degradation
is lost (run_deployment_scenario.py:74); build_improvement_evidence() reads a
`verdict` that live comparisons never set.

## 7. Assumptions about the environment

- A create or apply command that has returned, or whose process has died, has
  no later effect in the cluster, but for the commands of `IsolatedRun`, which a
  time-out may kill with the effect to come, and the requests of a business
  transaction.
- flock locks are dropped by the operating system when their process dies;
  atomic replacement is atomic; the disk does not lose what was written.
- `list()` of a lease store reads one consistent set of files, and a run reads
  the knowledge root in one step. A namespace that is deleted later than its
  command returns is in `IsolationLease` a failed cleanup that succeeds when it
  is tried again, in `IsolatedRun` a step of the cluster.
- Transactions: markers cannot be guessed, so an object with the same marker
  appears only as a copy of one that is on record; a session serves one lease; a
  new process has a new tunnel origin; saving the ledger does not fail.
- Batches: the business oracle's `cleanup_confirmed` is true when it says so;
  one batch process works in an output directory and a namespace at a time; an
  operator removes leftovers only between invocations. `run_live_batch` accepts
  the resume the command line refuses (cli.py:175), and is modelled as it is.
- Closed loop: the profile is edited only between invocations, one process works
  in a directory at a time, nobody tampers with artifacts (the hashes that would
  find it are not modelled), an artifact and its alias are one step. The facts,
  which the input snapshot does not cover, are abstracted with the rest of what
  stages compute.
- Choice: the workloads confirm no extension capability, and every candidate of
  a workload has the recovery contract the adapter gives it.
- Measurement: one experiment at a time; a container restarts only when it is
  killed; Pods are bound when they are created; the kubelet notices a kill
  later than the API is asked; at most `Disturbances` things happen that the
  experiment did not cause.
- Fault executors: one process calls them, one call after the other, as
  run_scenario() does. A controller reverts a patch before it is confirmed or
  not at all, and nobody else changes the target; nothing in the code enforces
  that. A control or pressure file does not exist before the first call, and a
  pressure file is not written after its command was killed and its path
  removed. Read-backs read what is there. Pods are not replaced during a call.
- RCA loop: one process advances a case directory; an executor that ran returns
  Boolean verdicts.
- Knowledge: one batch and one defence promote at a time; card identifiers,
  which are hashes, do not collide.
- Adaptive campaign: one driver works in an output directory, and its history is
  not edited between invocations.
- Improvement: nobody else deploys into the namespace during a retest; what a
  run of the engine does to its target is undone unless it says so, or the
  fault stays as `residue`.

## 8. What is not modelled

Functions of files written once, which keep no state: the compilation of
recorded traffic into contracts (`oracles/replay.py`, `builder.py`,
`project_v3.py`, ...), the isolation blueprint, the capability assessments and
the statistics of the paper's experiment, the Docker adapter, the hypothesis
registry and the advisory text of a language model, the scenario compiler. The
models take their results as free choices or constants. The identity bootstrap
creates accounts, in one straight sequence of calls with one report.

The numbers of the policies (posterior, stop rules) are abstracted by a free
choice: the properties of a batch hold for every policy. The rules of
`decision_engine.py` for candidates of older projects read registries that are
not in the repository, so that this branch always ends in the fallback, which
is modelled. `http_fault_executor.py` hands its fault to a delegate, and
`dns_network_fallback.py` turns one manifest into another. The command line, the
workspace, the scripts and the reports are glue.
