----------------------------- MODULE LiveBatch -----------------------------
(***************************************************************************)
(* A live batch: run_live_batch() of orchestration/batch.py, the candidate *)
(* run it starts for each candidate (run_closed_loop() of                  *)
(* orchestration/engine.py) and, inside that, one call of the lifecycle    *)
(* executor (LifecycleExecutor).  In the legacy policy mode the candidates *)
(* run in order; in the other modes PolicyController picks the next one or *)
(* stops, and learns from what it is told of each.                         *)
(*                                                                         *)
(* The batch's process may die anywhere.  What a later invocation with     *)
(* resume=True goes by is on disk: the manifest, the journal               *)
(* batch_state.jsonl, the candidates' output directories, the policy state *)
(* and the summary.                                                        *)
(***************************************************************************)
EXTENDS LifecycleExecutor, Sequences

CONSTANTS
  Selected,   \* selected_ids: the candidates of the batch, in order
  MaxCrashes  \* bound: how often the batch's process dies

ASSUME BatchAssumption ==
  /\ Selected \in Seq(Actions)
  /\ \A i, j \in DOMAIN Selected : Selected[i] = Selected[j] => i = j
  /\ MaxCrashes \in Nat

VARIABLES
  mode,       \* "legacy", or "policy" for every other policy_mode
  manifest,   \* batch_manifest.json exists
  journal,    \* latest state of each candidate in batch_state.jsonl
  used,       \* candidates whose output directory is not empty
  cleanup,    \* status in each candidate's cleanup_report.json
  summary,    \* batch_summary.json
  learned,    \* run_count of each candidate in policy-state.json
  pc,         \* where run_live_batch() is, "idle" outside an invocation
  at,         \* index of the candidate it is at
  attempted,  \* candidates not to be run (again) in this invocation
  results,    \* results_by_id
  injections, \* how often each candidate's mutation was applied
  crashes     \* number of crashes so far

diskVars == <<mode, manifest, journal, used, cleanup, summary, learned>>
outsideVars == <<mode, injections, crashes, lifecycleVars>>
processVars == <<pc, at, attempted, results>>
batchVars == <<diskVars, processVars, injections, crashes>>
vars == <<lifecycleVars, batchVars>>

JournalStates == {"none", "planned", "preflight_blocked", "live_completed",
                  "cleanup_verified", "failed"}
Reports == {"none", "verified", "blocked"}
ResultStatuses == {"none", "environment_blocked", "method_invalid", "business_not_reachable",
                   "apply_failed", "injection_not_confirmed", "live_completed"}
SummaryStatuses == {"none", "environment_blocked", "completed", "partial", "failed"}
Results == [status : ResultStatuses, cleanup : Reports]
NoResult == [status |-> "none", cleanup |-> "none"]
NoSummary == [status |-> "none", results |-> [c \in Actions |-> NoResult]]

Candidates == {Selected[i] : i \in DOMAIN Selected}
Candidate == Selected[at]

Init ==
  /\ LifecycleInit
  /\ mode \in {"legacy", "policy"}
  /\ manifest = FALSE
  /\ journal = [c \in Actions |-> "none"]
  /\ used = {}
  /\ cleanup = [c \in Actions |-> "none"]
  /\ summary = NoSummary
  /\ learned = [c \in Actions |-> 0]
  /\ pc = "idle"
  /\ at = 1
  /\ attempted = {}
  /\ results = [c \in Actions |-> NoResult]
  /\ injections = [c \in Actions |-> 0]
  /\ crashes = 0

---------------------------------------------------------------------------
(* Beginning an invocation.                                                *)

(* Seeded fault: a blocked candidate is tried again.                       *)
VerifiedOnly == {"cleanup_verified"}

Terminal == {"cleanup_verified", "preflight_blocked"}

(* Seeded fault: what earlier invocations have done is not looked up.      *)
NothingDone == {}

(* The candidates whose latest state was terminal when it was loaded.      *)
Done == {c \in Candidates : journal[c] \in Terminal}

Begin(known) ==
  /\ attempted' = Done
  /\ results' = known
  /\ pc' = IF mode = "legacy" THEN "plan" ELSE "decide"
  /\ at' = 1
  /\ UNCHANGED <<journal, used, cleanup, summary, learned, outsideVars>>

Start ==
  /\ pc = "idle" /\ ~manifest
  /\ manifest' = TRUE
  /\ Begin([c \in Actions |-> NoResult])

(* validate_batch_resume(): the inputs are the same, and no candidate's    *)
(* latest state is past the mutation with its cleanup unknown.             *)
ResumeAllowed == \A c \in Candidates : journal[c] # "live_completed"

(* The results of earlier invocations come from the summary alone.         *)
Resume ==
  /\ pc = "idle" /\ manifest /\ ResumeAllowed
  /\ UNCHANGED manifest
  /\ Begin(summary.results)

Record(c, state) == journal' = [journal EXCEPT ![c] = state]

Plan ==
  /\ pc = "plan"
  /\ IF at > Len(Selected)
     THEN pc' = "next" /\ at' = 1 /\ UNCHANGED journal
     ELSE /\ IF Candidate \in attempted
             THEN UNCHANGED journal ELSE Record(Candidate, "planned")
          /\ at' = at + 1 /\ UNCHANGED pc
  /\ UNCHANGED <<manifest, used, cleanup, summary, learned, attempted, results, outsideVars>>

---------------------------------------------------------------------------
(* One candidate.                                                          *)

SkipTerminal ==
  /\ pc = "next" /\ at <= Len(Selected)
  /\ Candidate \in attempted
  /\ at' = at + 1
  /\ UNCHANGED <<diskVars, pc, attempted, results, outsideVars>>

(* PolicyController.next_decision(): a candidate not attempted yet.  One   *)
(* that has a result from an earlier invocation is not run.                *)
Decide ==
  /\ pc = "decide"
  /\ \E i \in DOMAIN Selected :
       /\ Selected[i] \notin attempted
       /\ at' = i
       /\ IF results[Selected[i]] = NoResult
          THEN Record(Selected[i], "planned") /\ pc' = "child"
          ELSE UNCHANGED journal /\ pc' = "feedback"
  /\ UNCHANGED <<manifest, used, cleanup, summary, learned, attempted, results, outsideVars>>

ToRun ==
  \/ pc = "next" /\ at <= Len(Selected) /\ Candidate \notin attempted
  \/ pc = "child"

(* Seeded fault: a candidate's directory is used again.                    *)
AlwaysFresh(c) == TRUE

(* _load_or_create_context(): a live run refuses a non-empty directory.    *)
FreshOutput(c) == c \notin used

Report(c, result) ==
  /\ results' = [results EXCEPT ![c] = result]
  /\ pc' = "journal"

BeginChild ==
  /\ ToRun /\ FreshOutput(Candidate)
  /\ used' = used \cup {Candidate}
  /\ pc' = "preflight"
  /\ UNCHANGED <<manifest, journal, cleanup, summary, learned, at, attempted, results, outsideVars>>

(* The refusal is a result; enrich_batch_result_from_artifacts() adds what *)
(* the earlier run of the candidate left in the directory.                 *)
RefuseChild ==
  /\ ToRun /\ ~FreshOutput(Candidate)
  /\ Report(Candidate, [status |-> "method_invalid", cleanup |-> cleanup[Candidate]])
  /\ UNCHANGED <<diskVars, at, attempted, outsideVars>>

(* Seeded fault: a namespace with chaos objects left in it is accepted.    *)
AnyNamespace == TRUE

(* The residual gate of KubernetesPreflight.                               *)
NoResidue == faults = {}

(* Any stage before execution, the preflight and the approval among them,  *)
(* may block the run or raise.                                             *)
Preflight ==
  /\ pc = "preflight"
  /\ \/ /\ NoResidue
        /\ Call(Candidate)
        /\ pc' = "execute"
        /\ UNCHANGED results
     \/ /\ \E s \in {"environment_blocked", "method_invalid"} :
             Report(Candidate, [status |-> s, cleanup |-> "none"])
        /\ UNCHANGED lifecycleVars
  /\ UNCHANGED <<diskVars, at, attempted, injections, crashes>>

Execute ==
  /\ pc = "execute"
  /\ LifecycleStep
  /\ injections' = IF step = "apply" /\ step' = "wait"
                     THEN [injections EXCEPT ![action] = @ + 1] ELSE injections
  /\ UNCHANGED <<diskVars, processVars, crashes>>

(* run_scenario(), then run_closed_loop(): an exception of the executor is *)
(* an environment that blocks, a run whose injection was confirmed has     *)
(* executed, whatever became of its recovery and its cleanup.              *)
RunStatus ==
  IF "raised" \in facts THEN "environment_blocked"
  ELSE IF status \in {"environment_blocked", "apply_failed", "business_not_reachable"} THEN status
  ELSE IF "injected" \in facts THEN "live_completed" ELSE "injection_not_confirmed"

(* Seeded fault: the fixture's cleanup is not asked about.                 *)
ObjectsGone == "raised" \notin facts /\ {"absent", "swept"} \subseteq facts

(* cleanup_confirmed of the fault's record: an exception has none.         *)
CleanupReported == "raised" \notin facts /\ CleanupConfirmed(facts)

(* Any of the stages that follow execution may raise, before or after      *)
(* cleanup_report.json is written.                                         *)
EndChild ==
  /\ pc = "execute"
  /\ Return
  /\ \E report \in {"none", IF CleanupReported THEN "verified" ELSE "blocked"},
        s \in {"method_invalid", RunStatus} :
       /\ report = "none" => s = "method_invalid"
       /\ cleanup' = [cleanup EXCEPT ![Candidate] = report]
       /\ Report(Candidate, [status |-> s, cleanup |-> report])
  /\ UNCHANGED <<mode, manifest, journal, used, summary, learned, at, attempted, injections, crashes>>

Finished ==
  IF mode = "legacy" THEN pc' = "next" /\ at' = at + 1 ELSE pc' = "feedback" /\ UNCHANGED at

Journal ==
  /\ pc = "journal"
  /\ IF results[Candidate].status = "live_completed"
     THEN Record(Candidate, "live_completed") /\ pc' = "verify" /\ UNCHANGED at
     ELSE /\ Record(Candidate, IF results[Candidate].status = "environment_blocked"
                               THEN "preflight_blocked" ELSE "failed")
          /\ Finished
  /\ UNCHANGED <<manifest, used, cleanup, summary, learned, attempted, results, outsideVars>>

Verify ==
  /\ pc = "verify"
  /\ Record(Candidate, IF cleanup[Candidate] = "verified" THEN "cleanup_verified" ELSE "failed")
  /\ Finished
  /\ UNCHANGED <<manifest, used, cleanup, summary, learned, attempted, results, outsideVars>>

(* normalize_runtime_feedback(): evidence, attestation and root cause may  *)
(* still make a candidate ineligible.                                      *)
MayBeEligible(result) == result = [status |-> "live_completed", cleanup |-> "verified"]

Feedback ==
  /\ pc = "feedback"
  /\ attempted' = attempted \cup {Candidate}
  /\ \/ UNCHANGED learned
     \/ /\ MayBeEligible(results[Candidate])
        /\ learned' = [learned EXCEPT ![Candidate] = @ + 1]
  /\ pc' = "decide"
  /\ UNCHANGED <<manifest, journal, used, cleanup, summary, at, results, outsideVars>>

---------------------------------------------------------------------------
(* The end of an invocation, and what happens around it.                   *)

(* summarize_batch_results(): "completed" when every result it was given   *)
(* is a live run that completed.                                           *)
SummaryStatus(reported) ==
  LET With(states) == {c \in reported : results[c].status \in states}
  IN  IF reported = {} THEN "environment_blocked"
      ELSE IF With({"live_completed"}) = reported THEN "completed"
      ELSE IF With({"live_completed"}) # {} THEN "partial"
      ELSE IF With({"environment_blocked", "business_not_reachable"}) = reported
           THEN "environment_blocked" ELSE "failed"

(* In a policy mode the summary has the results of what was attempted, and *)
(* the controller may stop after any round: for a reason of its own or at  *)
(* its budget.                                                             *)
Reported ==
  {c \in IF mode = "legacy" THEN Candidates ELSE attempted : results[c] # NoResult}

WriteSummary ==
  /\ (pc = "next" /\ at > Len(Selected)) \/ pc = "decide"
  /\ summary' = [status  |-> SummaryStatus(Reported),
                 results |-> [c \in Actions |-> IF c \in Reported THEN results[c] ELSE NoResult]]
  /\ pc' = "idle"
  /\ UNCHANGED <<manifest, journal, used, cleanup, learned, at, attempted, results, outsideVars>>

Crash ==
  /\ pc # "idle" /\ crashes < MaxCrashes
  /\ crashes' = crashes + 1
  /\ pc' = "idle"
  /\ step' = "idle" /\ action' = NoAction
  /\ UNCHANGED <<diskVars, at, attempted, results, injections, facts, status, clusterVars>>

(* Between invocations somebody removes what an experiment left behind.    *)
OperatorCleans(c) ==
  /\ pc = "idle" /\ c \in faults \cup fixtures
  /\ faults' = faults \ {c} /\ fixtures' = fixtures \ {c}
  /\ UNCHANGED <<callVars, batchVars>>

Next ==
  \/ Start \/ Resume \/ Plan
  \/ SkipTerminal \/ Decide \/ BeginChild \/ RefuseChild
  \/ Preflight \/ Execute \/ EndChild
  \/ Journal \/ Verify \/ Feedback \/ WriteSummary
  \/ Crash
  \/ \E c \in Actions : OperatorCleans(c)

Spec == Init /\ [][Next]_vars

---------------------------------------------------------------------------
(* Properties.                                                             *)

Locations == {"idle", "plan", "next", "decide", "child", "preflight", "execute", "journal",
              "verify", "feedback"}
Working == {"child", "preflight", "execute", "journal", "verify", "feedback"}

(* The variables hold values of their kinds, and the process is at a       *)
(* candidate wherever it works on one.                                     *)
TypeOK ==
  /\ LifecycleTypeOK
  /\ mode \in {"legacy", "policy"}
  /\ manifest \in BOOLEAN
  /\ journal \in [Actions -> JournalStates]
  /\ used \subseteq Actions
  /\ cleanup \in [Actions -> Reports]
  /\ summary \in [status : SummaryStatuses, results : [Actions -> Results]]
  /\ learned \in [Actions -> Nat]
  /\ pc \in Locations
  /\ at \in 1 .. Len(Selected) + 1
  /\ pc \in Working => at <= Len(Selected)
  /\ attempted \subseteq Candidates
  /\ results \in [Actions -> Results]
  /\ injections \in [Actions -> Nat]
  /\ crashes \in 0 .. MaxCrashes

(* An experiment never runs in a namespace that still holds the fault of   *)
(* another one, also when the other's process died or its cleanup failed:  *)
(* what it observes is the effect of its own fault (the residual gate).    *)
ExperimentsAreIsolated == step # "idle" => faults \subseteq {action}

(* A live mutation is never repeated: whatever crashes and is resumed, a   *)
(* candidate's fault is applied at most once.                              *)
InjectedOnce == \A c \in Actions : injections[c] <= 1

(* A candidate the journal calls cleanup_verified has left nothing: its    *)
(* fault and its business fixture are gone, and nothing brings them back.  *)
VerifiedIsClean ==
  \A c \in Actions : journal[c] = "cleanup_verified" => c \notin faults \cup fixtures

(* The policy learns at most once from an experiment, and only from one    *)
(* that is known to have left nothing, however often the batch dies        *)
(* between the journal, the policy state and the summary.                  *)
LearnedOnce ==
  \A c \in Actions :
    learned[c] > 0 => learned[c] = 1 /\ journal[c] = "cleanup_verified"

(* A state a resumed batch skips is final: no later invocation plans the   *)
(* candidate again or changes what the journal says of it.                 *)
TerminalStatesAreFinal ==
  [][\A c \in Actions :
       journal[c] \in {"cleanup_verified", "preflight_blocked"} => journal'[c] = journal[c]]_vars

(* "Recovery or cleanup failure is never reported as a successful          *)
(* experiment": a batch is completed only when the cleanup of every        *)
(* candidate it reports on is verified.                                    *)
SuccessIsVerified ==
  summary.status = "completed" =>
    \A c \in Candidates : summary.results[c] # NoResult => journal[c] = "cleanup_verified"
=============================================================================
