-------------------------- MODULE LiveBatchProofs --------------------------
(***************************************************************************)
(* Proofs of the safety properties of live batches, for any selection of   *)
(* candidates and any number of crashes.                                   *)
(*                                                                         *)
(* The argument: a candidate's output directory is written before its      *)
(* mutation and never used again, so a candidate has one call of the       *)
(* executor in its life; a report "verified" is written only when that     *)
(* call has returned with nothing left; the journal says cleanup_verified  *)
(* only after that report.                                                 *)
(***************************************************************************)
EXTENDS LiveBatch, TLAPS

(* The executor runs exactly while the batch executes a candidate, and     *)
(* only its own fault is then in the namespace.                            *)
CallInv ==
  /\ pc = "execute" <=> step # "idle"
  /\ step # "idle" => action = Candidate /\ faults \subseteq {action}

(* A candidate without a directory has done nothing, and one whose run has *)
(* begun has not applied its fault before the executor's apply.            *)
FreshInv ==
  /\ \A c \in Actions : c \notin used => injections[c] = 0 /\ cleanup[c] = "none"
                                         /\ c \notin faults \cup fixtures
  /\ pc \in {"preflight", "execute"} => Candidate \in used /\ cleanup[Candidate] = "none"
  /\ pc = "preflight" => injections[Candidate] = 0 /\ Candidate \notin faults \cup fixtures
  /\ step \in {"gate", "prepare", "baseline", "apply"} => injections[action] = 0

(* What the executor has confirmed is so.                                  *)
FactsInv ==
  /\ step \in {"gate", "prepare"} => action \notin fixtures
  /\ step \in {"gate", "prepare", "baseline", "apply"} => action \notin faults
  /\ step \notin {"idle", "returned"} => "settled" \notin facts
  /\ step \notin {"idle", "returned"} /\ "prepared" \notin facts => action \notin fixtures
  /\ step \in {"wait", "observe", "recover", "delete", "sweep"} => "applied" \in facts
  /\ step \notin {"idle", "returned", "sweep", "settle"} => "absent" \notin facts
  /\ step = "settle" /\ "applied" \notin facts => action \notin faults
  /\ step # "idle" /\ "absent" \in facts => action \notin faults
  /\ step = "returned" /\ CleanupConfirmed(facts) => action \notin faults \cup fixtures

(* Reports and journal follow the executor, and a candidate that is worked *)
(* on is not in a terminal state.                                          *)
RecordInv ==
  /\ \A c \in Actions : cleanup[c] = "verified" => c \notin faults \cup fixtures
  /\ \A c \in Actions : journal[c] = "cleanup_verified" => cleanup[c] = "verified"
  /\ pc \in Working \ {"feedback"} => journal[Candidate] \notin Terminal

(* What is terminal was known when the invocation began or is behind it,   *)
(* and a candidate that is worked on is not among what it has attempted.   *)
RoundInv ==
  /\ pc \in {"plan", "next"} => mode = "legacy"
  /\ pc \in {"decide", "child", "feedback"} => mode = "policy"
  /\ pc # "idle" => \A i \in DOMAIN Selected :
       journal[Selected[i]] \in Terminal =>
         \/ Selected[i] \in attempted
         \/ mode = "legacy" /\ pc # "plan" /\ i < at
         \/ pc = "feedback" /\ i = at
  /\ pc \in Working => Candidate \notin attempted

Clean == [status |-> "live_completed", cleanup |-> "verified"]

(* A result that is executed and clean is in the journal, in this and in   *)
(* later invocations, and what was learned from has been attempted.        *)
LearnInv ==
  /\ \A c \in Actions : summary.results[c] = Clean => journal[c] = "cleanup_verified"
  /\ pc # "idle" => \A c \in Actions : results[c] = Clean =>
       \/ journal[c] = "cleanup_verified"
       \/ pc \in {"journal", "verify"} /\ c = Candidate
  /\ pc \in {"journal", "verify"} /\ results[Candidate] = Clean => cleanup[Candidate] = "verified"
  /\ \A c \in Actions : learned[c] > 0 => c \in Candidates /\ (pc # "idle" => c \in attempted)

IInv == TypeOK /\ CallInv /\ FreshInv /\ InjectedOnce /\ FactsInv /\ RecordInv
        /\ RoundInv /\ LearnInv /\ LearnedOnce

USE ActionAssumption, BatchAssumption

(* Wherever the process works on a candidate, there is one.                *)
LEMMA CandidateIsAction ==
  ASSUME at \in 1 .. Len(Selected)
  PROVE  Candidate \in Actions /\ Candidate \in Candidates
BY DEF Candidate, Candidates

LEMMA InitStep == Init => IInv
<1> SUFFICES ASSUME Init PROVE IInv
  OBVIOUS
<1> USE DEF Init, LifecycleInit
<1>1. TypeOK
  <2>1. /\ NoResult \in Results
        /\ 1 \in 1 .. Len(Selected) + 1
    BY DEF NoResult, Results, ResultStatuses, Reports
  <2>2. NoSummary \in [status : SummaryStatuses, results : [Actions -> Results]]
    BY <2>1 DEF NoSummary, SummaryStatuses
  <2>3. LifecycleTypeOK
    BY DEF LifecycleTypeOK, Steps, Statuses
  <2>4. /\ journal \in [Actions -> JournalStates]
        /\ cleanup \in [Actions -> Reports]
        /\ results \in [Actions -> Results]
        /\ injections \in [Actions -> Nat] /\ learned \in [Actions -> Nat]
    BY <2>1 DEF JournalStates, Reports
  <2>5. manifest \in BOOLEAN
    OBVIOUS
  <2>6. /\ at \in 1 .. Len(Selected) + 1 /\ crashes \in 0 .. MaxCrashes
        /\ used \subseteq Actions /\ attempted \subseteq Candidates
        /\ pc \in Locations /\ pc \notin Working /\ mode \in {"legacy", "policy"}
    BY <2>1 DEF Locations, Working
  <2>7. summary \in [status : SummaryStatuses, results : [Actions -> Results]]
    BY <2>2
  <2> HIDE DEF Init
  <2> QED BY <2>3, <2>4, <2>5, <2>6, <2>7 DEF TypeOK
<1>2. CallInv /\ FreshInv /\ InjectedOnce /\ FactsInv /\ RecordInv
  BY DEF CallInv, FreshInv, InjectedOnce, FactsInv, RecordInv, Working
<1>3. RoundInv /\ LearnInv /\ LearnedOnce
  BY DEF RoundInv, LearnInv, LearnedOnce, NoSummary, NoResult, Clean, Working
<1> QED BY <1>1, <1>2, <1>3 DEF IInv

---------------------------------------------------------------------------
(* The executor's steps.                                                   *)

LEMMA ExecuteStep ==
  ASSUME IInv, Execute
  PROVE  IInv'
<1> USE DEF IInv, TypeOK, LifecycleTypeOK
<1>1. /\ pc = "execute" /\ step # "idle" /\ Candidate \in Actions
      /\ action = Candidate /\ action' = action /\ Candidate' = Candidate
      /\ action \in used /\ cleanup[action] = "none" /\ faults \subseteq {action}
  <2>1. pc = "execute" /\ action' = action /\ at' = at
    BY DEF Execute, LifecycleStep, Gate, PrepareFixture, Baseline, Apply, WaitInjected,
           Observe, WaitRecovered, Delete, Sweep, SettleFixture, processVars
  <2>2. at \in 1 .. Len(Selected)
    BY <2>1 DEF Working
  <2> QED BY <2>1, <2>2, CandidateIsAction DEF CallInv, FreshInv, Candidate
<1>2. /\ UNCHANGED <<mode, manifest, journal, used, cleanup, summary, learned, pc, at, attempted,
                    results, crashes>>
      /\ step # "idle" /\ step' \in Steps \ {"idle"}
  BY <1>1 DEF Execute, LifecycleStep, Gate, PrepareFixture, Baseline, Apply, WaitInjected,
              Observe, WaitRecovered, Delete, Sweep, SettleFixture, Go, processVars, diskVars,
              Steps
<1>3. /\ facts' \subseteq Facts /\ status' \in Statuses
      /\ faults' \subseteq {action} /\ faults' \subseteq Actions
      /\ fixtures' \subseteq fixtures \cup {action}
  BY <1>1 DEF Execute, LifecycleStep, Gate, PrepareFixture, Baseline, Apply, WaitInjected,
              Observe, WaitRecovered, Delete, Sweep, SettleFixture, Go, MayExist, MayBeGone,
              Facts, Statuses
<1>4. /\ injections' \in [Actions -> Nat]
      /\ \A c \in Actions : c # action => injections'[c] = injections[c]
      /\ injections'[action] = IF step = "apply" /\ step' = "wait"
                                 THEN injections[action] + 1 ELSE injections[action]
  BY <1>1 DEF Execute
<1>5. /\ step' \in {"gate", "prepare", "baseline", "apply"} =>
           step \in {"gate", "prepare", "baseline"}
      /\ step \in {"gate", "prepare", "baseline", "apply"} => injections[action] = 0
  BY <1>1 DEF Execute, LifecycleStep, Gate, PrepareFixture, Baseline, Apply, WaitInjected,
              Observe, WaitRecovered, Delete, Sweep, SettleFixture, Go, FreshInv
<1>6. TypeOK'
  BY <1>1, <1>2, <1>3, <1>4
<1>7. CallInv' /\ FreshInv' /\ InjectedOnce' /\ RecordInv' /\ RoundInv' /\ LearnInv'
      /\ LearnedOnce'
  <2> HIDE DEF IInv, TypeOK, LifecycleTypeOK
  <2>1. CallInv'
    BY <1>1, <1>2, <1>3 DEF CallInv
  <2>2. FreshInv'
    BY <1>1, <1>2, <1>3, <1>4, <1>5 DEF IInv, FreshInv
  <2>3. InjectedOnce'
    BY <1>1, <1>4, <1>5 DEF IInv, InjectedOnce
  <2>4. RecordInv'
    BY <1>1, <1>2, <1>3 DEF IInv, RecordInv
  <2>5. RoundInv' /\ LearnInv' /\ LearnedOnce'
    BY <1>1, <1>2 DEF IInv, RoundInv, LearnInv, LearnedOnce
  <2> QED BY <2>1, <2>2, <2>3, <2>4, <2>5
<1>8. FactsInv'
  <2> HIDE DEF IInv, TypeOK, LifecycleTypeOK
  <2> USE DEF FactsInv, Go
  <2>0. FactsInv /\ action' = action /\ step # "idle"
    BY <1>1 DEF IInv
  <2>1. CASE Gate
    BY <2>0, <2>1 DEF Gate, CleanupConfirmed
  <2>2. CASE PrepareFixture
    BY <2>0, <2>2 DEF PrepareFixture, CleanupConfirmed
  <2>3. CASE Baseline
    BY <2>0, <2>3 DEF Baseline, CleanupConfirmed
  <2>4. CASE Apply
    BY <2>0, <2>4 DEF Apply, CleanupConfirmed
  <2>5. CASE WaitInjected \/ Observe \/ WaitRecovered
    BY <2>0, <2>5 DEF WaitInjected, Observe, WaitRecovered
  <2>6. CASE Delete
    BY <2>0, <2>6 DEF Delete, MayBeGone
  <2>7. CASE Sweep
    BY <2>0, <2>7 DEF Sweep
  <2>8. CASE SettleFixture
    BY <2>0, <2>8 DEF SettleFixture, CleanupConfirmed
  <2> QED BY <2>1, <2>2, <2>3, <2>4, <2>5, <2>6, <2>7, <2>8 DEF Execute, LifecycleStep
<1> QED BY <1>6, <1>7, <1>8
---------------------------------------------------------------------------
(* The batch's steps.  Each is given by the variables it changes.          *)

(* Those that touch neither the cluster nor the executor.                  *)
LEMMA BeginStep ==
  ASSUME IInv, Start \/ Resume \/ Plan \/ SkipTerminal \/ Decide \/ BeginChild \/ RefuseChild
  PROVE  IInv'
<1> USE DEF Record, Report, outsideVars
<1>1. TypeOK'
  <2> USE DEF IInv, TypeOK, LifecycleTypeOK, lifecycleVars, callVars, clusterVars, diskVars
  <2>1. CASE Start
    <3>1. manifest' \in BOOLEAN
      BY <2>1 DEF Start
    <3>2. NoResult \in Results
      BY DEF NoResult, Results, ResultStatuses, Reports
    <3> QED BY <2>1, <3>1, <3>2 DEF Start, Begin, Locations, Working, Done
  <2>2. CASE Resume
    BY <2>2 DEF Resume, Begin, Locations, Working, Done
  <2>3. CASE Plan
    <3>1. /\ pc' \in {"plan", "next"} /\ at' \in 1 .. Len(Selected) + 1
      BY <2>3 DEF Plan
    <3>2. journal' \in [Actions -> JournalStates]
      BY <2>3 DEF Plan, JournalStates
    <3> QED BY <2>3, <3>1, <3>2 DEF Plan, Locations, Working
  <2>4. CASE SkipTerminal
    BY <2>4 DEF SkipTerminal, Locations, Working
  <2>5. CASE Decide
    <3>1. at' \in 1 .. Len(Selected) /\ pc' \in {"child", "feedback"}
      BY <2>5 DEF Decide
    <3>2. journal' \in [Actions -> JournalStates]
      BY <2>5 DEF Decide, JournalStates
    <3> QED BY <2>5, <3>1, <3>2 DEF Decide, Locations
  <2>6. CASE BeginChild
    BY <2>6, CandidateIsAction DEF BeginChild, ToRun, Locations, Working
  <2>7. CASE RefuseChild
    BY <2>7, CandidateIsAction DEF RefuseChild, ToRun, Locations, Working, Results, ResultStatuses
  <2> QED BY <2>1, <2>2, <2>3, <2>4, <2>5, <2>6, <2>7
<1>2. UNCHANGED <<lifecycleVars, cleanup, summary, learned, injections>> /\ used \subseteq used'
  BY DEF Start, Resume, Begin, Plan, SkipTerminal, Decide, BeginChild, RefuseChild, diskVars
<1>3. FactsInv' /\ InjectedOnce'
  BY <1>2 DEF IInv, FactsInv, InjectedOnce, lifecycleVars, callVars, clusterVars
<1>4. CallInv' /\ FreshInv' /\ RecordInv'
  <2> USE <1>2 DEF IInv, CallInv, FreshInv, RecordInv, lifecycleVars, callVars, clusterVars,
                   diskVars, Working
  <2>1. CASE Start \/ Resume
    BY <2>1 DEF Start, Resume, Begin
  <2>2. CASE Plan
    BY <2>2 DEF Plan, TypeOK
  <2>3. CASE SkipTerminal
    BY <2>3 DEF SkipTerminal
  <2>4. CASE Decide
    <3>1. Candidate' \in Actions /\ pc' \in {"child", "feedback"} /\ pc = "decide"
      BY <2>4 DEF Decide, Candidate
    <3>2. /\ UNCHANGED journal \/ Record(Candidate', "planned")
          /\ pc' = "child" => journal'[Candidate'] = "planned"
      BY <2>4, <3>1 DEF Decide, Candidate, TypeOK
    <3> QED BY <2>4, <3>1, <3>2 DEF Decide, TypeOK, Terminal
  <2>5. CASE BeginChild
    <3>1. Candidate \in Actions /\ Candidate' = Candidate
      BY <2>5, CandidateIsAction DEF BeginChild, TypeOK, Candidate, ToRun
    <3>2. journal[Candidate] \notin Terminal
      BY <2>5 DEF BeginChild, ToRun, RoundInv, TypeOK, Candidate
    <3> QED BY <2>5, <3>1, <3>2 DEF BeginChild, FreshOutput
  <2>6. CASE RefuseChild
    <3>1. Candidate \in Actions /\ Candidate' = Candidate
      BY <2>6, CandidateIsAction DEF RefuseChild, TypeOK, Candidate, ToRun
    <3>2. journal[Candidate] \notin Terminal
      BY <2>6 DEF RefuseChild, ToRun, RoundInv, TypeOK, Candidate
    <3> QED BY <2>6, <3>1, <3>2 DEF RefuseChild, ToRun
  <2> QED BY <2>1, <2>2, <2>3, <2>4, <2>5, <2>6
<1>5. RoundInv'
  <2> USE DEF IInv, RoundInv, diskVars, Working
  <2>1. CASE Start \/ Resume
    BY <2>1 DEF Start, Resume, Begin, Done, Candidates, TypeOK
  <2>2. CASE Plan
    BY <2>2 DEF Plan, TypeOK, Terminal, Candidate
  <2>3. CASE SkipTerminal
    BY <2>3 DEF SkipTerminal, TypeOK, Candidate
  <2>4. CASE Decide
    BY <2>4 DEF Decide, TypeOK, Terminal, Candidate
  <2>5. CASE BeginChild
    BY <2>5 DEF BeginChild, ToRun, TypeOK, Candidate
  <2>6. CASE RefuseChild
    BY <2>6 DEF RefuseChild, ToRun, TypeOK, Candidate
  <2> QED BY <2>1, <2>2, <2>3, <2>4, <2>5, <2>6
<1>6. LearnInv' /\ LearnedOnce'
  <2> USE <1>2 DEF IInv, LearnInv, LearnedOnce, diskVars
  <2>1. CASE Start
    BY <2>1 DEF Start, Begin, Done, Terminal, NoResult, Clean
  <2>2. CASE Resume
    BY <2>2 DEF Resume, Begin, Done, Terminal
  <2>3. CASE Plan
    <3>1. \/ UNCHANGED journal
          \/ journal[Candidate] \notin Terminal /\ Record(Candidate, "planned")
      <4>1. at <= Len(Selected) => at \in DOMAIN Selected
        BY DEF TypeOK
      <4>2. at <= Len(Selected) /\ Candidate \notin attempted => journal[Candidate] \notin Terminal
        BY <2>3, <4>1 DEF Plan, RoundInv, Candidate
      <4>3. at \in Nat /\ Len(Selected) \in Nat
        BY DEF TypeOK
      <4> QED BY <2>3, <4>2, <4>3 DEF Plan
    <3> QED BY <2>3, <3>1 DEF Plan, TypeOK, Terminal
  <2>4. CASE SkipTerminal
    BY <2>4 DEF SkipTerminal
  <2>5. CASE Decide
    <3>1. \/ UNCHANGED journal
          \/ \E c \in Actions : journal[c] \notin Terminal /\ Record(c, "planned")
      BY <2>5 DEF Decide, RoundInv, TypeOK
    <3> QED BY <2>5, <3>1 DEF Decide, TypeOK, Terminal
  <2>6. CASE BeginChild
    BY <2>6 DEF BeginChild, ToRun
  <2>7. CASE RefuseChild
    <3>1. Candidate \in Actions /\ Candidate' = Candidate
      BY <2>7, CandidateIsAction DEF RefuseChild, TypeOK, Candidate, ToRun, Working
    <3> QED BY <2>7, <3>1 DEF RefuseChild, ToRun, TypeOK, Clean
  <2> QED BY <2>1, <2>2, <2>3, <2>4, <2>5, <2>6, <2>7
<1> QED BY <1>1, <1>3, <1>4, <1>5, <1>6 DEF IInv

LEMMA PreflightStep ==
  ASSUME IInv, Preflight
  PROVE  IInv'
<1> USE DEF lifecycleVars, callVars, clusterVars, diskVars, Report, Working
<1>1. /\ pc = "preflight" /\ Candidate \in Actions /\ Candidate' = Candidate
      /\ UNCHANGED <<diskVars, at, attempted, injections, crashes, faults, fixtures>>
  BY CandidateIsAction DEF Preflight, Call, IInv, TypeOK, Candidate
<1>2. CASE NoResidue /\ Call(Candidate) /\ pc' = "execute" /\ UNCHANGED results
  <2> USE <1>1, <1>2 DEF IInv, Call, Go
  <2>1. TypeOK'
    BY DEF TypeOK, LifecycleTypeOK, Steps, Facts, Statuses, Locations
  <2>2. CallInv' /\ FreshInv' /\ InjectedOnce'
    BY DEF CallInv, FreshInv, InjectedOnce, NoResidue
  <2>3. FactsInv' /\ RecordInv'
    BY DEF FactsInv, RecordInv, FreshInv
  <2>4. RoundInv' /\ LearnInv' /\ LearnedOnce'
    BY DEF RoundInv, LearnInv, LearnedOnce
  <2> QED BY <2>1, <2>2, <2>3, <2>4
<1>3. ASSUME NEW s \in {"environment_blocked", "method_invalid"},
             Report(Candidate, [status |-> s, cleanup |-> "none"]),
             UNCHANGED lifecycleVars
      PROVE  IInv'
  <2> USE <1>1, <1>3 DEF IInv
  <2>1. TypeOK'
    BY DEF TypeOK, LifecycleTypeOK, Locations, Results, ResultStatuses, Reports
  <2>2. CallInv' /\ FreshInv' /\ InjectedOnce' /\ FactsInv' /\ RecordInv'
    BY DEF CallInv, FreshInv, InjectedOnce, FactsInv, RecordInv
  <2>3. RoundInv' /\ LearnInv' /\ LearnedOnce'
    BY DEF RoundInv, LearnInv, LearnedOnce, TypeOK, Clean
  <2> QED BY <2>1, <2>2, <2>3
<1> HIDE DEF Report, lifecycleVars
<1> QED BY <1>2, <1>3 DEF Preflight

LEMMA EndChildStep ==
  ASSUME IInv, EndChild
  PROVE  IInv'
<1>1. PICK report \in {"none", IF CleanupReported THEN "verified" ELSE "blocked"},
           s \in {"method_invalid", RunStatus} :
        /\ cleanup' = [cleanup EXCEPT ![Candidate] = report]
        /\ Report(Candidate, [status |-> s, cleanup |-> report])
  BY DEF EndChild
<1>2. /\ pc = "execute" /\ Candidate \in Actions /\ Candidate' = Candidate
      /\ action = Candidate /\ step = "returned" /\ cleanup[Candidate] = "none"
      /\ step' = "idle" /\ action' = NoAction /\ UNCHANGED <<facts, status, faults, fixtures>>
      /\ UNCHANGED <<mode, manifest, journal, used, summary, learned, at, attempted, injections,
                     crashes>>
  BY CandidateIsAction DEF EndChild, Return, Go, IInv, TypeOK, CallInv, FreshInv, Candidate,
                           Working
<1>3. s \in ResultStatuses /\ report \in Reports
  BY DEF RunStatus, ResultStatuses, Reports
<1>4. report = "verified" => Candidate \notin faults \cup fixtures
  BY <1>2 DEF CleanupReported, IInv, FactsInv
<1> USE <1>1, <1>2, <1>3, <1>4 DEF IInv, Report, Working
<1>5. TypeOK'
  <2>1. [status |-> s, cleanup |-> report] \in Results
    BY DEF Results
  <2> QED BY <2>1 DEF TypeOK, LifecycleTypeOK, Locations, Steps
<1>6. CallInv' /\ FreshInv' /\ InjectedOnce' /\ FactsInv'
  BY DEF CallInv, FreshInv, InjectedOnce, FactsInv, TypeOK
<1>7. RecordInv'
  BY DEF RecordInv, TypeOK, Terminal
<1>8. RoundInv' /\ LearnInv' /\ LearnedOnce'
  BY DEF RoundInv, LearnInv, LearnedOnce, TypeOK, Clean
<1> QED BY <1>5, <1>6, <1>7, <1>8

LEMMA JournalStep ==
  ASSUME IInv, Journal \/ Verify
  PROVE  IInv'
<1>1. /\ pc \in {"journal", "verify"} /\ Candidate \in Actions /\ at \in 1 .. Len(Selected)
      /\ at' \in 1 .. Len(Selected) + 1
      /\ \/ pc = "journal" /\ pc' = "verify" /\ at' = at /\ Candidate' = Candidate
         \/ pc' = "next" /\ mode = "legacy" /\ at' = at + 1
         \/ pc' = "feedback" /\ mode = "policy" /\ at' = at /\ Candidate' = Candidate
      /\ UNCHANGED <<mode, manifest, used, cleanup, summary, learned, attempted, results,
                     injections, crashes, lifecycleVars>>
  BY CandidateIsAction DEF Journal, Verify, Finished, IInv, TypeOK, Candidate, Working, outsideVars
<1>2. PICK state \in JournalStates :
        /\ journal' = [journal EXCEPT ![Candidate] = state]
        /\ state = "cleanup_verified" => cleanup[Candidate] = "verified"
        /\ pc' = "verify" => state = "live_completed"
        /\ pc' # "verify" /\ results[Candidate] = Clean => state = "cleanup_verified"
  <2>1. pc = "verify" /\ results[Candidate] = Clean => cleanup[Candidate] = "verified"
    BY DEF IInv, LearnInv
  <2> QED BY <2>1 DEF Journal, Verify, Finished, Record, JournalStates, Clean
<1> USE <1>1, <1>2 DEF IInv, lifecycleVars, callVars, clusterVars, Working
<1>3. TypeOK'
  BY DEF TypeOK, LifecycleTypeOK, Locations
<1>4. CallInv' /\ FreshInv' /\ InjectedOnce' /\ FactsInv'
  BY DEF CallInv, FreshInv, InjectedOnce, FactsInv
<1>5. RecordInv'
  BY DEF RecordInv, TypeOK, Terminal
<1>6. RoundInv'
  <2>1. ASSUME NEW i \in DOMAIN Selected, journal'[Selected[i]] \in Terminal
        PROVE  \/ Selected[i] \in attempted'
               \/ mode' = "legacy" /\ pc' # "plan" /\ i < at'
               \/ pc' = "feedback" /\ i = at'
    <3>1. journal \in [Actions -> JournalStates] /\ Selected[i] \in Actions
      BY DEF TypeOK
    <3>2. CASE i = at
      <4>1. pc' # "verify"
        BY <2>1, <3>1, <3>2 DEF Terminal, Candidate
      <4> QED BY <3>2, <4>1
    <3>3. CASE i # at
      <4>1. journal'[Selected[i]] = journal[Selected[i]]
        BY <3>1, <3>3 DEF Candidate
      <4>2. Selected[i] \in attempted \/ (mode = "legacy" /\ i < at)
        BY <2>1, <3>3, <4>1 DEF RoundInv
      <4>3. i \in Nat /\ at \in Nat
        BY DEF TypeOK
      <4> QED BY <4>2, <4>3
    <3> QED BY <3>2, <3>3
  <2> QED BY <2>1 DEF RoundInv
<1>7. LearnInv' /\ LearnedOnce'
  BY DEF LearnInv, LearnedOnce, RecordInv, TypeOK, Terminal
<1> QED BY <1>3, <1>4, <1>5, <1>6, <1>7

LEMMA FeedbackStep ==
  ASSUME IInv, Feedback
  PROVE  IInv'
<1>1. /\ pc = "feedback" /\ pc' = "decide" /\ Candidate \in Actions /\ Candidate \in Candidates
      /\ attempted' = attempted \cup {Candidate} /\ Candidate \notin attempted
      /\ UNCHANGED <<mode, manifest, journal, used, cleanup, summary, at, results, injections,
                     crashes, lifecycleVars>>
  BY CandidateIsAction DEF Feedback, IInv, TypeOK, Working, RoundInv, outsideVars
<1>2. \/ UNCHANGED learned
      \/ /\ learned' = [learned EXCEPT ![Candidate] = @ + 1]
         /\ learned[Candidate] = 0 /\ journal[Candidate] = "cleanup_verified"
  BY <1>1 DEF Feedback, MayBeEligible, Clean, IInv, TypeOK, LearnInv
<1>3. learned \in [Actions -> Nat]
  BY DEF IInv, TypeOK
<1>4. /\ learned' \in [Actions -> Nat]
      /\ \A c \in Actions : c # Candidate => learned'[c] = learned[c]
      /\ \/ learned'[Candidate] = learned[Candidate]
         \/ learned'[Candidate] = 1 /\ journal[Candidate] = "cleanup_verified"
  BY <1>1, <1>2, <1>3
<1> USE <1>1, <1>4 DEF IInv, lifecycleVars, callVars, clusterVars, Working
<1>5. TypeOK'
  BY DEF TypeOK, LifecycleTypeOK, Locations
<1>6. CallInv' /\ FreshInv' /\ InjectedOnce' /\ FactsInv' /\ RecordInv'
  BY DEF CallInv, FreshInv, InjectedOnce, FactsInv, RecordInv
<1>7. RoundInv'
  BY DEF RoundInv, Candidate
<1>8. LearnInv' /\ LearnedOnce'
  BY DEF LearnInv, LearnedOnce
<1> QED BY <1>5, <1>6, <1>7, <1>8

LEMMA SummaryStep ==
  ASSUME IInv, WriteSummary
  PROVE  IInv'
<1>1. SummaryStatus(Reported) \in SummaryStatuses
  BY DEF SummaryStatus, SummaryStatuses
<1>2. NoResult \in Results /\ NoResult # Clean
  BY DEF NoResult, Clean, Results, ResultStatuses, Reports
<1>3. /\ pc \in {"next", "decide"} /\ pc' = "idle"
      /\ summary' \in [status : SummaryStatuses, results : [Actions -> Results]]
      /\ \A c \in Actions : summary'.results[c] \in {results[c], NoResult}
      /\ UNCHANGED <<mode, manifest, journal, used, cleanup, learned, at, attempted, results,
                     injections, crashes, lifecycleVars>>
  BY <1>1, <1>2 DEF WriteSummary, IInv, TypeOK, outsideVars
<1> USE <1>2, <1>3 DEF IInv, lifecycleVars, callVars, clusterVars, Working
<1>4. TypeOK'
  BY DEF TypeOK, LifecycleTypeOK, Locations
<1>5. CallInv' /\ FreshInv' /\ InjectedOnce' /\ FactsInv' /\ RecordInv'
  BY DEF CallInv, FreshInv, InjectedOnce, FactsInv, RecordInv
<1>6. RoundInv' /\ LearnInv' /\ LearnedOnce'
  BY DEF RoundInv, LearnInv, LearnedOnce
<1> QED BY <1>4, <1>5, <1>6

(* A crash ends the call with whatever it has done; the operator only      *)
(* takes things away.                                                      *)
LEMMA OutsideStep ==
  ASSUME IInv, Crash \/ \E c \in Actions : OperatorCleans(c)
  PROVE  IInv'
<1> USE DEF IInv, Working
<1>1. CASE Crash
  <2> USE <1>1 DEF Crash, diskVars, clusterVars
  <2>1. TypeOK'
    BY DEF TypeOK, LifecycleTypeOK, Locations, Steps
  <2>2. CallInv' /\ FreshInv' /\ InjectedOnce' /\ FactsInv' /\ RecordInv'
    BY DEF CallInv, FreshInv, InjectedOnce, FactsInv, RecordInv
  <2>3. RoundInv' /\ LearnInv' /\ LearnedOnce'
    BY DEF RoundInv, LearnInv, LearnedOnce
  <2> QED BY <2>1, <2>2, <2>3
<1>2. ASSUME NEW c \in Actions, OperatorCleans(c)
      PROVE  IInv'
  <2> USE <1>2 DEF OperatorCleans, callVars, batchVars, diskVars, processVars
  <2>1. TypeOK'
    BY DEF TypeOK, LifecycleTypeOK
  <2>2. CallInv' /\ FreshInv' /\ InjectedOnce' /\ FactsInv' /\ RecordInv'
    BY DEF CallInv, FreshInv, InjectedOnce, FactsInv, RecordInv, Candidate
  <2>3. RoundInv' /\ LearnInv' /\ LearnedOnce'
    BY DEF RoundInv, LearnInv, LearnedOnce
  <2> QED BY <2>1, <2>2, <2>3
<1> QED BY <1>1, <1>2

LEMMA Stuttering ==
  ASSUME IInv, UNCHANGED vars
  PROVE  IInv'
<1> USE DEF vars, lifecycleVars, callVars, clusterVars, batchVars, diskVars, processVars
<1>1. TypeOK'
  BY DEF IInv, TypeOK, LifecycleTypeOK
<1>2. CallInv' /\ FreshInv' /\ InjectedOnce' /\ FactsInv' /\ RecordInv'
  BY DEF IInv, CallInv, FreshInv, InjectedOnce, FactsInv, RecordInv, Candidate
<1>3. RoundInv' /\ LearnInv' /\ LearnedOnce'
  BY DEF IInv, RoundInv, LearnInv, LearnedOnce, Candidate
<1> QED BY <1>1, <1>2, <1>3 DEF IInv

LEMMA NextStep == IInv /\ [Next]_vars => IInv'
<1> SUFFICES ASSUME IInv, [Next]_vars PROVE IInv'
  OBVIOUS
<1> QED BY BeginStep, PreflightStep, ExecuteStep, EndChildStep, JournalStep, FeedbackStep,
           SummaryStep, OutsideStep, Stuttering DEF Next

---------------------------------------------------------------------------
(* The theorems.                                                           *)

(* The inductive invariant holds in every reachable state.                 *)
THEOREM BatchInvariant == Spec => []IInv
BY InitStep, NextStep, PTL DEF Spec

(* The variables keep their types.                                         *)
THEOREM BatchTypes == Spec => []TypeOK
<1>1. IInv => TypeOK
  BY DEF IInv
<1> QED BY <1>1, BatchInvariant, PTL

(* No experiment runs beside the fault of another one (the residual gate). *)
THEOREM ExperimentsIsolated == Spec => []ExperimentsAreIsolated
<1>1. IInv => ExperimentsAreIsolated
  BY DEF IInv, CallInv, ExperimentsAreIsolated
<1> QED BY <1>1, BatchInvariant, PTL

(* A candidate's fault is applied at most once, however often its batch    *)
(* dies and is resumed (the non-empty output directory).                   *)
THEOREM MutationsAreNotRepeated == Spec => []InjectedOnce
<1>1. IInv => InjectedOnce
  BY DEF IInv
<1> QED BY <1>1, BatchInvariant, PTL

(* A candidate journaled cleanup_verified has left no fault, no fixture.   *)
THEOREM VerifiedCandidatesAreClean == Spec => []VerifiedIsClean
<1>1. IInv => VerifiedIsClean
  BY DEF IInv, RecordInv, VerifiedIsClean
<1> QED BY <1>1, BatchInvariant, PTL

(* The policy learns at most once from an experiment, and only from a      *)
(* clean one (the order of journal, policy state and summary).             *)
THEOREM PolicyLearnsOnce == Spec => []LearnedOnce
<1>1. IInv => LearnedOnce
  BY DEF IInv
<1> QED BY <1>1, BatchInvariant, PTL

(* The states a resumed batch skips are never left.                        *)
THEOREM TerminalStatesStay == Spec => TerminalStatesAreFinal
<1> DEFINE Final == \A c \in Actions :
                      journal[c] \in {"cleanup_verified", "preflight_blocked"} =>
                        journal'[c] = journal[c]
<1>1. IInv /\ [Next]_vars => [Final]_vars
  <2> SUFFICES ASSUME IInv, Next, NEW c \in Actions,
                      journal[c] \in {"cleanup_verified", "preflight_blocked"}
               PROVE  journal'[c] = journal[c]
    OBVIOUS
  <2>1. journal \in [Actions -> JournalStates]
    BY DEF IInv, TypeOK
  <2>2. CASE Journal \/ Verify
    BY <2>1, <2>2 DEF Journal, Verify, Record, IInv, RecordInv, Terminal, Working
  <2>3. CASE Plan
    <3>1. at <= Len(Selected) => at \in DOMAIN Selected
      BY DEF IInv, TypeOK
    <3>2. at <= Len(Selected) /\ Candidate \notin attempted => journal[Candidate] \notin Terminal
      BY <2>3, <3>1 DEF Plan, IInv, RoundInv, Candidate
    <3> QED BY <2>1, <2>3, <3>2 DEF Plan, Record, Terminal, IInv, TypeOK
  <2>4. CASE Decide
    <3>1. \A i \in DOMAIN Selected : Selected[i] \notin attempted => journal[Selected[i]] \notin Terminal
      BY <2>4 DEF Decide, IInv, RoundInv
    <3> QED BY <2>1, <2>4, <3>1 DEF Decide, Record, Terminal
  <2>5. CASE ~(Journal \/ Verify \/ Plan \/ Decide)
    BY <2>5 DEF Next, Start, Resume, Begin, SkipTerminal, BeginChild, RefuseChild, Preflight,
                Execute, EndChild, Feedback, WriteSummary, Crash, OperatorCleans, batchVars,
                diskVars
  <2> QED BY <2>2, <2>3, <2>4, <2>5
<1> QED BY <1>1, BatchInvariant, PTL DEF Spec, TerminalStatesAreFinal
=============================================================================
