---------------------------- MODULE Improvement ----------------------------
(***************************************************************************)
(* The retest of a manifest improvement.                                   *)
(*   tools/deployment_improvement.py   the patch of a copy of the sources, *)
(*                                     the labels, and the retest of one   *)
(*                                     scenario with a given executor      *)
(*   tools/fresh_deploy.py             dry run, apply and delete, file by  *)
(*                                     file                                *)
(*   tools/run_live_improvement.py     the live retest around them         *)
(*   tools/run_deployment_scenario.py  the phases of a scenario            *)
(*                                                                         *)
(* The sources are files in their sorted order, a file is a sequence of    *)
(* documents, a document declares an object. An object of the namespace is *)
(* absent, as somebody had it before this run, or as this run applied it:  *)
(* as the sources have it, or patched. A kubectl command that failed may   *)
(* have done any part of its work.                                         *)
(***************************************************************************)
EXTENDS Naturals, Sequences

CONSTANTS
  Objects,
  Layouts,        \* the sources of the instance
  NoSelector,     \* a proposal that names no document
  MaxPhases,      \* bound: phases of a scenario
  MaxPhaseFaults, \* bound: faults of a phase
  MaxRuns,        \* bound: invocations on one namespace
  MaxCrashes      \* bound: deaths of the process

ASSUME ImprovementAssumption ==
  /\ NoSelector \notin Objects
  /\ \A layout \in Layouts :
       /\ layout \in Seq(Seq(Objects)) /\ layout # << >>
       /\ \A f \in DOMAIN layout : layout[f] # << >>
  /\ MaxPhases \in Nat \ {0} /\ MaxPhaseFaults \in Nat \ {0}
  /\ MaxRuns \in Nat /\ MaxCrashes \in Nat

VARIABLES
  layout, proposal, \* the sources, and what the proposal points at
  baseline,         \* the classification of the baseline run
  aimed,            \* the profile's namespace is the one that is deployed to
  live,             \* the objects of the namespace
  namespace,        \* it exists
  pc, entry,
  approved,         \* the live run is approved, the scenario no dry run
  patch,            \* <<file, document>> the copy was changed at
  at,               \* the file or the phase the loop is at
  blocked,          \* the status is deployment_blocked already
  after,            \* what the retest recorded
  status, evidence, promotion, \* the answer
  runs, crashes,
  \* history, of this invocation
  measured,         \* the patched object, while the retest ran
  residue           \* a fault of the retest is still on its target

inputs == <<layout, proposal, baseline, aimed>>
cluster == <<live, namespace>>
control == <<entry, approved, patch>>
answer == <<status, evidence, promotion>>
history == <<measured, residue>>
retestVars == <<inputs, cluster, pc, control, at, blocked, after, answer, runs, crashes, history>>

\* The two classes a retest takes for a failure of the baseline, those it takes
\* for a failure of the patched deployment only, and the rest.
Classes == {"degraded", "escaped", "defended", "other"}
Contents == {"absent", "before", "original", "patched"}
Statuses == {"none", "dry_run_ready", "deployment_blocked", "regression",
             "improvement_verified", "not_run"}
Records == [complete : BOOLEAN, class : Classes, same : BOOLEAN, cleaned : BOOLEAN]
NoRecord == [complete |-> FALSE, class |-> "other", same |-> FALSE, cleaned |-> FALSE]
Evidence == [status : Statuses, same : BOOLEAN, cleaned : BOOLEAN, allowed : BOOLEAN]
NoEvidence == [status |-> "none", same |-> FALSE, cleaned |-> FALSE, allowed |-> FALSE]
NoPatch == <<0, 0>>
Steps == {"idle", "patch", "namespace", "dry_run", "dry_run_again", "apply", "ready",
          "retest", "delete", "settle", "validate", "phase"}

RetestTypeOK ==
  /\ layout \in Layouts
  /\ proposal.file \in DOMAIN layout /\ proposal.selector \in Objects \cup {NoSelector}
  /\ baseline \in Classes /\ aimed \in BOOLEAN
  /\ live \in [Objects -> Contents] /\ namespace \in BOOLEAN
  /\ pc \in Steps /\ entry \in {"dry_run", "live", "scenario"} /\ approved \in BOOLEAN
  /\ patch # NoPatch => patch[1] \in DOMAIN layout /\ patch[2] \in DOMAIN layout[patch[1]]
  /\ at \in Nat /\ blocked \in BOOLEAN /\ after \in Records
  /\ status \in Statuses /\ evidence \in Evidence
  /\ promotion \in {"not_run", "contested", "asked"}
  /\ runs \in 0 .. MaxRuns /\ crashes \in 0 .. MaxCrashes
  /\ measured \in Contents /\ residue \in BOOLEAN

Files == DOMAIN layout
Docs(f) == layout[f]
Declared == {o \in Objects : \E f \in Files : \E d \in DOMAIN Docs(f) : Docs(f)[d] = o}

(* propose_improvements(): a change of the first source of the failed node,*)
(* in the document its deployment's name selects, if it has a name.        *)
Proposals == [file : Files, selector : Objects \cup {NoSelector}]

RetestInit ==
  /\ layout \in Layouts
  /\ proposal \in Proposals
  /\ baseline \in Classes
  /\ aimed \in BOOLEAN
  /\ namespace \in BOOLEAN
  /\ live \in [Objects -> IF namespace THEN {"absent", "before"} ELSE {"absent"}]
  /\ pc = "idle" /\ entry = "dry_run" /\ approved = FALSE
  /\ patch = NoPatch /\ at = 0 /\ blocked = FALSE /\ after = NoRecord
  /\ status = "none" /\ evidence = NoEvidence /\ promotion = "not_run"
  /\ runs = 0 /\ crashes = 0
  /\ measured = "absent" /\ residue = FALSE

Go(from, to) == pc = from /\ pc' = to
End(from, s) == Go(from, "idle") /\ status' = s

---------------------------------------------------------------------------
(* The copy and its patch.                                                 *)

(* Both retests begin with nothing of their own in the cluster. A root     *)
(* with anything in it is refused before a file is written.                *)
Begin(e) ==
  /\ pc = "idle" /\ runs < MaxRuns
  /\ entry' = e
  /\ approved' \in BOOLEAN
  /\ live' = [o \in Objects |-> IF live[o] = "absent" THEN "absent" ELSE "before"]
  /\ patch' = NoPatch /\ at' = 0 /\ blocked' = FALSE /\ after' = NoRecord
  /\ evidence' = NoEvidence /\ promotion' = "not_run"
  /\ measured' = "absent" /\ residue' = FALSE
  /\ runs' = runs + 1
  /\ \/ pc' = "patch" /\ status' = "none"
     \/ pc' = "idle" /\ status' = IF e = "scenario" THEN "not_run" ELSE "deployment_blocked"
  /\ UNCHANGED <<inputs, namespace, crashes>>

(* _select_manifest_document(): the one document the selector names, or    *)
(* without a selector the first one, whatever it declares.                 *)
Selected ==
  LET docs == Docs(proposal.file)
      named == {d \in DOMAIN docs : docs[d] = proposal.selector}
  IN IF proposal.selector = NoSelector THEN {1}
     ELSE {d \in named : named = {d}}

(* _pointer_set(): one value of document d changes, or its parent is       *)
(* missing or the old value is not the expected one. An expected value of  *)
(* None matches any.                                                       *)
PointerSet(d) == {<<proposal.file, d>>, NoPatch}

(* apply_patch_copy(): a refused reference or pointer, or one changed      *)
(* document.                                                               *)
PatchCopy ==
  /\ UNCHANGED <<inputs, cluster, entry, approved, at, blocked, after, evidence, promotion,
                 runs, crashes, history>>
  /\ \/ /\ \E d \in Selected : patch' \in PointerSet(d) \ {NoPatch}
        /\ Go("patch", IF entry = "scenario" THEN "validate" ELSE "namespace")
        /\ UNCHANGED status
     \/ /\ End("patch", IF entry = "scenario" THEN "not_run" ELSE "deployment_blocked")
        /\ UNCHANGED patch

---------------------------------------------------------------------------
(* The labels.                                                             *)

(* classify_retest()                                                       *)
Classify(environment, before, now) ==
  IF environment = "blocked" THEN "deployment_blocked"
  ELSE IF now \in {"degraded", "escaped"} THEN "regression"
  ELSE IF before = "degraded" /\ now = "defended" THEN "improvement_verified"
  ELSE "not_run"

(* compare_live_runs()                                                     *)
Compare(before, record) ==
  LET label == Classify("executed", before, record.class)
  IN IF \/ ~record.complete
        \/ label = "improvement_verified" /\ ~(record.same /\ record.cleaned)
     THEN "deployment_blocked"
     ELSE label

(* build_improvement_evidence()                                            *)
EvidenceOf(label, same, cleaned) ==
  [status |-> label, same |-> same, cleaned |-> cleaned,
   allowed |-> label = "improvement_verified" /\ same /\ cleaned]

(* validate_improvement_evidence()                                         *)
EvidenceIsValid(e) == e.allowed <=> e.status = "improvement_verified" /\ e.same /\ e.cleaned

---------------------------------------------------------------------------
(* The fresh deployment.                                                   *)

(* ensure_namespace(), for an approved live run only. Nothing deletes what *)
(* it created.                                                             *)
PrepareNamespace ==
  /\ UNCHANGED <<inputs, live, control, at, blocked, after, evidence, promotion, runs, crashes,
                 history>>
  /\ \/ /\ entry = "live" /\ approved
        /\ namespace' = TRUE
        /\ Go("namespace", "dry_run")
        /\ UNCHANGED status
     \/ /\ entry = "live" /\ approved
        /\ namespace' \in {namespace, TRUE}
        /\ End("namespace", "deployment_blocked")
     \/ /\ ~(entry = "live" /\ approved)
        /\ Go("namespace", "dry_run")
        /\ UNCHANGED <<namespace, status>>

StartDelete(from) == Go(from, "delete") /\ at' = 1 /\ blocked' = TRUE /\ UNCHANGED status

(* deploy(): the server validates every file of the copy in a namespace    *)
(* that exists. A refusal makes an approved live run delete what it never  *)
(* applied.                                                                *)
DryRun ==
  /\ UNCHANGED <<inputs, cluster, control, after, evidence, promotion, runs, crashes, history>>
  /\ \/ /\ namespace
        /\ \/ entry = "dry_run" /\ End("dry_run", "dry_run_ready")
           \/ entry = "live" /\ ~approved /\ End("dry_run", "deployment_blocked")
           \/ entry = "live" /\ approved /\ Go("dry_run", "dry_run_again") /\ UNCHANGED status
        /\ UNCHANGED <<at, blocked>>
     \/ entry = "live" /\ approved /\ StartDelete("dry_run")
     \/ /\ ~(entry = "live" /\ approved)
        /\ End("dry_run", "deployment_blocked")
        /\ UNCHANGED <<at, blocked>>

(* apply_live() validates once more.                                       *)
DryRunAgain ==
  /\ UNCHANGED <<inputs, cluster, control, after, evidence, promotion, runs, crashes, history>>
  /\ \/ Go("dry_run_again", "apply") /\ at' = 1 /\ UNCHANGED <<blocked, status>>
     \/ StartDelete("dry_run_again")

(* The namespace after the documents in done of file f were applied: the   *)
(* later document of an object wins.                                       *)
Applied(f, done) ==
  [o \in Objects |->
     LET mine == {d \in done : Docs(f)[d] = o}
         last == CHOOSE d \in mine : \A e \in mine : e <= d
     IN IF mine = {} THEN live[o] ELSE IF patch = <<f, last>> THEN "patched" ELSE "original"]

ApplyFile ==
  /\ pc = "apply"
  /\ \/ /\ live' = Applied(at, DOMAIN Docs(at))
        /\ IF at < Len(layout) THEN pc' = pc /\ at' = at + 1 ELSE pc' = "ready" /\ at' = at
        /\ UNCHANGED <<blocked, status>>
     \/ /\ \E done \in SUBSET DOMAIN Docs(at) : live' = Applied(at, done)
        /\ StartDelete("apply")
  /\ UNCHANGED <<inputs, namespace, control, after, evidence, promotion, runs, crashes, history>>

Present(f) == {d \in DOMAIN Docs(f) : live[Docs(f)[d]] # "absent"}
Without(f, gone) ==
  [o \in Objects |-> IF \E d \in gone : Docs(f)[d] = o THEN "absent" ELSE live[o]]

(* Seeded fault: kubectl delete --ignore-not-found.                        *)
DeletableAnyway(f) == TRUE

(* kubectl delete fails on an object that is not found, also on one that   *)
(* another document has declared and that is deleted already.              *)
Deletable(f) ==
  /\ Present(f) = DOMAIN Docs(f)
  /\ \A d, e \in DOMAIN Docs(f) : Docs(f)[d] = Docs(f)[e] => d = e

(* cleanup() stops at the first file that is not deleted.                  *)
DeleteFile ==
  /\ pc = "delete"
  /\ \/ /\ Deletable(at)
        /\ live' = Without(at, DOMAIN Docs(at))
        /\ IF at < Len(layout) THEN pc' = pc /\ at' = at + 1 ELSE pc' = "settle" /\ at' = 0
     \/ /\ \E gone \in SUBSET Present(at) : live' = Without(at, gone)
        /\ pc' = "settle" /\ at' = at
  /\ UNCHANGED <<inputs, namespace, control, blocked, after, answer, runs, crashes, history>>

---------------------------------------------------------------------------
(* The live retest.                                                        *)

WaitForAvailable ==
  /\ \/ Go("ready", "retest") /\ UNCHANGED <<at, blocked, status>>
     \/ StartDelete("ready")
  /\ UNCHANGED <<inputs, cluster, control, after, evidence, promotion, runs, crashes, history>>

(* RunEngine().run_candidate() completes, or it raises or ends otherwise.  *)
(* A residue of its faults is not recorded as cleaned up.                  *)
Retest ==
  /\ pc = "retest" /\ pc' = "delete" /\ at' = 1
  /\ measured' = IF patch = NoPatch THEN "absent" ELSE live[Docs(patch[1])[patch[2]]]
  /\ residue' \in BOOLEAN
  /\ \/ /\ after' \in {r \in Records : residue' => ~r.cleaned}
        /\ UNCHANGED blocked
     \/ blocked' = TRUE /\ UNCHANGED after
  /\ UNCHANGED <<inputs, cluster, control, answer, runs, crashes>>

Cleaned == at = 0

(* Seeded fault: the summary has the comparison's status, the evidence that*)
(* of the cleanup.                                                         *)
SettledByRetest == IF blocked THEN "deployment_blocked" ELSE Compare(baseline, after)

Settled ==
  IF blocked \/ ~Cleaned THEN "deployment_blocked" ELSE Compare(baseline, after)

(* Seeded fault: the evidence of the comparison is kept.                   *)
EvidenceOfRetest ==
  EvidenceOf(Compare(baseline, after), after.same, after.cleaned)

SettledEvidence ==
  IF Cleaned THEN EvidenceOf(Compare(baseline, after), after.same, after.cleaned)
  ELSE EvidenceOf("deployment_blocked", after.same, FALSE)

(* The end of run_live_improvement(): the evidence is written before the   *)
(* promotion is asked for, the summary behind it. A run that was blocked   *)
(* has its summary already, and writes no evidence.                        *)
Settle ==
  /\ End("settle", Settled)
  /\ evidence' = IF blocked THEN NoEvidence ELSE SettledEvidence
  /\ promotion' \in IF Settled = "improvement_verified" THEN {"not_run", "contested", "asked"}
                    ELSE {"not_run"}
  /\ UNCHANGED <<inputs, cluster, control, at, blocked, after, runs, crashes, history>>

---------------------------------------------------------------------------
(* run_improvement_retest(): one scenario, with a given executor.          *)

(* The server-side dry run, if there is one.                               *)
Validate ==
  /\ \/ Go("validate", "phase") /\ at' = 1 /\ after' = [NoRecord EXCEPT !.same = TRUE, !.cleaned = TRUE]
        /\ UNCHANGED status
     \/ End("validate", "deployment_blocked") /\ UNCHANGED <<at, after>>
  /\ UNCHANGED <<inputs, cluster, control, blocked, evidence, promotion, runs, crashes, history>>

(* What an executor answers for a fault. It does not report a fault as     *)
(* cleaned up that it left.                                                *)
FaultAnswers ==
  [status : {"blocked"}, injected : {FALSE}, clean : {FALSE}, left : BOOLEAN, class : {"other"}]
    \cup {a \in [status : {"ok"}, injected : BOOLEAN, clean : BOOLEAN, left : BOOLEAN,
                 class : {"degraded", "defended", "other"}] : a.left => ~a.clean}
PhaseAnswers == UNION {[1 .. n -> FaultAnswers] : n \in 1 .. MaxPhaseFaults}

(* The first verdict there is, of the phases and in a phase of its faults. *)
FirstClass(sofar, answers) ==
  LET told == {i \in DOMAIN answers : answers[i].class # "other"}
  IN IF sofar # "other" \/ told = {} THEN sofar
     ELSE answers[CHOOSE i \in told : \A j \in told : i <= j].class

ScenarioEnd(environment, record) ==
  LET label == Classify(environment, baseline, record.class)
      final == IF label = "improvement_verified" /\ ~record.cleaned THEN "deployment_blocked" ELSE label
  IN /\ End("phase", final)
     /\ evidence' = EvidenceOf(final, record.same, record.cleaned)

(* Seeded fault: the cleanup of the last phase decides.                    *)
LastPhase(answers) ==
  [after EXCEPT !.class = FirstClass(@, answers), !.cleaned = \A i \in DOMAIN answers : answers[i].clean]

PhaseRecord(answers) ==
  [after EXCEPT !.class = FirstClass(@, answers),
                !.cleaned = @ /\ \A i \in DOMAIN answers : answers[i].clean]

(* run_scenario(): a refused or unconfirmed fault ends the scenario with a *)
(* phase that is not cleaned up; the verdict is then the status.           *)
RunPhase ==
  /\ pc = "phase" /\ approved
  /\ \E answers \in PhaseAnswers :
       /\ residue' = (residue \/ \E i \in DOMAIN answers : answers[i].left)
       /\ \/ /\ \A i \in DOMAIN answers : answers[i].injected
             /\ after' = PhaseRecord(answers)
             /\ \/ /\ at < MaxPhases /\ at' = at + 1
                   /\ UNCHANGED <<pc, status, evidence>>
                \/ ScenarioEnd("executed", PhaseRecord(answers)) /\ UNCHANGED at
          \/ /\ \E i \in DOMAIN answers : ~answers[i].injected
             /\ after' = [after EXCEPT !.class = "other", !.cleaned = FALSE]
             /\ \E environment \in IF \E i \in DOMAIN answers : answers[i].status = "blocked"
                                   THEN {"blocked", "failed"} ELSE {"failed"} :
                  ScenarioEnd(environment, after')
             /\ UNCHANGED at
  /\ UNCHANGED <<inputs, cluster, control, blocked, promotion, runs, crashes, measured>>

(* A dry run observes nothing and concludes nothing.                       *)
DryScenario ==
  /\ ~approved
  /\ ScenarioEnd("executed", [after EXCEPT !.cleaned = FALSE])
  /\ UNCHANGED <<inputs, cluster, control, at, blocked, after, promotion, runs, crashes, history>>

---------------------------------------------------------------------------
(* The process dies, or an exception leaves it: what is behind it in the   *)
(* call does not happen. Only the steps between the wait and the retest    *)
(* are in the block whose end deletes.                                     *)
Crash ==
  /\ crashes < MaxCrashes
  /\ pc # "idle" /\ pc' = "idle"
  /\ crashes' = crashes + 1
  /\ UNCHANGED <<inputs, cluster, control, at, blocked, after, answer, runs, history>>

RetestNext ==
  \/ \E e \in {"dry_run", "live", "scenario"} : Begin(e)
  \/ PatchCopy \/ PrepareNamespace \/ DryRun \/ DryRunAgain \/ ApplyFile \/ DeleteFile
  \/ WaitForAvailable \/ Retest \/ Settle
  \/ Validate \/ RunPhase \/ DryScenario
  \/ Crash

RetestSpec == RetestInit /\ [][RetestNext]_retestVars

---------------------------------------------------------------------------
Answered == pc = "idle" /\ status # "none"

(* An improvement is verified only in a clean end: no fault of its retest  *)
(* is left on its target, and of a live retest no object of the copy is    *)
(* left in the namespace, its own or an older one (compare_live_runs, the  *)
(* finally block of run_live_improvement, cleanup_ok of the scenario).     *)
ImprovementIsClean ==
  status = "improvement_verified" =>
    /\ ~residue
    /\ entry = "live" => \A o \in Declared : live[o] = "absent"

(* What a live retest verifies was measured with the patch in force, if    *)
(* the profile looks at that namespace: a second document of the patched   *)
(* object, which takes the patch back when it is applied, makes the cleanup*)
(* fail (apply_patch_copy, apply_live, cleanup).                           *)
ImprovementIsMeasured ==
  status = "improvement_verified" /\ entry = "live" /\ aimed => measured = "patched"

(* An answer that leaves objects of this run in the namespace is           *)
(* deployment_blocked, on whichever path the run came to its end.          *)
ResidueIsBlocked ==
  Answered /\ (\E o \in Objects : live[o] \in {"original", "patched"}) => status = "deployment_blocked"

(* The evidence that knowledge may be updated from says so exactly when    *)
(* the summary calls the improvement verified (improvement_evidence.json   *)
(* and summary.json are written apart, and the cleanup rewrites both).     *)
EvidenceAgrees ==
  Answered => EvidenceIsValid(evidence) /\ (evidence.allowed <=> status = "improvement_verified")
=============================================================================
