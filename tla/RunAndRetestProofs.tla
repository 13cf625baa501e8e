------------------------- MODULE RunAndRetestProofs -------------------------
(***************************************************************************)
(* Proofs about the two runs that work on a cluster of their own: one      *)
(* isolated run, for any of the plan's modes and any number of faults and  *)
(* deaths, and the retest of an improvement, for any layout of its files,  *)
(* any phases and any number of deaths. The two have no state in common.   *)
(*                                                                         *)
(* The isolated run: whoever holds the operation lock alone moves the      *)
(* lease file; the run reaches the command that creates something only     *)
(* with its parts on record; and what a release reads off the cluster      *)
(* under the lock stays true up to its record, but for a killed command's  *)
(* effect.                                                                 *)
(*                                                                         *)
(* The retest: it applies its files in order and deletes them in order,    *)
(* file by file, only while nothing failed; an object that is declared     *)
(* once is in force as patched from its file on, and is gone from its      *)
(* deletion on, so that the answer, which is drawn from what was recorded, *)
(* holds of the cluster.                                                   *)
(***************************************************************************)
EXTENDS IsolatedRun, Improvement, WellFoundedInduction, TLAPS

(* Before prepare() has returned: no lease in hand, nothing executed.      *)
Unprepared == {"plan", "admit", "claim", "enter", "handle"} \cup Preparing
(* Before the command that creates something.                              *)
Uncreated == {"plan", "admit", "claim", "enter", "preflight", "register", "paths"}

LockInv ==
    /\ run \in Preparing \cup {"handle"} <=> lock = "run" /\ rel = "none"
    /\ run \in Releasing <=> lock = "run" /\ rel # "none"
    /\ rel # "none" => lock # "none"
    /\ lock = "recovery" => rel # "none"

FileInv ==
    /\ run \in {"plan", "admit"} => file = "none"
    /\ file # "none" => mode # "none"
    /\ lease # "none" => file # "none"
    /\ run \in Preparing \cup {"handle"} => file = "preparing"
    /\ rel # "none" => file # "none"
    /\ rel \notin {"none", "begin"} => file = "releasing"
    /\ run = "plan" => mode = "none"
    /\ run \in {"admit", "claim", "enter", "handle"} \cup Preparing => mode # "none"
    /\ run = "claim" => mode = "minikube"
    /\ run \in {"claim", "enter"} => file # "none"

PartsOf == CASE mode = "namespace" -> {"namespace"}
             [] mode = "minikube" -> MinikubeParts
             [] OTHER -> {}

RecordInv ==
    /\ there \cup pending \subseteq PartsOf
    /\ run \in Uncreated => there = {} /\ pending = {} /\ stray = {}
    /\ run = "apply" => there = {} /\ pending = {} /\ stray = {} /\ mode # "adopted"
    /\ run = "paths" => mode = "minikube" /\ recorded = {"profile"}
    /\ run = "identify" => mode = "namespace"
    /\ run \in {"apply", "identify"} =>
          /\ mode = "namespace" => "namespace" \in recorded
          /\ mode = "minikube" => {"profile", "kubeconfig"} \subseteq recorded
    /\ ResidueIsRecorded

AbsenceInv ==
    /\ pending # {} => stray = {}
    /\ rel = "confirmed" => there \subseteq stray
    /\ ReleasedIsAbsent

ReportInv ==
    /\ run \in Unprepared =>
          lease = "none" /\ inner = "environment_blocked" /\ result = "none"
    /\ run \in Unprepared \cup {"undo", "bind"} => inner = "environment_blocked"
    /\ run = "undo" => lease = "none" /\ result = "none"
    /\ run \in {"execute", "surrender"} => lease = "ready" /\ inner = "environment_blocked"
    /\ run = "bind" => lease # "none"
    /\ run = "close" => lease # "none"
    /\ inner = "completed" => lease # "none"
    /\ lease = "released" => file = "released"
    /\ result \in {"none", "environment_blocked"} \/ run \in Over
    /\ life.status = "verified" =>
          run \in Over /\ inner = "completed" /\ lease = "released"
    /\ result = "completed" => run \in Over /\ inner = "completed" /\ lease = "released"

IInv == TypeOK /\ LockInv /\ FileInv /\ RecordInv /\ AbsenceInv /\ ReportInv

USE DEF IInv, TypeOK, LockInv, FileInv, RecordInv, AbsenceInv, ReportInv, ResidueIsRecorded,
        ReleasedIsAbsent, PartsOf, Unprepared, Uncreated, LEASE_STATES, RunPC, Parts,
        MinikubeParts, Preparing, Releasing, Over,
        vars, callVars, reportVars, storeVars, worldVars, relVars, Step, Fault, CaughtError

LEMMA RunInit == Init => IInv
<1> SUFFICES ASSUME Init PROVE IInv
  OBVIOUS
<1>1. TypeOK BY Zenon DEF Init
<1>2. LockInv /\ FileInv BY DEF Init
<1>3. RecordInv BY DEF Init
<1>4. AbsenceInv BY DEF Init
<1>5. ReportInv BY DEF Init
<1> QED BY <1>1, <1>2, <1>3, <1>4, <1>5

-----------------------------------------------------------------------------
(* prepare().                                                              *)

LEMMA RegisterStep == IInv /\ Register => IInv'
<1> SUFFICES ASSUME IInv, Register PROVE IInv'
  OBVIOUS
<1>1. mode \in {"adopted", "namespace", "minikube"}
  BY IsolatedRunAssumption DEF Register
<1>2. CASE mode = "adopted"
  BY <1>2 DEF Register
<1>3. CASE mode = "namespace"
  BY <1>3 DEF Register
<1>4. CASE mode = "minikube"
  BY <1>4 DEF Register
<1> QED BY <1>1, <1>2, <1>3, <1>4

LEMMA ApplyFailsStep == IInv /\ ApplyFails => IInv'
<1> SUFFICES ASSUME IInv, ApplyFails PROVE IInv'
  OBVIOUS
<1>0. run = "apply"
  BY DEF ApplyFails
<1>1. mode \in {"namespace", "minikube"}
  BY <1>0, IsolatedRunAssumption
<1>2. there' \subseteq PartsOf
  BY <1>1 DEF ApplyFails, Begun
<1>3. RecordInv'
  BY <1>1, <1>2 DEF ApplyFails
<1>4. TypeOK'
  BY <1>2, <1>1 DEF ApplyFails
<1>5. LockInv' /\ FileInv' /\ AbsenceInv' /\ ReportInv'
  BY DEF ApplyFails
<1> QED BY <1>3, <1>4, <1>5

LEMMA ApplyKilledStep == IInv /\ ApplyKilled => IInv'
<1> SUFFICES ASSUME IInv, ApplyKilled PROVE IInv'
  OBVIOUS
<1>1. mode \in {"namespace", "minikube"}
  BY IsolatedRunAssumption DEF ApplyKilled
<1>2. CASE mode = "namespace"
  BY <1>2 DEF ApplyKilled
<1>3. CASE mode = "minikube"
  BY <1>3 DEF ApplyKilled
<1> QED BY <1>1, <1>2, <1>3

LEMMA PrepareRaisesStep == IInv /\ PrepareRaises => IInv'
<1> SUFFICES ASSUME IInv, PrepareRaises PROVE IInv'
  OBVIOUS
<1>1. run \in Preparing /\ run' = "handle" /\ UNCHANGED <<lock, rel>>
  BY DEF PrepareRaises
<1>2. LockInv'
  BY <1>1
<1>3. TypeOK' /\ FileInv' /\ RecordInv' /\ AbsenceInv' /\ ReportInv'
  BY DEF PrepareRaises
<1> QED BY <1>2, <1>3

LEMMA SaveFailsStep == IInv /\ SaveFails => IInv'
<1> SUFFICES ASSUME IInv, SaveFails PROVE IInv'
  OBVIOUS
<1>1. errors' \in BOOLEAN /\ raising' \in BOOLEAN /\ doomed' \in BOOLEAN
  BY Zenon DEF SaveFails
<1>2. TypeOK'
  BY <1>1 DEF SaveFails
<1>3. LockInv' /\ FileInv' /\ RecordInv' /\ AbsenceInv' /\ ReportInv'
  BY DEF SaveFails
<1> QED BY <1>2, <1>3

LEMMA PrepareStep == IInv /\ Prepare => IInv'
<1> SUFFICES ASSUME IInv, Prepare PROVE IInv'
  OBVIOUS
<1>1. CASE WriteLease
  BY <1>1 DEF WriteLease
<1>2. CASE ClaimL3
  BY <1>2 DEF ClaimL3
<1>3. CASE EnterPreparing
  BY <1>3 DEF EnterPreparing
<1>4. CASE Preflight
  BY <1>4 DEF Preflight
<1>5. CASE RegisterPaths
  BY <1>5 DEF RegisterPaths
<1>6. CASE Apply
  BY <1>6 DEF Apply
<1>7. CASE Identify
  BY <1>7 DEF Identify
<1>8. CASE Fill
  BY <1>8 DEF Fill
<1>9. CASE VerifyReady
  BY <1>9 DEF VerifyReady
<1>10. CASE Handle
  BY <1>10 DEF Handle
<1> QED BY <1>1, <1>2, <1>3, <1>4, <1>5, <1>6, <1>7, <1>8, <1>9, <1>10, RegisterStep,
          ApplyFailsStep, ApplyKilledStep, PrepareRaisesStep, SaveFailsStep DEF Prepare

-----------------------------------------------------------------------------
(* _release_locked().                                                      *)

LEMMA CleanupNamespaceStep == IInv /\ CleanupNamespace => IInv'
<1> SUFFICES ASSUME IInv, CleanupNamespace PROVE IInv'
  OBVIOUS
<1>1. doomed' \in BOOLEAN
  BY Zenon DEF CleanupNamespace
<1>2. TypeOK'
  BY <1>1 DEF CleanupNamespace, CleanupStep, ReleaseStep
<1>3. LockInv' /\ FileInv' /\ RecordInv' /\ AbsenceInv' /\ ReportInv'
  BY DEF CleanupNamespace, CleanupStep, ReleaseStep
<1> QED BY <1>2, <1>3

LEMMA CleanupBlockedStep == IInv /\ CleanupBlocked => IInv'
<1> SUFFICES ASSUME IInv, CleanupBlocked PROVE IInv'
  OBVIOUS
<1>1. doomed' \in BOOLEAN
  BY Zenon DEF CleanupBlocked
<1>2. TypeOK'
  BY <1>1 DEF CleanupBlocked, CleanupStep, ReleaseStep
<1>3. LockInv' /\ FileInv' /\ RecordInv' /\ AbsenceInv' /\ ReportInv'
  BY DEF CleanupBlocked, CleanupStep, ReleaseStep
<1> QED BY <1>2, <1>3

LEMMA ReleaseRaisesStep == IInv /\ ReleaseRaises => IInv'
<1> SUFFICES ASSUME IInv, ReleaseRaises PROVE IInv'
  OBVIOUS
<1>1. raising' \in BOOLEAN
  BY Zenon DEF ReleaseRaises
<1>2. /\ file' = file \/ (rel = "confirmed" /\ file' = "released")
      /\ UNCHANGED <<recorded, worldVars, reportVars, mode, deaths, lease>>
      /\ lock' = "none" /\ rel' = "none" /\ faults' = faults + 1
      /\ rel # "none"
  BY DEF ReleaseRaises, ReleaseStep
<1>3. CASE lock = "recovery"
  <2>1. UNCHANGED callVars
    BY <1>3 DEF ReleaseRaises
  <2> QED BY <1>2, <1>3, <2>1
<1>4. CASE lock = "run" /\ run = "undo"
  <2>1. CaughtError
    BY <1>4 DEF ReleaseRaises
  <2> QED BY <1>1, <1>2, <1>4, <2>1
<1>5. CASE lock = "run" /\ run = "surrender"
  <2>1. run' = "execute" /\ UNCHANGED <<inner, errors>>
    BY <1>5 DEF ReleaseRaises
  <2> QED BY <1>1, <1>2, <1>5, <2>1
<1>6. CASE lock = "run" /\ run = "close"
  <2>1. run' = "report" /\ errors' = TRUE /\ UNCHANGED inner
    BY <1>6 DEF ReleaseRaises
  <2> QED BY <1>1, <1>2, <1>6, <2>1
<1> QED BY <1>2, <1>3, <1>4, <1>5, <1>6

LEMMA ReleaseStepsKeep == IInv /\ Release => IInv'
<1> SUFFICES ASSUME IInv, Release PROVE IInv'
  OBVIOUS
<1>1. CASE ReleasedAlready
  BY <1>1 DEF ReleasedAlready, ReleaseStep, EndRelease
<1>2. CASE BeginRelease
  BY <1>2 DEF BeginRelease, ReleaseStep
<1>3. CASE CleanupAdopted
  BY <1>3 DEF CleanupAdopted, CleanupStep, ReleaseStep
<1>4. CASE CleanupMinikube
  BY <1>4 DEF CleanupMinikube, CleanupStep, ReleaseStep
<1>5. CASE DeleteProfile
  BY <1>5 DEF DeleteProfile, CleanupStep, ReleaseStep
<1>6. CASE DeleteFails
  BY <1>6 DEF DeleteFails, CleanupStep, ReleaseStep
<1>7. CASE DeleteFiles
  BY <1>7 DEF DeleteFiles, CleanupStep, ReleaseStep
<1>8. CASE ConfirmAbsence
  BY <1>8 DEF ConfirmAbsence, Absent, CleanupStep, ReleaseStep
<1>9. CASE AbsenceDenied
  BY <1>9 DEF AbsenceDenied, CleanupStep, ReleaseStep
<1>10. CASE Record
  BY <1>10 DEF Record, ReleaseStep, EndRelease
<1> QED BY <1>1, <1>2, <1>3, <1>4, <1>5, <1>6, <1>7, <1>8, <1>9, <1>10,
          CleanupNamespaceStep, CleanupBlockedStep, ReleaseRaisesStep DEF Release

-----------------------------------------------------------------------------
(* run_isolated_live() and the others.                                     *)

LEMMA BindStep == IInv /\ Bind => IInv'
<1> SUFFICES ASSUME IInv, Bind PROVE IInv'
  OBVIOUS
<1>1. errors' \in BOOLEAN
  BY Zenon DEF Bind
<1>2. TypeOK'
  BY <1>1 DEF Bind
<1>3. LockInv' /\ FileInv' /\ RecordInv' /\ AbsenceInv' /\ ReportInv'
  BY DEF Bind
<1> QED BY <1>2, <1>3

LEMMA SurrenderStep == IInv /\ Surrender => IInv'
  BY DEF Surrender

LEMMA FinallyStep == IInv /\ Finally => IInv'
  BY DEF Finally

LEMMA AroundStep == IInv /\ Around => IInv'
<1> SUFFICES ASSUME IInv, Around PROVE IInv'
  OBVIOUS
<1>1. CASE Plan
  <2>1. mode' \in Modes /\ mode' # "none"
    BY <1>1, IsolatedRunAssumption DEF Plan
  <2> QED BY <1>1, <2>1 DEF Plan
<1>2. CASE PlanBlocked
  BY <1>2 DEF PlanBlocked
<1>3. CASE RunRaises
  BY <1>3 DEF RunRaises
<1>4. CASE Execute
  BY <1>4 DEF Execute
<1>5. CASE Report
  BY <1>5 DEF Report, CleanupOk, CleanupState, Status
<1>6. CASE ReportFails
  BY <1>6 DEF ReportFails
<1>7. CASE Interrupt
  BY <1>7 DEF Interrupt
<1> QED BY <1>1, <1>2, <1>3, <1>4, <1>5, <1>6, <1>7, BindStep, SurrenderStep,
          FinallyStep DEF Around

LEMMA FinalizeStep == IInv /\ Finalize => IInv'
<1> SUFFICES ASSUME IInv, Finalize PROVE IInv'
  OBVIOUS
<1>1. doomed' \in BOOLEAN
  BY Zenon DEF Finalize
<1>2. TypeOK'
  BY <1>1 DEF Finalize
<1>3. LockInv' /\ FileInv' /\ RecordInv' /\ AbsenceInv' /\ ReportInv'
  BY DEF Finalize
<1> QED BY <1>2, <1>3

LEMMA RunDiesStep == IInv /\ RunDies => IInv'
<1> SUFFICES ASSUME IInv, RunDies PROVE IInv'
  OBVIOUS
<1>1. CASE UNCHANGED <<there, pending>>
  BY <1>1 DEF RunDies
<1>2. CASE run = "apply"
  <2>1. mode \in {"namespace", "minikube"}
    BY <1>2, IsolatedRunAssumption
  <2>2. there' \subseteq PartsOf /\ pending' \subseteq PartsOf
    BY <1>2, <2>1 DEF RunDies, Begun
  <2>3. RecordInv'
    BY <1>2, <2>1, <2>2 DEF RunDies
  <2>4. TypeOK'
    BY <2>1, <2>2 DEF RunDies
  <2>5. LockInv' /\ FileInv' /\ AbsenceInv' /\ ReportInv'
    BY <1>2 DEF RunDies
  <2> QED BY <2>3, <2>4, <2>5
<1> QED BY <1>1, <1>2 DEF RunDies

LEMMA OthersStep == IInv /\ (Recover \/ Land \/ RecoveryDies) => IInv'
<1> SUFFICES ASSUME IInv, Recover \/ Land \/ RecoveryDies PROVE IInv'
  OBVIOUS
<1>1. CASE Recover
  BY <1>1 DEF Recover
<1>2. CASE Land
  BY <1>2 DEF Land
<1>3. CASE RecoveryDies
  BY <1>3 DEF RecoveryDies
<1> QED BY <1>1, <1>2, <1>3

LEMMA StutterStep == IInv /\ UNCHANGED vars => IInv'
OBVIOUS

-----------------------------------------------------------------------------
HIDE DEF IInv, TypeOK, LockInv, FileInv, RecordInv, AbsenceInv, ReportInv, ResidueIsRecorded,
         ReleasedIsAbsent, vars

(* The invariant is kept by every step of the run, of a recovery, of the   *)
(* cluster, and by every death.                                            *)
THEOREM RunInvariant == Spec => []IInv
<1>1. IInv /\ [Next]_vars => IInv'
  BY PrepareStep, ReleaseStepsKeep, AroundStep, FinalizeStep, RunDiesStep, OthersStep,
     StutterStep DEF Next
<1> QED BY RunInit, <1>1, PTL DEF Spec

(* Every variable has its type.                                            *)
THEOREM RunTypes == Spec => []TypeOK
<1>1. IInv => TypeOK
  BY DEF IInv
<1> QED BY RunInvariant, <1>1, PTL

(* Wherever a process dies, the lease file names what exists or may still  *)
(* come into being.                                                        *)
THEOREM ResidueRecorded == Spec => []ResidueIsRecorded
<1>1. IInv => ResidueIsRecorded
  BY DEF IInv, RecordInv
<1> QED BY RunInvariant, <1>1, PTL

(* A released lease has left nothing, but for a killed command's late      *)
(* effect.                                                                 *)
THEOREM ReleasedAbsent == Spec => []ReleasedIsAbsent
<1>1. IInv => ReleasedIsAbsent
  BY DEF IInv, AbsenceInv
<1> QED BY RunInvariant, <1>1, PTL

(* A run that says verified, or completed, ended clean.                    *)
THEOREM VerifiedClean == Spec => []VerifiedIsClean
<1>1. IInv => VerifiedIsClean
  BY DEF VerifiedIsClean, IInv, AbsenceInv, ReportInv, ReleasedIsAbsent
<1> QED BY RunInvariant, <1>1, PTL

-----------------------------------------------------------------------------
(* The retest of an improvement.                                           *)


Own == {"original", "patched"}

(* No object is declared by two documents.                                 *)
DeclaredOnce(files) ==
  \A f, g \in files : \A d \in DOMAIN Docs(f), e \in DOMAIN Docs(g) :
    Docs(f)[d] = Docs(g)[e] => f = g /\ d = e

PatchedObject == Docs(patch[1])[patch[2]]

(* The order of the steps.                                                 *)
FlowInv ==
  /\ pc # "idle" => status = "none" /\ evidence = NoEvidence
  /\ pc \in {"dry_run_again", "apply", "ready", "retest", "delete", "settle"} => entry = "live"
  /\ pc \in {"validate", "phase"} => entry = "scenario"
  /\ pc \notin {"idle", "patch"} => patch # NoPatch
  /\ patch = <<patch[1], patch[2]>>
  /\ pc \in {"patch", "namespace", "dry_run", "dry_run_again", "apply", "ready", "retest",
             "validate"} => ~residue

(* Where objects of this run may be.                                       *)
OwnInv ==
  /\ \A o \in Objects : live[o] \in Own => o \in Declared
  /\ pc \notin {"idle", "apply", "ready", "retest", "delete", "settle"} =>
       \A o \in Objects : live[o] \notin Own

(* Of an object that is declared once the patch is in force when its file  *)
(* has been applied.                                                       *)
ForceInv ==
  DeclaredOnce(Files) =>
    /\ pc = "apply" /\ patch[1] < at => live[PatchedObject] = "patched"
    /\ pc \in {"ready", "retest"} => live[PatchedObject] = "patched"
    /\ pc \in {"delete", "settle"} /\ ~blocked => measured = "patched"

(* What was deleted so far was declared once, and it is gone.              *)
DeleteInv ==
  /\ pc \in {"apply", "delete"} => at \in Files
  /\ pc = "delete" =>
       /\ DeclaredOnce(1 .. at - 1)
       /\ \A f \in 1 .. at - 1 : \A d \in DOMAIN Docs(f) : live[Docs(f)[d]] = "absent"
  /\ pc = "settle" /\ Cleaned =>
       DeclaredOnce(Files) /\ \A o \in Declared : live[o] = "absent"

(* What is recorded as cleaned up is.                                      *)
PhaseInv ==
  /\ pc \in {"delete", "settle"} /\ ~blocked => (after.cleaned => ~residue)
  /\ pc = "phase" => after.same /\ (after.cleaned => ~residue)

AnswerInv ==
  ImprovementIsClean /\ ImprovementIsMeasured /\ ResidueIsBlocked /\ EvidenceAgrees

RInv ==
  /\ RetestTypeOK /\ FlowInv /\ OwnInv /\ ForceInv /\ DeleteInv /\ PhaseInv
  /\ AnswerInv

USE DEF inputs, cluster, control, answer, history

(* A set of places that is not empty has a first one.                      *)
LEMMA FirstIndex ==
  ASSUME NEW T \in SUBSET Nat, T # {}
  PROVE  \E i \in T : \A j \in T : i <= j
<1>1. PICK i \in T : \A j \in T : <<j, i>> \notin OpToRel(<, Nat)
  BY NatLessThanWellFounded, WFMin
<1>2. \A j \in T : ~(j < i)
  BY <1>1 DEF OpToRel
<1> QED BY <1>2

(* Files and their documents are numbered, and every document is of an     *)
(* object.                                                                 *)
LEMMA LayoutFacts ==
  ASSUME RetestTypeOK
  PROVE  /\ Len(layout) \in Nat \ {0} /\ Files = 1 .. Len(layout)
         /\ \A f \in Files : /\ 1 \in DOMAIN Docs(f)
                             /\ \A d \in DOMAIN Docs(f) : Docs(f)[d] \in Objects
                             /\ DOMAIN Docs(f) \subseteq Nat
<1>1. layout \in Seq(Seq(Objects)) /\ layout # << >> /\ \A f \in DOMAIN layout : layout[f] # << >>
  BY ImprovementAssumption DEF RetestTypeOK
<1>2. \A f \in DOMAIN layout : layout[f] \in Seq(Objects)
  BY <1>1
<1> QED BY <1>1, <1>2 DEF Files, Docs

(* A verdict of a fault is one of the classes.                             *)
LEMMA FirstClassType ==
  ASSUME NEW sofar \in Classes, NEW answers \in PhaseAnswers
  PROVE  FirstClass(sofar, answers) \in Classes
<1> DEFINE told == {i \in DOMAIN answers : answers[i].class # "other"}
<1>1. PICK n \in 1 .. MaxPhaseFaults : answers \in [1 .. n -> FaultAnswers]
  BY DEF PhaseAnswers
<1>2. \A a \in FaultAnswers : a.class \in Classes
  BY DEF FaultAnswers, Classes
<1>3. told \in SUBSET Nat /\ \A i \in told : answers[i].class \in Classes
  BY <1>1, <1>2, ImprovementAssumption
<1>4. CASE told = {}
  BY <1>4 DEF FirstClass
<1>5. CASE told # {}
  <2>1. \E i \in told : \A j \in told : i <= j
    BY <1>3, <1>5, FirstIndex
  <2>2. (CHOOSE i \in told : \A j \in told : i <= j) \in told
    BY <2>1
  <2> QED BY <1>3, <2>2 DEF FirstClass
<1> QED BY <1>4, <1>5

(* What records, evidence and answers are made of has their types.         *)
LEMMA RecordTypes ==
  /\ NoRecord \in Records /\ NoEvidence \in Evidence
  /\ \A label \in Statuses, same, cleaned \in BOOLEAN : EvidenceOf(label, same, cleaned) \in Evidence
  /\ \A e \in {"blocked", "executed", "failed"}, b, c \in Classes : Classify(e, b, c) \in Statuses
  /\ \A b \in Classes, r \in Records : Compare(b, r) \in Statuses
<1>1. /\ NoRecord \in Records /\ NoEvidence \in Evidence
      /\ \A label \in Statuses, same, cleaned \in BOOLEAN : EvidenceOf(label, same, cleaned) \in Evidence
  BY DEF NoRecord, Records, NoEvidence, Evidence, EvidenceOf, Classes, Statuses
<1>2. \A e \in {"blocked", "executed", "failed"}, b, c \in Classes : Classify(e, b, c) \in Statuses
  BY DEF Classify, Statuses
<1>3. \A b \in Classes, r \in Records : Compare(b, r) \in Statuses
  BY <1>2 DEF Compare, Statuses, Records
<1> QED BY <1>1, <1>2, <1>3

(* The record that a phase leaves, whichever way it ended.                 *)
LEMMA PhaseRecordType ==
  ASSUME RetestTypeOK, NEW answers \in PhaseAnswers
  PROVE  PhaseRecord(answers) \in Records
BY FirstClassType DEF PhaseRecord, Records, RetestTypeOK

---------------------------------------------------------------------------
(* The type invariant in six parts.                                       *)
InputTypes ==
  /\ layout \in Layouts
  /\ proposal.file \in DOMAIN layout /\ proposal.selector \in Objects \cup {NoSelector}
  /\ baseline \in Classes /\ aimed \in BOOLEAN
ClusterTypes ==
  /\ live \in [Objects -> Contents] /\ namespace \in BOOLEAN
  /\ measured \in Contents /\ residue \in BOOLEAN
ControlTypes ==
  /\ pc \in Steps /\ entry \in {"dry_run", "live", "scenario"} /\ approved \in BOOLEAN
  /\ blocked \in BOOLEAN
CountTypes == at \in Nat /\ runs \in 0 .. MaxRuns /\ crashes \in 0 .. MaxCrashes
PatchTypes ==
  patch # NoPatch => patch[1] \in DOMAIN layout /\ patch[2] \in DOMAIN layout[patch[1]]
AnswerTypes ==
  /\ after \in Records
  /\ status \in Statuses /\ evidence \in Evidence
  /\ promotion \in {"not_run", "contested", "asked"}

(* The type invariant, by the part of the state it is about.               *)
LEMMA TypeParts == RetestTypeOK <=> InputTypes /\ ClusterTypes /\ ControlTypes /\ CountTypes /\ PatchTypes /\ AnswerTypes
BY DEF RetestTypeOK, InputTypes, ClusterTypes, ControlTypes, CountTypes, PatchTypes, AnswerTypes

(* No step changes the sources, the proposal or the baseline.              *)
LEMMA InputStep == RetestNext => UNCHANGED inputs
BY DEF RetestNext, Begin, PatchCopy, PrepareNamespace, DryRun, DryRunAgain, ApplyFile, DeleteFile,
       WaitForAvailable, Retest, Settle, Validate, RunPhase, DryScenario, Crash

LEMMA ScenarioEndTypes ==
  ASSUME RetestTypeOK, NEW environment \in {"blocked", "failed", "executed"}, NEW record \in Records,
         ScenarioEnd(environment, record)
  PROVE  status' \in Statuses /\ evidence' \in Evidence /\ pc' = "idle"
<1> DEFINE label == Classify(environment, baseline, record.class)
           final == IF label = "improvement_verified" /\ ~record.cleaned
                    THEN "deployment_blocked" ELSE label
<1>1. record.class \in Classes /\ record.same \in BOOLEAN /\ record.cleaned \in BOOLEAN
  BY DEF Records
<1>2. label \in Statuses
  BY <1>1, RecordTypes DEF RetestTypeOK
<1>3. final \in Statuses
  BY <1>2 DEF Statuses
<1> QED BY <1>1, <1>3, RecordTypes DEF ScenarioEnd, End, Go

LEMMA ClusterTypesStep == RetestTypeOK /\ RetestNext => ClusterTypes'
<1> SUFFICES ASSUME RetestTypeOK, RetestNext PROVE ClusterTypes'
  OBVIOUS
<1>1. ClusterTypes
  BY TypeParts
<1> USE DEF ClusterTypes, Contents
<1>2. ASSUME NEW e \in {"dry_run", "live", "scenario"}, Begin(e) PROVE ClusterTypes'
  BY <1>1, <1>2 DEF Begin
<1>3. CASE PrepareNamespace
  BY <1>1, <1>3 DEF PrepareNamespace
<1>4. CASE ApplyFile
  <2>1. \A f, done : Applied(f, done) \in [Objects -> Contents]
    BY <1>1 DEF Applied
  <2> QED BY <1>1, <1>4, <2>1 DEF ApplyFile
<1>5. CASE DeleteFile
  <2>1. \A f, gone : Without(f, gone) \in [Objects -> Contents]
    BY <1>1 DEF Without
  <2> QED BY <1>1, <1>5, <2>1 DEF DeleteFile
<1>6. CASE Retest
  <2>1. patch # NoPatch => Docs(patch[1])[patch[2]] \in Objects
    BY LayoutFacts DEF RetestTypeOK, Files, Docs
  <2> QED BY <1>1, <1>6, <2>1 DEF Retest
<1>7. CASE RunPhase
  BY <1>1, <1>7 DEF RunPhase
<1>8. CASE \/ PatchCopy \/ DryRun \/ DryRunAgain \/ WaitForAvailable \/ Settle \/ Validate
           \/ DryScenario \/ Crash
  BY <1>1, <1>8 DEF PatchCopy, DryRun, DryRunAgain, WaitForAvailable, Settle, Validate,
                    DryScenario, Crash
<1> QED BY <1>2, <1>3, <1>4, <1>5, <1>6, <1>7, <1>8 DEF RetestNext

LEMMA ControlTypesStep == RetestTypeOK /\ RetestNext => ControlTypes'
<1> SUFFICES ASSUME RetestTypeOK, RetestNext PROVE ControlTypes'
  OBVIOUS
<1>1. ControlTypes
  BY TypeParts
<1> USE DEF ControlTypes, Steps, Go, End
<1>3. ASSUME NEW e \in {"dry_run", "live", "scenario"}, Begin(e) PROVE ControlTypes'
  BY <1>1, <1>3 DEF Begin
<1>4. CASE PatchCopy
  BY <1>1, <1>4 DEF PatchCopy
<1>5. CASE PrepareNamespace
  BY <1>1, <1>5 DEF PrepareNamespace
<1>6. CASE DryRun
  BY <1>1, <1>6 DEF DryRun, StartDelete
<1>7. CASE DryRunAgain \/ WaitForAvailable
  BY <1>1, <1>7 DEF DryRunAgain, WaitForAvailable, StartDelete
<1>8. CASE ApplyFile
  BY <1>1, <1>8 DEF ApplyFile, StartDelete
<1>9. CASE DeleteFile
  BY <1>1, <1>9 DEF DeleteFile
<1>10. CASE Retest \/ Settle \/ Validate
  BY <1>1, <1>10 DEF Retest, Settle, Validate
<1>11. CASE RunPhase
  BY <1>1, <1>11 DEF RunPhase, ScenarioEnd
<1>12. CASE DryScenario
  BY <1>1, <1>12 DEF DryScenario, ScenarioEnd
<1>13. CASE Crash
  BY <1>1, <1>13 DEF Crash
<1> QED BY <1>3, <1>4, <1>5, <1>6, <1>7, <1>8, <1>9, <1>10, <1>11, <1>12, <1>13 DEF RetestNext

LEMMA CountTypesStep == RetestTypeOK /\ RetestNext => CountTypes'
<1> SUFFICES ASSUME RetestTypeOK, RetestNext PROVE CountTypes'
  OBVIOUS
<1>1. CountTypes /\ MaxRuns \in Nat /\ MaxCrashes \in Nat
  BY TypeParts, ImprovementAssumption
<1>2. at' \in {0, 1, at, at + 1}
  BY DEF RetestNext, Begin, PatchCopy, PrepareNamespace, DryRun, DryRunAgain, ApplyFile, DeleteFile,
         WaitForAvailable, StartDelete, Retest, Settle, Validate, RunPhase, DryScenario, Crash
<1>3. UNCHANGED runs \/ (runs < MaxRuns /\ runs' = runs + 1)
  BY DEF RetestNext, Begin, PatchCopy, PrepareNamespace, DryRun, DryRunAgain, ApplyFile, DeleteFile,
         WaitForAvailable, Retest, Settle, Validate, RunPhase, DryScenario, Crash
<1>4. UNCHANGED crashes \/ (crashes < MaxCrashes /\ crashes' = crashes + 1)
  BY DEF RetestNext, Begin, PatchCopy, PrepareNamespace, DryRun, DryRunAgain, ApplyFile, DeleteFile,
         WaitForAvailable, Retest, Settle, Validate, RunPhase, DryScenario, Crash
<1> QED BY <1>1, <1>2, <1>3, <1>4 DEF CountTypes

(* What is patched is a document of the sources.                           *)
LEMMA PatchTypesStep == RetestTypeOK /\ RetestNext => PatchTypes'
<1> SUFFICES ASSUME RetestTypeOK, RetestNext PROVE PatchTypes'
  OBVIOUS
<1>1. PatchTypes /\ UNCHANGED inputs /\ proposal.file \in Files
  BY TypeParts, InputStep DEF InputTypes, Files
<1>2. CASE \E e \in {"dry_run", "live", "scenario"} : Begin(e)
  BY <1>2 DEF Begin, PatchTypes
<1>3. CASE PatchCopy /\ ~UNCHANGED patch
  <2>1. PICK d \in Selected : patch' = <<proposal.file, d>>
    BY <1>3 DEF PatchCopy, PointerSet
  <2>2. d \in DOMAIN Docs(proposal.file)
    BY <1>1, <2>1, LayoutFacts DEF Selected
  <2> QED BY <1>1, <2>1, <2>2 DEF Docs, Files, PatchTypes
<1>4. CASE UNCHANGED patch
  BY <1>1, <1>4 DEF PatchTypes
<1> QED BY <1>2, <1>3, <1>4 DEF RetestNext, PrepareNamespace, DryRun, DryRunAgain, ApplyFile,
          DeleteFile, WaitForAvailable, Retest, Settle, Validate, RunPhase, DryScenario, Crash

LEMMA AnswerTypesStep == RetestTypeOK /\ RetestNext => AnswerTypes'
<1> SUFFICES ASSUME RetestTypeOK, RetestNext PROVE AnswerTypes'
  OBVIOUS
<1>1. AnswerTypes /\ baseline \in Classes
  BY TypeParts DEF InputTypes
<1>2. NoRecord \in Records /\ NoEvidence \in Evidence
  BY RecordTypes
<1> USE DEF AnswerTypes, End
<1>3. ASSUME NEW e \in {"dry_run", "live", "scenario"}, Begin(e) PROVE AnswerTypes'
  BY <1>1, <1>2, <1>3 DEF Begin, Statuses
<1>4. CASE PatchCopy \/ PrepareNamespace
  BY <1>1, <1>4 DEF PatchCopy, PrepareNamespace, Statuses
<1>5. CASE DryRun
  BY <1>1, <1>5 DEF DryRun, StartDelete, Statuses
<1>6. CASE DryRunAgain \/ WaitForAvailable \/ ApplyFile
  BY <1>1, <1>6 DEF DryRunAgain, WaitForAvailable, ApplyFile, StartDelete
<1>7. CASE DeleteFile \/ Crash
  BY <1>1, <1>7 DEF DeleteFile, Crash
<1>8. CASE Retest
  BY <1>1, <1>8 DEF Retest
<1>9. CASE Settle
  <2>1. Compare(baseline, after) \in Statuses /\ after.same \in BOOLEAN /\ after.cleaned \in BOOLEAN
    BY <1>1, RecordTypes DEF Records
  <2>2. Settled \in Statuses
    BY <2>1 DEF Settled, Statuses
  <2>3. SettledEvidence \in Evidence
    BY <2>1, RecordTypes DEF SettledEvidence, Statuses
  <2> QED BY <1>1, <1>2, <1>9, <2>2, <2>3 DEF Settle
<1>10. CASE Validate
  <2>1. [NoRecord EXCEPT !.same = TRUE, !.cleaned = TRUE] \in Records
    BY DEF NoRecord, Records, Classes
  <2> QED BY <1>1, <1>10, <2>1 DEF Validate, Statuses
<1>11. CASE RunPhase
  <2>1. PICK answers \in PhaseAnswers :
          \/ /\ after' = PhaseRecord(answers)
             /\ \/ UNCHANGED <<pc, status, evidence>>
                \/ ScenarioEnd("executed", PhaseRecord(answers))
          \/ /\ after' = [after EXCEPT !.class = "other", !.cleaned = FALSE]
             /\ \E environment \in {"blocked", "failed"} : ScenarioEnd(environment, after')
    BY <1>11 DEF RunPhase
  <2>2. [after EXCEPT !.class = "other", !.cleaned = FALSE] \in Records
    BY <1>1 DEF Records, Classes
  <2>3. after' \in Records /\ status' \in Statuses /\ evidence' \in Evidence
    BY <1>1, <2>1, <2>2, PhaseRecordType, ScenarioEndTypes
  <2> QED BY <1>1, <1>11, <2>3 DEF RunPhase
<1>12. CASE DryScenario
  <2>1. [after EXCEPT !.cleaned = FALSE] \in Records
    BY <1>1 DEF Records
  <2>2. status' \in Statuses /\ evidence' \in Evidence
    BY <1>12, <2>1, ScenarioEndTypes DEF DryScenario
  <2> QED BY <1>1, <1>12, <2>2 DEF DryScenario
<1> QED BY <1>3, <1>4, <1>5, <1>6, <1>7, <1>8, <1>9, <1>10, <1>11, <1>12 DEF RetestNext

(* Every step keeps the types.                                             *)
LEMMA TypeStep == RetestTypeOK /\ [RetestNext]_retestVars => RetestTypeOK'
<1>1. RetestTypeOK /\ RetestNext => InputTypes'
  BY TypeParts, InputStep DEF InputTypes
<1>2. RetestTypeOK /\ UNCHANGED retestVars => RetestTypeOK'
  BY DEF RetestTypeOK, retestVars
<1>3. InputTypes' /\ ClusterTypes' /\ ControlTypes' /\ CountTypes' /\ PatchTypes' /\ AnswerTypes' => RetestTypeOK'
  BY DEF RetestTypeOK, InputTypes, ClusterTypes, ControlTypes, CountTypes, PatchTypes, AnswerTypes
<1> QED BY <1>1, <1>2, <1>3, ClusterTypesStep, ControlTypesStep, CountTypesStep, PatchTypesStep, AnswerTypesStep
---------------------------------------------------------------------------
(* The order of the stages: what has begun, ended and failed so far.       *)
LEMMA FlowStep == RetestTypeOK /\ FlowInv /\ RetestNext => FlowInv'
<1> SUFFICES ASSUME RetestTypeOK, FlowInv, RetestNext PROVE FlowInv'
  OBVIOUS
<1>1. FlowInv /\ NoPatch = <<NoPatch[1], NoPatch[2]>>
  BY DEF NoPatch
<1> USE DEF FlowInv, Go, End
<1>2. ASSUME NEW e \in {"dry_run", "live", "scenario"}, Begin(e) PROVE FlowInv'
  BY <1>1, <1>2 DEF Begin
<1>3. CASE PatchCopy
  <2>1. patch' = <<patch'[1], patch'[2]>>
    BY <1>1, <1>3 DEF PatchCopy, PointerSet
  <2>2. patch' # NoPatch \/ pc' = "idle"
    BY <1>3 DEF PatchCopy
  <2> QED BY <1>1, <1>3, <2>1, <2>2 DEF PatchCopy
<1>4. CASE PrepareNamespace \/ DryRun
  <2>1. pc = "namespace" \/ pc = "dry_run"
    BY <1>4 DEF PrepareNamespace, DryRun, StartDelete
  <2>2. /\ pc' \in {"idle", "dry_run", "dry_run_again", "delete"} /\ UNCHANGED <<entry, patch, evidence, residue>>
        /\ pc' # "idle" => UNCHANGED status
        /\ pc' \in {"dry_run_again", "delete"} => entry = "live"
    <3>1. CASE PrepareNamespace
      BY <3>1 DEF PrepareNamespace
    <3>2. CASE DryRun
      BY <3>2 DEF DryRun, StartDelete
    <3> QED BY <1>4, <3>1, <3>2
  <2> QED BY <1>1, <2>1, <2>2
<1>5. CASE DryRunAgain \/ ApplyFile \/ WaitForAvailable
  BY <1>1, <1>5 DEF DryRunAgain, ApplyFile, WaitForAvailable, StartDelete
<1>6. CASE DeleteFile \/ Retest
  BY <1>1, <1>6 DEF DeleteFile, Retest
<1>7. CASE Settle \/ Validate \/ Crash
  BY <1>1, <1>7 DEF Settle, Validate, Crash
<1>8. CASE RunPhase
  BY <1>1, <1>8 DEF RunPhase, ScenarioEnd
<1>9. CASE DryScenario
  BY <1>1, <1>9 DEF DryScenario, ScenarioEnd
<1> QED BY <1>2, <1>3, <1>4, <1>5, <1>6, <1>7, <1>8, <1>9 DEF RetestNext

(* Which objects in the namespace are this run's own.                      *)
LEMMA OwnStep == RetestTypeOK /\ OwnInv /\ DeleteInv /\ RetestNext => OwnInv'
<1> SUFFICES ASSUME RetestTypeOK, OwnInv, DeleteInv, RetestNext PROVE OwnInv'
  OBVIOUS
<1>1. OwnInv /\ live \in [Objects -> Contents] /\ Declared' = Declared
  BY InputStep DEF RetestTypeOK, Declared, Files, Docs
<1> USE DEF OwnInv, Go, End
<1>2. ASSUME NEW e \in {"dry_run", "live", "scenario"}, Begin(e) PROVE OwnInv'
  BY <1>1, <1>2 DEF Begin, Own
<1>3. CASE PatchCopy \/ PrepareNamespace
  BY <1>1, <1>3 DEF PatchCopy, PrepareNamespace
<1>4. CASE DryRun \/ DryRunAgain \/ WaitForAvailable
  BY <1>1, <1>4 DEF DryRun, DryRunAgain, WaitForAvailable, StartDelete
<1>5. CASE ApplyFile
  <2>1. PICK done \in SUBSET DOMAIN Docs(at) : live' = Applied(at, done)
    BY <1>5 DEF ApplyFile
  <2>2. ASSUME NEW o \in Objects, live'[o] \in Own, live'[o] # live[o] PROVE o \in Declared
    <3>1. {d \in done : Docs(at)[d] = o} # {}
      BY <2>1, <2>2 DEF Applied
    <3>2. PICK d \in DOMAIN Docs(at) : Docs(at)[d] = o
      BY <3>1
    <3>3. at \in Files
      BY <1>5 DEF ApplyFile, Files, DeleteInv
    <3> QED BY <3>2, <3>3 DEF Declared
  <2>3. pc' \in {"apply", "ready", "delete"}
    BY <1>5 DEF ApplyFile, StartDelete
  <2> QED BY <1>1, <2>2, <2>3
<1>6. CASE DeleteFile
  <2>1. \A f, gone : \A o \in Objects : Without(f, gone)[o] \in {"absent", live[o]}
    BY DEF Without
  <2>2. \A o \in Objects : live'[o] \in {"absent", live[o]}
    BY <1>6, <2>1 DEF DeleteFile
  <2>3. pc' \in {"delete", "settle"}
    BY <1>6 DEF DeleteFile
  <2> QED BY <1>1, <2>2, <2>3 DEF Own
<1>7. CASE Retest \/ Settle \/ Validate \/ Crash
  BY <1>1, <1>7 DEF Retest, Settle, Validate, Crash
<1>8. CASE RunPhase
  BY <1>1, <1>8 DEF RunPhase, ScenarioEnd
<1>9. CASE DryScenario
  BY <1>1, <1>9 DEF DryScenario, ScenarioEnd
<1> QED BY <1>2, <1>3, <1>4, <1>5, <1>6, <1>7, <1>8, <1>9 DEF RetestNext

(* With no object declared twice, the patch is in force when its file has  *)
(* been applied, and later files leave it alone.                           *)
LEMMA AppliedPatch ==
  ASSUME RetestTypeOK, DeclaredOnce(Files), patch # NoPatch, patch = <<patch[1], patch[2]>>,
         NEW f \in Files
  PROVE  /\ f = patch[1] => Applied(f, DOMAIN Docs(f))[PatchedObject] = "patched"
         /\ f # patch[1] => Applied(f, DOMAIN Docs(f))[PatchedObject] = live[PatchedObject]
<1> DEFINE mine == {d \in DOMAIN Docs(f) : Docs(f)[d] = PatchedObject}
           last == CHOOSE d \in mine : \A e \in mine : e <= d
<1>1. patch[1] \in Files /\ patch[2] \in DOMAIN Docs(patch[1])
  BY DEF RetestTypeOK, Files, Docs
<1>2. PatchedObject \in Objects /\ patch[2] \in Nat
  BY <1>1, LayoutFacts DEF PatchedObject
<1>3. Applied(f, DOMAIN Docs(f))[PatchedObject] =
        IF mine = {} THEN live[PatchedObject] ELSE IF patch = <<f, last>> THEN "patched" ELSE "original"
  BY <1>2 DEF Applied
<1>4. CASE f = patch[1]
  <2>1. mine = {patch[2]}
    BY <1>1, <1>4 DEF DeclaredOnce, PatchedObject
  <2>2. last = patch[2]
    BY <1>2, <2>1
  <2> QED BY <1>3, <1>4, <2>1, <2>2
<1>5. CASE f # patch[1]
  <2>1. mine = {}
    BY <1>1, <1>5 DEF DeclaredOnce, PatchedObject
  <2> QED BY <1>3, <1>5, <2>1
<1> QED BY <1>4, <1>5

(* Which objects are in force as patched, from the file that holds them    *)
(* on.                                                                     *)
LEMMA ForceStep == RetestTypeOK /\ FlowInv /\ ForceInv /\ DeleteInv /\ RetestNext => ForceInv'
<1> SUFFICES ASSUME RetestTypeOK, FlowInv, ForceInv, DeleteInv, RetestNext, DeclaredOnce(Files)'
             PROVE  ForceInv'
  BY DEF ForceInv
<1>1. DeclaredOnce(Files)
  BY InputStep DEF DeclaredOnce, Files, Docs
<1>2. UNCHANGED patch => PatchedObject' = PatchedObject
  BY InputStep DEF PatchedObject, Docs
<1>3. /\ pc = "apply" /\ patch[1] < at => live[PatchedObject] = "patched"
      /\ pc \in {"ready", "retest"} => live[PatchedObject] = "patched"
      /\ pc \in {"delete", "settle"} /\ ~blocked => measured = "patched"
  BY <1>1 DEF ForceInv
<1> USE DEF ForceInv, Go, End
<1>4. CASE pc' \notin {"apply", "ready", "retest", "delete", "settle"}
  BY <1>4
<1>5. CASE DryRun
  BY <1>5 DEF DryRun, StartDelete
<1>6. CASE DryRunAgain
  <2>1. patch[1] \in Nat \ {0}
    BY <1>6, LayoutFacts DEF DryRunAgain, StartDelete, FlowInv, RetestTypeOK, Files
  <2>2. pc' = "delete" => blocked'
    BY <1>6 DEF DryRunAgain, StartDelete
  <2>3. pc' = "apply" => at' = 1
    BY <1>6 DEF DryRunAgain, StartDelete
  <2>4. pc' \in {"apply", "delete"} /\ patch' = patch
    BY <1>6 DEF DryRunAgain, StartDelete
  <2>5. ~(pc' = "apply" /\ patch'[1] < at')
    BY <2>1, <2>3, <2>4
  <2> QED BY <2>2, <2>4, <2>5
<1>7. CASE ApplyFile
  <2>1. /\ patch # NoPatch /\ patch = <<patch[1], patch[2]>> /\ at \in Files
        /\ patch[1] \in Files /\ pc = "apply" /\ UNCHANGED patch
    BY <1>7 DEF ApplyFile, FlowInv, DeleteInv, RetestTypeOK, Files
  <2>2. CASE live' = Applied(at, DOMAIN Docs(at)) /\ pc' # "delete"
    <3>1. patch[1] <= at => live'[PatchedObject] = "patched"
      <4>1. CASE patch[1] = at
        BY <1>1, <2>1, <2>2, <4>1, AppliedPatch
      <4>2. CASE patch[1] < at
        BY <1>1, <1>3, <2>1, <2>2, <4>2, AppliedPatch, LayoutFacts
      <4> QED BY <2>1, <4>1, <4>2, LayoutFacts
    <3>2. pc' = "ready" => patch[1] <= at
      <4>1. pc' = "ready" => ~(at < Len(layout))
        BY <1>7 DEF ApplyFile, StartDelete
      <4> QED BY <2>1, <4>1, LayoutFacts
    <3>3. pc' = "apply" => at' = at + 1
      BY <1>7, <2>2 DEF ApplyFile, StartDelete
    <3>4. pc' = "apply" /\ patch'[1] < at' => patch[1] <= at
      BY <2>1, <3>3, LayoutFacts
    <3>5. pc' \in {"apply", "ready"}
      BY <1>7, <2>2 DEF ApplyFile, StartDelete
    <3> QED BY <1>2, <2>1, <3>1, <3>2, <3>4, <3>5
  <2>3. CASE pc' = "delete"
    BY <1>7, <2>1, <2>3 DEF ApplyFile, StartDelete
  <2> QED BY <1>7, <2>2, <2>3 DEF ApplyFile, StartDelete
<1>8. CASE DeleteFile
  BY <1>3, <1>8 DEF DeleteFile
<1>9. CASE WaitForAvailable
  BY <1>2, <1>3, <1>9 DEF WaitForAvailable, StartDelete
<1>10. CASE Retest
  <2>1. measured' = "patched"
    BY <1>3, <1>10 DEF Retest, FlowInv, PatchedObject
  <2> QED BY <1>10, <2>1 DEF Retest
<1>11. \/ pc' \notin {"apply", "ready", "retest", "delete", "settle"}
       \/ DryRun \/ DryRunAgain \/ ApplyFile \/ DeleteFile \/ WaitForAvailable \/ Retest
  BY DEF RetestNext, Begin, PatchCopy, PrepareNamespace, Settle, Validate, RunPhase, ScenarioEnd,
         DryScenario, Crash
<1> QED BY <1>4, <1>5, <1>6, <1>7, <1>8, <1>9, <1>10, <1>11

(* What is deleted stays away, file by file.                               *)
LEMMA DeleteStep == RetestTypeOK /\ FlowInv /\ DeleteInv /\ RetestNext => DeleteInv'
<1> SUFFICES ASSUME RetestTypeOK, FlowInv, DeleteInv, RetestNext PROVE DeleteInv'
  OBVIOUS
<1>1. UNCHANGED layout
  BY InputStep
<1>2. \A files : DeclaredOnce(files)' <=> DeclaredOnce(files')
  BY <1>1 DEF DeclaredOnce, Docs
<1>3. Files' = Files /\ Declared' = Declared /\ 1 \in Files
  BY <1>1, LayoutFacts DEF Files, Declared, Docs
<1> USE DEF Go, End
<1>4. CASE pc' \notin {"apply", "delete", "settle"}
  BY <1>4 DEF DeleteInv
<1>5. ASSUME pc' \in {"apply", "delete"}, at' = 1 PROVE DeleteInv'
  <2>1. 1 .. at' - 1 = {}
    BY <1>5
  <2>2. DeclaredOnce(1 .. at - 1)'
    BY <2>1 DEF DeclaredOnce
  <2> QED BY <1>3, <1>5, <2>1, <2>2 DEF DeleteInv
<1>6. CASE ApplyFile /\ pc' = "apply"
  <2>1. at \in Files /\ at' = at + 1 /\ at < Len(layout)
    BY <1>6 DEF ApplyFile, StartDelete, DeleteInv
  <2>2. at' \in Files
    BY <2>1, LayoutFacts
  <2> QED BY <1>3, <1>6, <2>2 DEF DeleteInv
<1>7. CASE DeleteFile
  <2>1. /\ pc = "delete" /\ at \in Files /\ DeclaredOnce(1 .. at - 1)
        /\ \A f \in 1 .. at - 1 : \A d \in DOMAIN Docs(f) : live[Docs(f)[d]] = "absent"
    BY <1>7 DEF DeleteFile, DeleteInv
  <2>2. CASE pc' = "settle" /\ at' = at
    BY <2>1, <2>2, LayoutFacts DEF DeleteInv, Cleaned
  <2>3. CASE Deletable(at) /\ live' = Without(at, DOMAIN Docs(at))
    <3>1. \A d \in DOMAIN Docs(at) : live[Docs(at)[d]] # "absent"
      BY <2>3 DEF Deletable, Present
    <3>2. \A f \in 1 .. at : f \in Files
      BY <2>1, LayoutFacts
    <3>3. \A f \in 1 .. at : f = at \/ f \in 1 .. at - 1
      BY <2>1, LayoutFacts
    <3>4. ASSUME NEW f \in 1 .. at, NEW g \in 1 .. at, NEW d \in DOMAIN Docs(f), NEW e \in DOMAIN Docs(g),
                 Docs(f)[d] = Docs(g)[e]
          PROVE  f = g /\ d = e
      <4>1. CASE f = at /\ g = at
        BY <2>3, <3>4, <4>1 DEF Deletable
      <4>2. CASE f \in 1 .. at - 1 /\ g \in 1 .. at - 1
        BY <2>1, <3>4, <4>2 DEF DeclaredOnce
      <4>3. CASE f = at /\ g \in 1 .. at - 1
        BY <2>1, <3>1, <3>4, <4>3
      <4>4. CASE f \in 1 .. at - 1 /\ g = at
        BY <2>1, <3>1, <3>4, <4>4
      <4> QED BY <3>3, <4>1, <4>2, <4>3, <4>4
    <3>6. ASSUME NEW f \in 1 .. at, NEW d \in DOMAIN Docs(f) PROVE live'[Docs(f)[d]] = "absent"
      <4>1. Docs(f)[d] \in Objects
        BY <3>2, LayoutFacts
      <4>2. live'[Docs(f)[d]] = IF \E c \in DOMAIN Docs(at) : Docs(at)[c] = Docs(f)[d] THEN "absent"
                                ELSE live[Docs(f)[d]]
        BY <2>3, <4>1 DEF Without
      <4>3. CASE f = at
        BY <4>2, <4>3
      <4>4. CASE f \in 1 .. at - 1
        BY <2>1, <4>2, <4>4
      <4> QED BY <3>3, <4>3, <4>4
    <3>7. CASE pc' = "delete" /\ at' = at + 1 /\ at < Len(layout)
      <4>1. at' \in Files /\ 1 .. at' - 1 = 1 .. at
        BY <2>1, <3>7, LayoutFacts
      <4>2. DeclaredOnce(1 .. at - 1)'
        <5>1. \A f, g \in 1 .. at : \A d \in DOMAIN Docs(f)', e \in DOMAIN Docs(g)' :
                Docs(f)'[d] = Docs(g)'[e] => f = g /\ d = e
          BY <1>1, <3>4 DEF Docs
        <5>2. \A f \in 1 .. at' - 1 : f \in 1 .. at
          BY <4>1
        <5> QED BY <5>1, <5>2 DEF DeclaredOnce
      <4>3. \A f \in 1 .. at' - 1 : \A d \in DOMAIN Docs(f)' : live'[Docs(f)[d]'] = "absent"
        BY <1>1, <3>6, <4>1 DEF Docs
      <4> QED BY <1>3, <3>7, <4>1, <4>2, <4>3 DEF DeleteInv
    <3>8. CASE pc' = "settle" /\ ~(at < Len(layout))
      <4>1. 1 .. at = Files
        BY <2>1, <3>8, LayoutFacts
      <4>2. DeclaredOnce(Files)'
        <5>1. \A f, g \in 1 .. at : \A d \in DOMAIN Docs(f)', e \in DOMAIN Docs(g)' :
                Docs(f)'[d] = Docs(g)'[e] => f = g /\ d = e
          BY <1>1, <3>4 DEF Docs
        <5>2. \A f \in Files' : f \in 1 .. at
          BY <1>3, <4>1
        <5> QED BY <5>1, <5>2 DEF DeclaredOnce
      <4>3. \A o \in Declared : live'[o] = "absent"
        BY <3>6, <4>1 DEF Declared
      <4> QED BY <1>3, <3>8, <4>2, <4>3 DEF DeleteInv
    <3>9. \/ pc' = "delete" /\ at' = at + 1 /\ at < Len(layout)
          \/ pc' = "settle" /\ ~(at < Len(layout))
          \/ pc' = "settle" /\ at' = at
      BY <1>7 DEF DeleteFile
    <3> QED BY <2>2, <3>7, <3>8, <3>9
  <2> QED BY <1>7, <2>2, <2>3 DEF DeleteFile
<1>8. \/ pc' \notin {"apply", "delete", "settle"}
      \/ pc' \in {"apply", "delete"} /\ at' = 1
      \/ ApplyFile /\ pc' = "apply"
      \/ DeleteFile
  BY DEF RetestNext, Begin, PatchCopy, PrepareNamespace, DryRun, DryRunAgain, ApplyFile, WaitForAvailable,
         StartDelete, Retest, Settle, Validate, RunPhase, ScenarioEnd, DryScenario, Crash
<1> QED BY <1>4, <1>5, <1>6, <1>7, <1>8

(* What a phase records as cleaned up has left no fault behind.            *)
LEMMA PhaseClean ==
  ASSUME RetestTypeOK, after.cleaned => ~residue, NEW answers \in PhaseAnswers
  PROVE  /\ PhaseRecord(answers).same = after.same
         /\ PhaseRecord(answers).cleaned => after.cleaned /\ ~(\E i \in DOMAIN answers : answers[i].left)
<1>1. PICK n \in 1 .. MaxPhaseFaults : answers \in [1 .. n -> FaultAnswers]
  BY DEF PhaseAnswers
<1>2. \A a \in FaultAnswers : a.clean => ~a.left
  BY DEF FaultAnswers
<1>3. after \in Records
  BY DEF RetestTypeOK
<1> QED BY <1>1, <1>2, <1>3 DEF PhaseRecord, Records

(* What the phases recorded was so when it was recorded.                   *)
LEMMA RecordStep == RetestTypeOK /\ FlowInv /\ PhaseInv /\ RetestNext => PhaseInv'
<1> SUFFICES ASSUME RetestTypeOK, FlowInv, PhaseInv, RetestNext PROVE PhaseInv'
  OBVIOUS
<1> USE DEF PhaseInv, Go, End
<1>1. CASE pc' \notin {"delete", "settle", "phase"}
  BY <1>1
<1>2. CASE pc' = "delete" /\ blocked'
  BY <1>2
<1>3. CASE DeleteFile
  BY <1>3 DEF DeleteFile
<1>4. CASE Retest
  BY <1>4 DEF Retest
<1>5. CASE Validate
  <2>1. pc' = "phase" => after' = [NoRecord EXCEPT !.same = TRUE, !.cleaned = TRUE] /\ ~residue'
    BY <1>5 DEF Validate, FlowInv
  <2>2. [NoRecord EXCEPT !.same = TRUE, !.cleaned = TRUE].same
    BY DEF NoRecord
  <2>3. pc' \in {"phase", "idle"}
    BY <1>5 DEF Validate
  <2> QED BY <2>1, <2>2, <2>3
<1>6. CASE RunPhase /\ pc' = "phase"
  <2>1. after.same /\ (after.cleaned => ~residue)
    BY <1>6 DEF RunPhase
  <2>2. PICK answers \in PhaseAnswers :
          /\ residue' = (residue \/ \E i \in DOMAIN answers : answers[i].left)
          /\ after' = PhaseRecord(answers)
    BY <1>6 DEF RunPhase, ScenarioEnd
  <2> QED BY <1>6, <2>1, <2>2, PhaseClean
<1>7. \/ pc' \notin {"delete", "settle", "phase"}
      \/ pc' = "delete" /\ blocked'
      \/ DeleteFile \/ Retest \/ Validate
      \/ RunPhase /\ pc' = "phase"
  <2>1. CASE DryRun
    BY <2>1 DEF DryRun, StartDelete
  <2>2. CASE DryRunAgain \/ WaitForAvailable
    BY <2>2 DEF DryRunAgain, WaitForAvailable, StartDelete
  <2>3. CASE ApplyFile
    BY <2>3 DEF ApplyFile, StartDelete
  <2>4. CASE (\E e \in {"dry_run", "live", "scenario"} : Begin(e)) \/ Settle \/ DryScenario \/ Crash
    BY <2>4 DEF Begin, Settle, ScenarioEnd, DryScenario, Crash
  <2>5. CASE PatchCopy \/ PrepareNamespace
    BY <2>5 DEF PatchCopy, PrepareNamespace
  <2>6. CASE RunPhase
    BY <2>6 DEF RunPhase, ScenarioEnd
  <2> QED BY <2>1, <2>2, <2>3, <2>4, <2>5, <2>6 DEF RetestNext
<1> QED BY <1>1, <1>2, <1>3, <1>4, <1>5, <1>6, <1>7

---------------------------------------------------------------------------
(* Verified is a comparison of a complete, clean retest of the same        *)
(* profile.                                                                *)
LEMMA VerifiedFacts ==
  /\ \A b, r : Compare(b, r) = "improvement_verified" => r.same /\ r.cleaned
  /\ \A b, e : e \in {"blocked", "failed"} => Classify(e, b, "other") # "improvement_verified"
  /\ EvidenceIsValid(NoEvidence) /\ ~NoEvidence.allowed
  /\ \A label, same, cleaned :
       EvidenceIsValid(EvidenceOf(label, same, cleaned)) /\
       (EvidenceOf(label, same, cleaned).allowed <=> label = "improvement_verified" /\ same /\ cleaned)
BY DEF Compare, Classify, EvidenceIsValid, NoEvidence, EvidenceOf

(* A step that answers without a retest, or does not answer.               *)
LEMMA QuietStep ==
  ASSUME status' # "improvement_verified", status' = "none" \/ pc' # "idle" \/ evidence' = NoEvidence,
         pc' = "idle" /\ status' \notin {"none", "deployment_blocked"} =>
           \A o \in Objects : live'[o] \notin {"original", "patched"}
  PROVE  AnswerInv'
BY VerifiedFacts
   DEF AnswerInv, ImprovementIsClean, ImprovementIsMeasured, ResidueIsBlocked, EvidenceAgrees, Answered,
       EvidenceIsValid, NoEvidence

(* The answer of a scenario retest holds of the cluster.                   *)
LEMMA ScenarioAnswer ==
  ASSUME RetestTypeOK, FlowInv, OwnInv, pc = "phase",
         UNCHANGED <<layout, entry, live>>,
         NEW environment \in {"blocked", "failed", "executed"}, NEW record \in Records,
         ScenarioEnd(environment, record), record.same, record.cleaned => ~residue'
  PROVE  AnswerInv'
<1> DEFINE label == Classify(environment, baseline, record.class)
           final == IF label = "improvement_verified" /\ ~record.cleaned THEN "deployment_blocked" ELSE label
<1>1. /\ status' = final /\ pc' = "idle" /\ evidence' = EvidenceOf(final, record.same, record.cleaned)
  BY DEF ScenarioEnd, End, Go
<1>2. final = "improvement_verified" => record.cleaned
  OBVIOUS
<1>3. entry' = "scenario" /\ \A o \in Objects : live'[o] \notin {"original", "patched"}
  BY DEF FlowInv, OwnInv, Own
<1> HIDE DEF final
<1>4. EvidenceIsValid(evidence') /\ (evidence'.allowed <=> final = "improvement_verified")
  BY <1>1, <1>2, VerifiedFacts
<1>5. (ImprovementIsClean /\ ImprovementIsMeasured)'
  BY <1>1, <1>2, <1>3 DEF ImprovementIsClean, ImprovementIsMeasured
<1>6. ResidueIsBlocked'
  BY <1>3 DEF ResidueIsBlocked
<1>7. EvidenceAgrees'
  BY <1>1, <1>4 DEF EvidenceAgrees, EvidenceIsValid
<1> QED BY <1>5, <1>6, <1>7 DEF AnswerInv

(* The answer, from everything that was recorded.                          *)
LEMMA AnswerStep == RInv /\ RetestNext => AnswerInv'
<1> SUFFICES ASSUME RInv, RetestNext PROVE AnswerInv'
  OBVIOUS
<1>1. RetestTypeOK /\ FlowInv /\ OwnInv /\ ForceInv /\ DeleteInv /\ PhaseInv
  BY DEF RInv
<1>2. pc # "idle" => status = "none" /\ evidence = NoEvidence
  BY <1>1 DEF FlowInv
<1> USE DEF Go, End
<1>3. ASSUME NEW e \in {"dry_run", "live", "scenario"}, Begin(e) PROVE AnswerInv'
  <2>1. status' # "improvement_verified" /\ evidence' = NoEvidence
    BY <1>3 DEF Begin
  <2>2. \A o \in Objects : live'[o] \notin {"original", "patched"}
    BY <1>3 DEF Begin
  <2> QED BY <2>1, <2>2, QuietStep
<1>4. CASE PatchCopy \/ PrepareNamespace \/ DryRun
  <2>1. pc \in {"patch", "namespace", "dry_run"} /\ UNCHANGED <<live, evidence>>
    BY <1>4 DEF PatchCopy, PrepareNamespace, DryRun, StartDelete
  <2>2. status' # "improvement_verified"
    <3>1. CASE PatchCopy
      BY <1>2, <3>1 DEF PatchCopy
    <3>2. CASE PrepareNamespace
      BY <1>2, <3>2 DEF PrepareNamespace
    <3>3. CASE DryRun
      BY <1>2, <3>3 DEF DryRun, StartDelete
    <3> QED BY <1>4, <3>1, <3>2, <3>3
  <2>3. \A o \in Objects : live'[o] \notin {"original", "patched"}
    BY <1>1, <2>1 DEF OwnInv, Own
  <2> QED BY <1>2, <2>1, <2>2, <2>3, QuietStep
<1>5. CASE DryRunAgain \/ WaitForAvailable \/ ApplyFile \/ DeleteFile \/ Retest \/ Crash
  <2>1. status' = "none"
    <3>1. pc # "idle"
      BY <1>5 DEF DryRunAgain, WaitForAvailable, ApplyFile, DeleteFile, Retest, Crash, StartDelete
    <3>2. UNCHANGED status
      BY <1>5 DEF DryRunAgain, WaitForAvailable, ApplyFile, DeleteFile, Retest, Crash, StartDelete
    <3> QED BY <1>2, <3>1, <3>2
  <2> QED BY <2>1, QuietStep
<1>6. CASE Settle
  <2>1. /\ pc = "settle" /\ pc' = "idle" /\ status' = Settled
        /\ evidence' = IF blocked THEN NoEvidence ELSE SettledEvidence
        /\ UNCHANGED <<layout, live, entry, aimed, residue, measured>>
    BY <1>6 DEF Settle
  <2>2. CASE Settled = "deployment_blocked"
    <3>1. ~evidence'.allowed /\ EvidenceIsValid(evidence')
      <4>1. CASE blocked
        BY <2>1, <4>1, VerifiedFacts
      <4>2. CASE ~blocked /\ ~Cleaned
        BY <2>1, <4>2, VerifiedFacts DEF SettledEvidence
      <4>3. CASE ~blocked /\ Cleaned
        BY <2>1, <2>2, <4>3, VerifiedFacts DEF SettledEvidence, Settled
      <4> QED BY <4>1, <4>2, <4>3
    <3> QED BY <2>1, <2>2, <3>1
            DEF AnswerInv, ImprovementIsClean, ImprovementIsMeasured, ResidueIsBlocked, EvidenceAgrees,
                Answered, EvidenceIsValid
  <2>3. CASE Settled # "deployment_blocked"
    <3>1. ~blocked /\ Cleaned /\ Settled = Compare(baseline, after)
      BY <2>3 DEF Settled
    <3>2. DeclaredOnce(Files) /\ (\A o \in Declared : live[o] = "absent")
      BY <1>1, <2>1, <3>1 DEF DeleteInv
    <3>3. Declared' = Declared
      BY <2>1 DEF Declared, Files, Docs
    <3>4. Settled = "improvement_verified" => after.same /\ after.cleaned
      BY <3>1, VerifiedFacts
    <3>5. ImprovementIsClean'
      BY <1>1, <2>1, <3>1, <3>2, <3>3, <3>4 DEF PhaseInv, ImprovementIsClean
    <3>6. ImprovementIsMeasured'
      BY <1>1, <2>1, <3>1, <3>2 DEF ForceInv, ImprovementIsMeasured
    <3>7. ResidueIsBlocked'
      BY <1>1, <2>1, <3>2 DEF OwnInv, Own, ResidueIsBlocked
    <3>8. EvidenceIsValid(evidence') /\ (evidence'.allowed <=> Settled = "improvement_verified")
      BY <2>1, <3>1, <3>4, VerifiedFacts DEF SettledEvidence
    <3>9. EvidenceAgrees'
      BY <2>1, <3>8 DEF EvidenceAgrees, EvidenceIsValid
    <3> QED BY <3>5, <3>6, <3>7, <3>9 DEF AnswerInv
  <2> QED BY <2>2, <2>3
<1>7. CASE Validate
  <2>1. pc = "validate" /\ UNCHANGED <<live, evidence>>
    BY <1>7 DEF Validate
  <2>2. status' # "improvement_verified"
    BY <1>2, <1>7 DEF Validate
  <2>3. \A o \in Objects : live'[o] \notin {"original", "patched"}
    BY <1>1, <2>1 DEF OwnInv, Own
  <2> QED BY <1>2, <2>1, <2>2, <2>3, QuietStep
<1>8. CASE RunPhase
  <2>1. /\ pc = "phase" /\ after.same /\ (after.cleaned => ~residue) /\ after \in Records
        /\ UNCHANGED <<layout, entry, live>>
    BY <1>1, <1>8 DEF RunPhase, ScenarioEnd, PhaseInv, RetestTypeOK
  <2>2. PICK answers \in PhaseAnswers :
          /\ residue' = (residue \/ \E i \in DOMAIN answers : answers[i].left)
          /\ \/ UNCHANGED <<pc, status, evidence>>
             \/ ScenarioEnd("executed", PhaseRecord(answers))
             \/ /\ after' = [after EXCEPT !.class = "other", !.cleaned = FALSE]
                /\ \E environment \in {"blocked", "failed"} : ScenarioEnd(environment, after')
    BY <1>8 DEF RunPhase
  <2>3. CASE UNCHANGED <<pc, status, evidence>>
    BY <1>2, <2>1, <2>3, QuietStep
  <2>4. CASE ScenarioEnd("executed", PhaseRecord(answers))
    <3>1. /\ PhaseRecord(answers) \in Records /\ PhaseRecord(answers).same
          /\ PhaseRecord(answers).cleaned => ~residue'
      BY <1>1, <2>1, <2>2, PhaseRecordType, PhaseClean
    <3> QED BY <1>1, <2>1, <2>4, <3>1, ScenarioAnswer
  <2>5. ASSUME NEW environment \in {"blocked", "failed"}, ScenarioEnd(environment, after'),
               after' = [after EXCEPT !.class = "other", !.cleaned = FALSE]
        PROVE  AnswerInv'
    <3>1. after' \in Records /\ after'.same /\ ~after'.cleaned
      BY <2>1, <2>5 DEF Records, Classes
    <3> QED BY <1>1, <2>1, <2>5, <3>1, ScenarioAnswer
  <2> QED BY <2>2, <2>3, <2>4, <2>5
<1>9. CASE DryScenario
  <2>1. PICK record : record = [after EXCEPT !.cleaned = FALSE]
    OBVIOUS
  <2>2. pc = "phase" /\ UNCHANGED <<layout, entry, live>> /\ ScenarioEnd("executed", record)
    BY <1>9, <2>1 DEF DryScenario, ScenarioEnd
  <2>3. record \in Records /\ record.same /\ ~record.cleaned
    BY <1>1, <2>1, <2>2 DEF PhaseInv, RetestTypeOK, Records
  <2> QED BY <1>1, <2>2, <2>3, ScenarioAnswer
<1> QED BY <1>3, <1>4, <1>5, <1>6, <1>7, <1>8, <1>9 DEF RetestNext

LEMMA RetestInitially == RetestInit => RInv
<1> SUFFICES ASSUME RetestInit PROVE RInv
  OBVIOUS
<1> USE DEF RetestInit
<1>1. RetestTypeOK
  <2>1. proposal.file \in DOMAIN layout /\ proposal.selector \in Objects \cup {NoSelector}
    BY DEF Proposals, Files
  <2>2. live \in [Objects -> Contents]
    BY DEF Contents
  <2>3. InputTypes
    BY <2>1 DEF InputTypes
  <2>4. ClusterTypes
    BY <2>2 DEF ClusterTypes, Contents
  <2>5. ControlTypes /\ PatchTypes
    BY DEF ControlTypes, PatchTypes, Steps
  <2>6. CountTypes
    BY ImprovementAssumption DEF CountTypes
  <2>7. AnswerTypes
    BY RecordTypes DEF AnswerTypes, Statuses
  <2> QED BY <2>3, <2>4, <2>5, <2>6, <2>7, TypeParts
<1>2. FlowInv
  BY DEF FlowInv, NoPatch
<1>3. OwnInv
  BY DEF OwnInv, Own
<1>4. ForceInv /\ DeleteInv /\ PhaseInv
  BY DEF ForceInv, DeleteInv, PhaseInv
<1>5. AnswerInv
  BY DEF AnswerInv, ImprovementIsClean, ImprovementIsMeasured, ResidueIsBlocked, EvidenceAgrees, Answered
<1> QED BY <1>1, <1>2, <1>3, <1>4, <1>5 DEF RInv

LEMMA RetestStep == RInv /\ [RetestNext]_retestVars => RInv'
<1>1. RInv /\ RetestNext => RInv'
  <2> SUFFICES ASSUME RInv, RetestNext PROVE RInv'
    OBVIOUS
  <2>1. RetestTypeOK /\ FlowInv /\ OwnInv /\ ForceInv /\ DeleteInv /\ PhaseInv
    BY DEF RInv
  <2> QED BY <2>1, TypeStep, FlowStep, OwnStep, ForceStep, DeleteStep, RecordStep, AnswerStep DEF RInv
<1>2. RInv /\ UNCHANGED retestVars => RInv'
  <2> SUFFICES ASSUME RInv, UNCHANGED retestVars PROVE RInv'
    OBVIOUS
  <2> USE DEF retestVars, RInv
  <2>1. RetestTypeOK'
    BY TypeStep
  <2>2. FlowInv' /\ PhaseInv'
    BY DEF FlowInv, PhaseInv
  <2>3. OwnInv' /\ DeleteInv'
    BY DEF OwnInv, DeleteInv, Declared, DeclaredOnce, Files, Docs, Cleaned
  <2>4. ForceInv'
    BY DEF ForceInv, DeclaredOnce, PatchedObject, Files, Docs
  <2>5. AnswerInv'
    BY DEF AnswerInv, ImprovementIsClean, ImprovementIsMeasured, ResidueIsBlocked, EvidenceAgrees, Answered,
           Declared, EvidenceIsValid, Files, Docs
  <2> QED BY <2>1, <2>2, <2>3, <2>4, <2>5
<1> QED BY <1>1, <1>2

(* The invariant of a retest is kept by every step of the applying, the    *)
(* phases, the cleanup and the cluster, and by every death, for any layout *)
(* of the deployment's files (run_live_improvement,                        *)
(* deployment_transaction).                                                *)
THEOREM RetestInvariant == RetestSpec => []RInv
BY RetestInitially, RetestStep, PTL DEF RetestSpec

(* The variables of a retest keep their types.                             *)
THEOREM RetestTypes == RetestSpec => []RetestTypeOK
<1>1. RInv => RetestTypeOK
  BY DEF RInv
<1> QED BY <1>1, RetestInvariant, PTL

(* improvement_verified is said only when the retest's faults are gone     *)
(* and, of a live retest, every object of the copy is (compare_live_runs,  *)
(* the finally block of run_live_improvement).                             *)
THEOREM ImprovementsAreClean == RetestSpec => []ImprovementIsClean
<1>1. RInv => ImprovementIsClean
  BY DEF RInv, AnswerInv
<1> QED BY <1>1, RetestInvariant, PTL

(* What a live retest verifies was measured with the patch in force,       *)
(* however the documents are spread over the files and whichever of them   *)
(* repeat an object (apply_patch_copy, apply_live).                        *)
THEOREM ImprovementsAreMeasured == RetestSpec => []ImprovementIsMeasured
<1>1. RInv => ImprovementIsMeasured
  BY DEF RInv, AnswerInv
<1> QED BY <1>1, RetestInvariant, PTL

(* An answer that leaves an object of this run in the namespace is         *)
(* deployment_blocked, whichever step failed (cleanup,                     *)
(* run_live_improvement).                                                  *)
THEOREM ResidueBlocks == RetestSpec => []ResidueIsBlocked
<1>1. RInv => ResidueIsBlocked
  BY DEF RInv, AnswerInv
<1> QED BY <1>1, RetestInvariant, PTL

(* improvement_evidence.json allows an update of knowledge exactly when    *)
(* summary.json says improvement_verified, also after the cleanup has      *)
(* rewritten both.                                                         *)
THEOREM EvidenceIsTheAnswer == RetestSpec => []EvidenceAgrees
<1>1. RInv => EvidenceAgrees
  BY DEF RInv, AnswerInv
<1> QED BY <1>1, RetestInvariant, PTL
=============================================================================
