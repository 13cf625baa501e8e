------------------------ MODULE FaultExecutorsProofs ------------------------
(***************************************************************************)
(* Proofs of the safety properties of the fault executors, for any set of  *)
(* families, any number of calls on a target and any number of crashes.    *)
(*                                                                         *)
(* The argument: a call changes no field but its family's, and none before *)
(* it has tried its mutation; what it knows grows in the order of its      *)
(* steps; "cleaned" is only learned from a read-back that shows the field  *)
(* as the call found it; and whatever report says is in what is known.     *)
(***************************************************************************)
EXTENDS FaultExecutors, TLAPS

(* What is known at each step, and that nothing is reported before the     *)
(* executor answers.                                                       *)
FactsInv ==
  /\ pc = "fixture" => facts = {}
  /\ pc \in {"preflight", "baseline"} => facts \subseteq {"prepared"}
  /\ pc = "apply" => facts \subseteq {"prepared", "baseline"}
  /\ pc \in {"confirm", "observe", "restore", "verify"} => {"tried", "applied"} \subseteq facts
  /\ pc \in {"confirm", "observe", "restore"} => facts \cap {"undone", "restored"} = {}
  /\ pc \in {"confirm", "observe"} => facts \cap {"observed", "raised", "sealed"} = {}
  /\ pc \notin {"idle", "evidence", "settle"} =>
       facts \cap {"recovered", "cleaned"} = {} /\ report = NoReport
  /\ pc = "verify" => "undone" \in facts

(* The fixture: only a workflow that needs one has one, and the call knows.*)
FixtureInv ==
  /\ fixture => needsFixture
  /\ pc \notin {"idle", "fixture"} /\ needsFixture => "prepared" \in facts

(* What the target looks like while a call is on.                          *)
TargetInv ==
  /\ \A k \in Fields : origin[k] \in PristineValues(k)
  /\ trusted => before = origin
  /\ \A k \in Fields : target[k] # before[k] => fam \in Families /\ k = Field(fam)
  /\ "tried" \notin facts => target = before
  /\ pc \in {"baseline", "apply", "confirm", "observe", "restore", "verify"} => snap = before
  /\ fam \in ResourceFamilies \ {"disk_pressure"} => target = before
  /\ pc \in {"baseline", "apply", "confirm", "observe", "restore", "verify"}
       /\ fam \in HttpFamilies \cup ExtensionFamilies => before[Field(fam)] = "absent"
  /\ pc \in {"observe", "restore", "verify"} /\ fam \in ControlFamilies => before[fam] = "absent"
  /\ pc = "confirm" => fam \in ApiFamilies
  /\ pc = "observe" /\ fam \notin ResourceFamilies => target[Field(fam)] = "faulty"
  /\ pc = "verify" /\ "restored" \in facts /\ fam \in ControlFamilies \cup {"disk_pressure"} =>
       target[fam] = "absent"

(* The field of the call is as the call found it, or a pressure file that  *)
(* was there before the call is gone with it.                              *)
Undone ==
  \/ target = before
  \/ fam = "disk_pressure" /\ target[fam] = "absent"

(* What a result says is known, and what is known is so.                   *)
ReportInv ==
  /\ report.cleanup /\ "tried" \in facts => "cleaned" \in facts
  /\ report.valid => Gates \subseteq facts
  /\ pc = "idle" /\ report.valid => ~fixture
  /\ "cleaned" \in facts => Undone
  /\ "observed" \in facts /\ fam \notin ResourceFamilies => seen

IInv == TypeOK /\ FactsInv /\ FixtureInv /\ TargetInv /\ ReportInv /\ AppliedIsUndone

USE FamiliesAssumption, BoundsAssumption
USE DEF ApiAccepted, ResourceAccepted, HttpAccepted, ExtensionAccepted, DelayAccepted, ApiRestored

(* The fields: each family has one, and those a proof names are their own. *)
LEMMA FieldFacts ==
  /\ \A f \in Families : Field(f) \in Fields
  /\ \A f \in Families \cap ApiFamilies : Field(f) \in {"containers"} \cup ApiFamilies
  /\ \A f \in ControlFamilies \cup Additive \cup {"disk_pressure"} : Field(f) = f
<1>1. \A f \in Families : Field(f) \in Fields
  BY DEF Fields
<1>2. \A f \in Families \cap ApiFamilies : Field(f) \in {"containers"} \cup ApiFamilies
  BY DEF Field, ApiFamilies, HttpFamilies, ExtensionFamilies
<1>3. \A f \in ControlFamilies \cup Additive \cup {"disk_pressure"} : Field(f) = f
  BY DEF Field, ControlFamilies, Additive, HttpFamilies, ExtensionFamilies
<1> QED BY <1>1, <1>2, <1>3

(* The executors have no family in common.                                 *)
LEMMA Executors ==
  /\ Additive \subseteq ApiFamilies
  /\ "disk_pressure" \in ResourceFamilies
  /\ ApiFamilies \cap (ResourceFamilies \cup HttpFamilies \cup ExtensionFamilies \cup ControlFamilies) = {}
  /\ ResourceFamilies \cap (HttpFamilies \cup ExtensionFamilies \cup ControlFamilies) = {}
  /\ ControlFamilies \cap (HttpFamilies \cup ExtensionFamilies) = {}
  BY DEF Additive, ApiFamilies, ResourceFamilies, HttpFamilies, ExtensionFamilies, ControlFamilies

(* Setting the call's field changes no other.                              *)
LEMMA PutFacts ==
  ASSUME NEW v \in Values, fam \in Families, target \in Targets
  PROVE  /\ Put(v) \in Targets
         /\ Put(v)[Field(fam)] = v
         /\ \A k \in Fields : k # Field(fam) => Put(v)[k] = target[k]
  BY FieldFacts DEF Put, Targets

(* The target after a mutation, and after its undoing.                     *)
LEMMA AcceptedFacts ==
  ASSUME fam \in Families, target \in Targets, NEW t \in {target} \cup Accepted
  PROVE  /\ t \in Targets
         /\ \A k \in Fields : k # Field(fam) => t[k] = target[k]
         /\ fam \in ResourceFamilies \ {"disk_pressure"} => t = target
<1>1. "faulty" \in Values
  BY DEF Values
<1>2. t = target \/ t = Faulted
  BY DEF Accepted
<1>3. fam \in ResourceFamilies \ {"disk_pressure"} => t = target
  BY Executors DEF Accepted
<1> QED BY <1>1, <1>2, <1>3, PutFacts DEF Faulted

LEMMA AcceptedIsFaulty ==
  ASSUME fam \in Families, target \in Targets, NEW t \in Accepted,
         fam \notin ApiFamilies \cup ResourceFamilies
  PROVE  t[Field(fam)] = "faulty"
  BY PutFacts, Executors DEF Accepted, Faulted, Values

LEMMA RestoredFacts ==
  ASSUME fam \in Families, target \in Targets, snap \in Targets, NEW t \in {target, Restored}
  PROVE  /\ t \in Targets
         /\ \A k \in Fields : k # Field(fam) => t[k] = target[k]
         /\ fam \in ResourceFamilies \ {"disk_pressure"} => t = target
<1>1. snap[Field(fam)] \in Values /\ "absent" \in Values
  BY FieldFacts DEF Values, Targets
<1>2. t = target \/ t = Put("absent") \/ t = Put(snap[Field(fam)])
  BY DEF Restored
<1>3. fam \in ResourceFamilies \ {"disk_pressure"} => t = target
  BY Executors DEF Restored
<1> QED BY <1>1, <1>2, <1>3, PutFacts

LEMMA RestoredIsAbsent ==
  ASSUME fam \in Families, target \in Targets, fam \in ControlFamilies \cup {"disk_pressure"}
  PROVE  Restored[fam] = "absent"
<1>1. Restored = Put("absent")
  BY Executors DEF Restored
<1> QED BY <1>1, PutFacts, FieldFacts DEF Values

(* An answer claims nothing that it does not know.                         *)
LEMMA AnswerFacts ==
  ASSUME NEW known \in SUBSET Facts, report = NoReport, Answer(known)
  PROVE  /\ facts' \subseteq known /\ known \ Gates \subseteq facts'
         /\ report' \in Reports
         /\ report'.cleanup => "cleaned" \in facts'
         /\ report'.valid => Gates \subseteq facts'
<1>1. NoReport \in Reports /\ ~NoReport.cleanup /\ ~NoReport.valid
  BY DEF Reports, NoReport
<1>2. Finalized(known) \in Reports
  BY DEF Finalized, Reports
<1>3. Finalized(known).cleanup = ("cleaned" \in known) /\ Finalized(known).valid = (Gates \subseteq known)
  BY DEF Finalized
<1>4. CASE "raised" \in known
  BY <1>1, <1>4 DEF Answer, Gates
<1>5. CASE "raised" \notin known
  BY <1>1, <1>2, <1>3, <1>5 DEF Answer, Gates
<1> QED BY <1>4, <1>5

LEMMA NothingToFinalize ==
  ASSUME "cleaned" \notin facts
  PROVE  Finalized(facts) = NoReport
<1>1. ("cleaned" \in facts) = FALSE /\ (Gates \subseteq facts) = FALSE
  BY DEF Gates
<1> QED BY <1>1 DEF Finalized, NoReport

(* What was undone after a call that found the target as it was at first   *)
(* is the target as it was at first.                                       *)
LEMMA NoResidue ==
  ASSUME IInv, pc = "idle", Accounted
  PROVE  target = origin
<1>1. before = origin
  BY DEF IInv, TargetInv, Accounted
<1>2. CASE target = before
  BY <1>1, <1>2
<1>3. CASE target # before
  <2>1. "cleaned" \in facts
    BY <1>3 DEF IInv, TargetInv, ReportInv, Accounted
  <2>2. fam = "disk_pressure" /\ target[fam] = "absent"
    BY <1>3, <2>1 DEF IInv, ReportInv, Undone
  <2>3. PICK k \in Fields : target[k] # before[k]
    BY <1>3 DEF IInv, TypeOK, Targets
  <2>4. k = fam /\ k \in Fields
    BY <2>2, <2>3, FieldFacts DEF IInv, TargetInv
  <2>5. PristineValues("disk_pressure") = {"absent"}
    BY DEF PristineValues, Optional, Additive
  <2>6. origin[fam] = "absent"
    BY <2>2, <2>4, <2>5 DEF IInv, TargetInv
  <2> QED BY <1>1, <2>2, <2>3, <2>4, <2>6
<1> QED BY <1>2, <1>3

LEMMA CallStep ==
  ASSUME IInv, NEW f \in Families, Call(f)
  PROVE  IInv'
<1> USE DEF Call, IInv, TypeOK, Go, world, call, counters, history
<1>1. TypeOK'
  <2>1. report.cleanup \in BOOLEAN
    BY DEF Reports
  <2>2. trusted' \in BOOLEAN
    BY <2>1, Zenon DEF Accounted
  <2>3. NoReport \in Reports
    BY DEF Reports, NoReport
  <2>4. calls' \in 0 .. MaxCalls
    OBVIOUS
  <2>5. pc' \in Steps /\ fam' \in Families /\ facts' \subseteq Facts
    BY DEF Steps
  <2> QED BY <2>2, <2>3, <2>4, <2>5
<1>2. FactsInv'
  BY DEF FactsInv, NoReport, Gates
<1>3. FixtureInv'
  BY DEF FixtureInv, Gates
<1>4. TargetInv'
  <2>1. trusted' => target = origin
    BY NoResidue
  <2> QED BY <2>1 DEF TargetInv
<1>5. ReportInv'
  BY DEF ReportInv, FactsInv, FixtureInv, NoReport, Gates, Undone
<1>6. AppliedIsUndone'
  BY DEF AppliedIsUndone, FactsInv, Gates
<1> QED BY <1>1, <1>2, <1>3, <1>4, <1>5, <1>6

LEMMA PrepareStep ==
  ASSUME IInv, PrepareFixture
  PROVE  IInv'
<1> USE DEF PrepareFixture, IInv, TypeOK, Go, world, call, counters, history, Learn
<1>1. TypeOK'
  BY DEF Steps, Facts, Reports, NoReport
<1>2. FactsInv'
  BY DEF FactsInv, NoReport, Gates
<1>3. FixtureInv'
  BY DEF FixtureInv, Gates
<1>4. TargetInv'
  BY FieldFacts DEF TargetInv, FactsInv
<1>5. ReportInv'
  BY DEF ReportInv, FactsInv, FixtureInv, NoReport, Gates, Undone
<1>6. AppliedIsUndone'
  BY DEF AppliedIsUndone, FactsInv, Gates
<1> QED BY <1>1, <1>2, <1>3, <1>4, <1>5, <1>6

LEMMA PreflightStep ==
  ASSUME IInv, Preflight
  PROVE  IInv'
<1>0. Preflight /\ pc' = "baseline" /\ fam \in HttpFamilies \cup ExtensionFamilies => target[Field(fam)] = "absent"
  BY Executors DEF Preflight, CapabilityReady, ApiMayStart, ResourceMayStart, HttpMayStart, ExtensionMayStart,
                   DelayMayStart, Go
<1> USE DEF Preflight, IInv, TypeOK, Go, world, call, counters, history
<1>1. TypeOK'
  BY DEF Steps, Facts, Reports, NoReport
<1>2. FactsInv'
  BY DEF FactsInv, NoReport, Gates
<1>3. FixtureInv'
  BY DEF FixtureInv, Gates
<1>4. TargetInv'
  BY <1>0, FieldFacts DEF TargetInv, FactsInv
<1>5. ReportInv'
  BY DEF ReportInv, FactsInv, FixtureInv, NoReport, Gates, Undone
<1>6. AppliedIsUndone'
  BY DEF AppliedIsUndone, FactsInv, Gates
<1> QED BY <1>1, <1>2, <1>3, <1>4, <1>5, <1>6

LEMMA BaselineStep ==
  ASSUME IInv, Baseline
  PROVE  IInv'
<1> USE DEF Baseline, IInv, TypeOK, Go, world, call, counters, history, Learn
<1>1. TypeOK'
  BY DEF Steps, Facts, Reports, NoReport
<1>2. FactsInv'
  BY DEF FactsInv, NoReport, Gates
<1>3. FixtureInv'
  BY DEF FixtureInv, Gates
<1>4. TargetInv'
  BY FieldFacts DEF TargetInv, FactsInv
<1>5. ReportInv'
  BY DEF ReportInv, FactsInv, FixtureInv, NoReport, Gates, Undone
<1>6. AppliedIsUndone'
  BY DEF AppliedIsUndone, FactsInv, Gates
<1> QED BY <1>1, <1>2, <1>3, <1>4, <1>5, <1>6

LEMMA ApplyStep ==
  ASSUME IInv, Apply
  PROVE  IInv'
<1> USE DEF IInv, TypeOK, Go, counters, history, DefaultQdisc
<1>0. /\ pc = "apply" /\ fam \in Families /\ report = NoReport
      /\ facts \subseteq {"prepared", "baseline"}
      /\ target = before /\ snap = before
  BY DEF Apply, FactsInv, TargetInv
<1>1. target' \in {target} \cup Accepted
  BY DEF Apply
<1>2. /\ target' \in Targets
      /\ \A k \in Fields : k # Field(fam) => target'[k] = target[k]
      /\ fam \in ResourceFamilies \ {"disk_pressure"} => target' = target
  BY <1>0, <1>1, AcceptedFacts
<1>3. UNCHANGED <<others, needsFixture, fixture, fam, snap, counters, history>>
  BY DEF Apply
<1>4. CASE /\ pc' = IF fam \in ApiFamilies THEN "confirm" ELSE "observe"
           /\ DefaultQdisc
           /\ target' \in Accepted
           /\ Learn({"tried", "applied"} \cup IF fam \in ApiFamilies THEN {} ELSE {"injected"})
           /\ UNCHANGED report
  <2>1. pc' = "observe" /\ fam \notin ResourceFamilies => target'[Field(fam)] = "faulty"
    BY <1>0, <1>4, AcceptedIsFaulty
  <2>2. facts' \subseteq {"prepared", "baseline", "tried", "applied", "injected"} /\ {"tried", "applied"} \subseteq facts'
    BY <1>0, <1>4 DEF Learn
  <2>3. "prepared" \in facts => "prepared" \in facts'
    BY <1>4 DEF Learn
  <2>4. TypeOK'
    BY <1>0, <1>2, <1>3, <1>4, <2>2 DEF Steps, Facts
  <2>5. FactsInv'
    BY <1>0, <1>4, <2>2 DEF FactsInv
  <2>6. FixtureInv'
    BY <1>0, <1>3, <1>4, <2>3 DEF FixtureInv
  <2>7. TargetInv'
    BY <1>0, <1>2, <1>3, <1>4, <2>1, <2>2, Executors DEF TargetInv
  <2>8. ReportInv'
    BY <1>0, <1>4, <2>2 DEF ReportInv, NoReport
  <2>9. AppliedIsUndone'
    BY <1>4 DEF AppliedIsUndone
  <2> QED BY <2>4, <2>5, <2>6, <2>7, <2>8, <2>9
<1>5. CASE pc' = "evidence" /\ (Answer(facts \cup {"tried"}) \/ (Answer(facts) /\ UNCHANGED target))
  <2>1. PICK known \in SUBSET Facts : /\ Answer(known)
                                      /\ facts \subseteq known /\ known \subseteq facts \cup {"tried"}
                                      /\ "tried" \notin known => target' = target
    BY <1>0, <1>5 DEF Facts
  <2>2. /\ facts' \subseteq known /\ known \ Gates \subseteq facts'
        /\ report' \in Reports
        /\ report'.cleanup => "cleaned" \in facts'
        /\ report'.valid => Gates \subseteq facts'
    BY <1>0, <2>1, AnswerFacts
  <2>3. facts' \subseteq {"prepared", "baseline", "tried"}
    BY <1>0, <2>1, <2>2
  <2>4. TypeOK'
    BY <1>0, <1>2, <1>3, <1>5, <2>2, <2>3 DEF Steps, Facts
  <2>5. FactsInv'
    BY <1>5 DEF FactsInv
  <2>6. FixtureInv'
    BY <1>0, <1>3, <1>5, <2>1, <2>2 DEF FixtureInv, Gates
  <2>7. TargetInv'
    BY <1>0, <1>2, <1>3, <1>5, <2>1, <2>2 DEF TargetInv, Gates
  <2>8. ReportInv'
    BY <1>5, <2>2, <2>3 DEF ReportInv
  <2>9. AppliedIsUndone'
    BY <1>5, <2>3 DEF AppliedIsUndone
  <2> QED BY <2>4, <2>5, <2>6, <2>7, <2>8, <2>9
<1> QED BY <1>4, <1>5 DEF Apply

LEMMA ConfirmStep ==
  ASSUME IInv, Confirm
  PROVE  IInv'
<1> USE DEF IInv, TypeOK, Go, world, counters, history
<1>0. /\ pc = "confirm" /\ report = NoReport /\ report' = NoReport
      /\ facts' = facts \cup {"injected"} \/ facts' = facts \cup {"sealed"}
      /\ pc' = "observe" => facts' = facts \cup {"injected"}
      /\ pc' = "observe" => target[Field(fam)] = "faulty"
      /\ pc' \in {"observe", "restore"}
      /\ UNCHANGED <<world, fam, snap, counters, history>>
  BY NothingToFinalize DEF Confirm, FactsInv, Learn
<1> HIDE DEF Go
<1>1. TypeOK'
  BY <1>0 DEF Steps, Facts
<1>2. FactsInv'
  BY <1>0 DEF FactsInv
<1>3. FixtureInv'
  BY <1>0 DEF FixtureInv
<1>4. TargetInv'
  BY <1>0, Executors DEF TargetInv, FactsInv
<1>5. ReportInv'
  BY <1>0 DEF ReportInv, FactsInv, NoReport, Undone
<1>6. AppliedIsUndone'
  BY <1>0 DEF AppliedIsUndone
<1> QED BY <1>1, <1>2, <1>3, <1>4, <1>5, <1>6

LEMMA ObserveStep ==
  ASSUME IInv, Observe
  PROVE  IInv'
<1> USE DEF Observe, IInv, TypeOK, Go, world, call, counters, history, Learn
<1>1. TypeOK'
  BY DEF Steps, Facts, Reports, NoReport
<1>2. FactsInv'
  BY DEF FactsInv, NoReport, Gates
<1>3. FixtureInv'
  BY DEF FixtureInv, Gates
<1>4. TargetInv'
  BY FieldFacts DEF TargetInv, FactsInv
<1>5. ReportInv'
  <2>1. "observed" \in facts' /\ fam' \notin ResourceFamilies => seen'
    BY DEF TargetInv, FactsInv
  <2>2. "cleaned" \notin facts' /\ report' = NoReport
    BY DEF FactsInv
  <2> QED BY <2>1, <2>2 DEF ReportInv, NoReport
<1>6. AppliedIsUndone'
  BY DEF AppliedIsUndone, FactsInv, Gates
<1> QED BY <1>1, <1>2, <1>3, <1>4, <1>5, <1>6

LEMMA RestoreStep ==
  ASSUME IInv, Restore
  PROVE  IInv'
<1> USE DEF IInv, TypeOK, Go, counters, history
<1>0. /\ pc = "restore" /\ pc' = "verify" /\ fam \in Families
      /\ target' \in {target, Restored}
      /\ "restored" \in facts' => target' = Restored
      /\ facts \cup {"undone"} \subseteq facts' /\ facts' \subseteq facts \cup {"undone", "restored"}
      /\ UNCHANGED <<others, needsFixture, fixture, fam, snap, report, counters, history>>
  BY DEF Restore, Learn, FactsInv
<1>a. /\ target' \in Targets
      /\ \A k \in Fields : k # Field(fam) => target'[k] = target[k]
      /\ fam \in ResourceFamilies \ {"disk_pressure"} => target' = target
  BY <1>0, RestoredFacts
<1>b. "restored" \in facts' /\ fam \in ControlFamilies \cup {"disk_pressure"} => target'[fam] = "absent"
  BY <1>0, RestoredIsAbsent
<1> HIDE DEF Go
<1>1. TypeOK'
  BY <1>0, <1>a DEF Steps, Facts
<1>2. FactsInv'
  BY <1>0 DEF FactsInv
<1>3. FixtureInv'
  BY <1>0 DEF FixtureInv
<1>4. TargetInv'
  BY <1>0, <1>a, <1>b, FieldFacts DEF TargetInv, FactsInv
<1>5. ReportInv'
  BY <1>0 DEF ReportInv, FactsInv, NoReport
<1>6. AppliedIsUndone'
  BY <1>0 DEF AppliedIsUndone
<1> QED BY <1>1, <1>2, <1>3, <1>4, <1>5, <1>6

(* A read-back that succeeds shows the field as the call found it.         *)
LEMMA VerifiedIsUndone ==
  ASSUME IInv, pc = "verify", VerifiedNow
  PROVE  Undone
<1> USE DEF IInv, TypeOK
<1>0. /\ fam \in Families /\ snap = before /\ "restored" \in facts /\ ReadsBack
      /\ \A k \in Fields : target[k] # before[k] => k = Field(fam)
      /\ target \in Targets /\ before \in Targets
  BY DEF VerifiedNow, TargetInv
<1>1. Field(fam) \in Fields /\ (target[Field(fam)] = before[Field(fam)] => target = before)
  BY <1>0, FieldFacts DEF Targets
<1>2. CASE fam \in ApiFamilies
  <2>1. \A k \in Fields \cap ({"containers"} \cup ApiFamilies) : target[k] = snap[k]
    BY <1>0, <1>2, Executors, Zenon DEF ReadsBack
  <2>2. Field(fam) \in Fields \cap ({"containers"} \cup ApiFamilies)
    BY <1>0, <1>2, FieldFacts
  <2> QED BY <1>0, <1>1, <2>1, <2>2 DEF Undone
<1>3. CASE fam \in HttpFamilies \cup ExtensionFamilies
  <2>1. target[Field(fam)] = "absent"
    BY <1>0, <1>3, Executors DEF ReadsBack
  <2> QED BY <1>1, <1>3, <2>1 DEF TargetInv, Undone
<1>4. CASE fam \in ControlFamilies \cup {"disk_pressure"}
  BY <1>0, <1>1, <1>4, FieldFacts DEF TargetInv, Undone
<1>5. CASE fam \in ResourceFamilies \ {"disk_pressure"}
  BY <1>5 DEF TargetInv, Undone
<1> QED BY <1>0, <1>2, <1>3, <1>4, <1>5, FamiliesAssumption DEF AllFamilies

LEMMA VerifyStep ==
  ASSUME IInv, Verify
  PROVE  IInv'
<1> USE DEF IInv, TypeOK, Go, world, counters, history
<1>0. /\ pc = "verify" /\ pc' = "evidence" /\ fam \in Families /\ report = NoReport
      /\ {"tried", "applied", "undone"} \subseteq facts
      /\ "cleaned" \notin facts
      /\ UNCHANGED <<world, fam, snap, counters, history>>
  BY DEF Verify, FactsInv
<1>a. PICK known \in SUBSET Facts :
        /\ Answer(known)
        /\ facts \subseteq known /\ known \subseteq facts \cup {"raised", "recovered", "cleaned"}
        /\ "cleaned" \in known => VerifiedNow
  <2>1. PICK new \in SUBSET {"raised", "recovered", "cleaned"} :
          Answer(facts \cup new) /\ ("cleaned" \in new => VerifiedNow)
    <3>1. \/ \E new \in {{}, {"recovered"}} : Answer(facts \cup new)
          \/ VerifiedNow /\ \E new \in {{"cleaned"}, {"cleaned", "recovered"}, {"cleaned", "raised"}} :
                              Answer(facts \cup new)
      <4>1. facts = facts \cup {} /\ {"recovered", "cleaned"} = {"cleaned", "recovered"}
        OBVIOUS
      <4>2. CASE ApiVerify
        BY <4>1, <4>2 DEF ApiVerify
      <4>3. CASE ResourceVerify
        BY <4>1, <4>3 DEF ResourceVerify
      <4>4. CASE HttpVerify
        BY <4>1, <4>4 DEF HttpVerify
      <4>5. CASE ExtensionVerify
        BY <4>1, <4>5 DEF ExtensionVerify
      <4>6. CASE DelayVerify
        BY <4>1, <4>6 DEF DelayVerify
      <4> QED BY <4>2, <4>3, <4>4, <4>5, <4>6 DEF Verify
    <3>2. ASSUME NEW new \in {{}, {"recovered"}}, Answer(facts \cup new)
          PROVE  new \in SUBSET {"raised", "recovered", "cleaned"} /\ ("cleaned" \in new => VerifiedNow)
      BY <3>2
    <3>3. ASSUME NEW new \in {{"cleaned"}, {"cleaned", "recovered"}, {"cleaned", "raised"}}
          PROVE  new \in SUBSET {"raised", "recovered", "cleaned"}
      BY <3>3
    <3> QED BY <3>1, <3>2, <3>3
  <2>2. facts \cup new \in SUBSET Facts
    BY DEF Facts
  <2> QED BY <1>0, <2>1, <2>2
<1>b. /\ facts' \subseteq known /\ known \ Gates \subseteq facts'
      /\ report' \in Reports
      /\ report'.cleanup => "cleaned" \in facts'
      /\ report'.valid => Gates \subseteq facts'
  BY <1>0, <1>a, AnswerFacts
<1>c. "cleaned" \in facts' => Undone
  BY <1>0, <1>a, <1>b, VerifiedIsUndone
<1>d. {"tried", "applied", "undone"} \subseteq facts' /\ ("prepared" \in facts => "prepared" \in facts')
  BY <1>0, <1>a, <1>b DEF Gates
<1>e. "observed" \in facts' => "observed" \in facts
  BY <1>a, <1>b
<1> HIDE DEF Go
<1>1. TypeOK'
  BY <1>0, <1>a, <1>b DEF Steps
<1>2. FactsInv'
  BY <1>0 DEF FactsInv
<1>3. FixtureInv'
  BY <1>0, <1>d DEF FixtureInv
<1>4. TargetInv'
  BY <1>0, <1>d DEF TargetInv
<1>5. ReportInv'
  BY <1>0, <1>b, <1>c, <1>e DEF ReportInv, Undone
<1>6. AppliedIsUndone'
  BY <1>0, <1>d DEF AppliedIsUndone
<1> QED BY <1>1, <1>2, <1>3, <1>4, <1>5, <1>6

LEMMA EvidenceStep ==
  ASSUME IInv, CollectEvidence
  PROVE  IInv'
<1> USE DEF CollectEvidence, IInv, TypeOK, Go, world, call, counters, history
<1>1. TypeOK'
  BY DEF Steps, Facts, Reports, NoReport
<1>2. FactsInv'
  BY DEF FactsInv, NoReport, Gates
<1>3. FixtureInv'
  BY DEF FixtureInv, Gates
<1>4. TargetInv'
  BY FieldFacts DEF TargetInv, FactsInv
<1>5. ReportInv'
  <2>1. report'.valid = report.valid /\ report'.cleanup = report.cleanup
    BY DEF Reports
  <2> QED BY <2>1 DEF ReportInv, Undone
<1>6. AppliedIsUndone'
  BY DEF AppliedIsUndone, FactsInv, Gates
<1> QED BY <1>1, <1>2, <1>3, <1>4, <1>5, <1>6

LEMMA SettleStep ==
  ASSUME IInv, SettleFixture
  PROVE  IInv'
<1> USE DEF IInv, TypeOK, Go, counters, history
<1>0. /\ pc = "settle" /\ pc' = "idle" /\ fam \in Families
      /\ UNCHANGED <<target, others, needsFixture, fam, snap, facts, counters, history>>
  BY DEF SettleFixture
<1>a. \A clean \in BOOLEAN :
        /\ WithBusiness(clean) \in Reports
        /\ WithBusiness(clean).cleanup => "cleaned" \in facts
        /\ WithBusiness(clean).valid => report.valid /\ clean
  BY DEF WithBusiness, Reports, NoReport
<1>b. "prepared" \notin facts => ~fixture
  BY <1>0 DEF FixtureInv
<1>c. /\ report' \in Reports /\ fixture' \in BOOLEAN
      /\ report'.cleanup => report.cleanup \/ "cleaned" \in facts
      /\ report'.valid => report.valid /\ ~fixture'
      /\ fixture' => fixture
  <2>1. CASE "prepared" \notin facts /\ UNCHANGED <<fixture, report>>
    BY <1>b, <2>1
  <2>2. CASE fixture' = FALSE /\ report' = WithBusiness(TRUE)
    BY <1>a, <2>2
  <2>3. CASE fixture' \in {fixture, FALSE} /\ report' = WithBusiness(FALSE)
    <3>1. ~WithBusiness(FALSE).valid /\ WithBusiness(FALSE) \in Reports
      BY <1>a
    <3>2. fixture' = fixture \/ fixture' = FALSE
      BY <2>3
    <3>3. fixture' \in BOOLEAN /\ (fixture' => fixture)
      <4>1. CASE fixture' = fixture
        BY <4>1, Zenon
      <4>2. CASE fixture' = FALSE
        BY <4>2
      <4> QED BY <3>2, <4>1, <4>2
    <3> QED BY <1>a, <2>3, <3>1, <3>3
  <2> QED BY <2>1, <2>2, <2>3 DEF SettleFixture
<1> HIDE DEF Go
<1>1. TypeOK'
  BY <1>0, <1>c DEF Steps
<1>2. FactsInv'
  BY <1>0 DEF FactsInv
<1>3. FixtureInv'
  BY <1>0, <1>c DEF FixtureInv
<1>4. TargetInv'
  BY <1>0 DEF TargetInv
<1>5. ReportInv'
  BY <1>0, <1>c DEF ReportInv, Undone
<1>6. AppliedIsUndone'
  BY <1>0 DEF AppliedIsUndone
<1> QED BY <1>1, <1>2, <1>3, <1>4, <1>5, <1>6

LEMMA CrashStep ==
  ASSUME IInv, Crash
  PROVE  IInv'
<1> USE DEF Crash, IInv, TypeOK, Go, world, call, counters, history
<1>1. TypeOK'
  BY DEF Steps, Facts, Reports, NoReport
<1>2. FactsInv'
  BY DEF FactsInv, NoReport, Gates
<1>3. FixtureInv'
  BY DEF FixtureInv, Gates
<1>4. TargetInv'
  BY FieldFacts DEF TargetInv, FactsInv
<1>5. ReportInv'
  BY DEF ReportInv, FactsInv, FixtureInv, NoReport, Gates, Undone
<1>6. AppliedIsUndone'
  BY DEF AppliedIsUndone, FactsInv, Gates
<1> QED BY <1>1, <1>2, <1>3, <1>4, <1>5, <1>6

LEMMA InitInv == Init => IInv
<1> SUFFICES ASSUME Init PROVE IInv
  OBVIOUS
<1>1. TypeOK
  <2>1. NoReport \in Reports
    BY DEF Reports, NoReport
  <2>2. target \in Targets /\ others \subseteq Additive
    BY DEF Init
  <2>3. snap \in Targets /\ origin \in Targets /\ before \in Targets
    BY <2>2 DEF Init
  <2>4. calls \in 0 .. MaxCalls /\ crashes \in 0 .. MaxCrashes
    BY DEF Init
  <2>5. pc = "idle" /\ pc \in Steps /\ fam \in Families \cup {NoFamily} /\ facts \subseteq Facts
    BY DEF Init, Steps
  <2>6. report \in Reports /\ needsFixture \in BOOLEAN /\ fixture \in BOOLEAN /\ seen \in BOOLEAN /\ trusted \in BOOLEAN
    BY <2>1 DEF Init
  <2> QED BY <2>2, <2>3, <2>4, <2>5, <2>6 DEF TypeOK
<1>2. FactsInv /\ FixtureInv /\ AppliedIsUndone
  BY DEF Init, FactsInv, FixtureInv, AppliedIsUndone
<1>3. NoFamily \notin ResourceFamilies \cup HttpFamilies \cup ExtensionFamilies \cup ControlFamilies
  BY DEF NoFamily, ResourceFamilies, HttpFamilies, ExtensionFamilies, ControlFamilies
<1>4. TargetInv
  BY <1>3 DEF Init, TargetInv
<1>5. ReportInv
  BY DEF Init, ReportInv, NoReport
<1> QED BY <1>1, <1>2, <1>4, <1>5 DEF IInv

(* No step leaves the inductive invariant.                                 *)
LEMMA NextInv == IInv /\ [Next]_vars => IInv'
<1> SUFFICES ASSUME IInv, [Next]_vars PROVE IInv'
  OBVIOUS
<1>1. CASE Step
  BY <1>1, PrepareStep, PreflightStep, BaselineStep, ApplyStep, ConfirmStep, ObserveStep,
     RestoreStep, VerifyStep, EvidenceStep, SettleStep DEF Step
<1>2. CASE UNCHANGED vars
  BY <1>2 DEF vars, world, call, counters, history, IInv, TypeOK, FactsInv, FixtureInv, TargetInv,
              ReportInv, Undone, AppliedIsUndone
<1> QED BY <1>1, <1>2, CallStep, CrashStep DEF Next

(* The inductive invariant of the executors: what a call knows at each of  *)
(* its steps, what it has changed by then, and what its report may say.    *)
THEOREM ExecutorInvariant == Spec => []IInv
BY InitInv, NextInv, PTL DEF Spec

(* The variables keep their types (the fields of the results of the        *)
(* executors, and the steps of their calls).                               *)
THEOREM ExecutorTypes == Spec => []TypeOK
<1>1. IInv => TypeOK
  BY DEF IInv
<1> QED BY <1>1, ExecutorInvariant, PTL

(* No executor calls clean what it has not undone: while every call that   *)
(* tried its mutation has reported a clean end, the target is as it was.   *)
THEOREM ResidueIsReported == Spec => []NoSilentResidue
<1>1. IInv => NoSilentResidue
  BY NoResidue DEF NoSilentResidue
<1> QED BY <1>1, ExecutorInvariant, PTL

(* A mutation that was acknowledged is undone before its call answers.     *)
THEOREM AppliedMutationsAreUndone == Spec => []AppliedIsUndone
<1>1. IInv => AppliedIsUndone
  BY DEF IInv
<1> QED BY <1>1, ExecutorInvariant, PTL

(* A call with a valid attestation has left neither a fixture nor a field  *)
(* that it changed.                                                        *)
THEOREM AttestedCallsAreClean == Spec => []AttestedIsClean
<1>1. ASSUME IInv, pc = "idle", report.valid PROVE ~fixture
  BY <1>1 DEF IInv, ReportInv
<1>2. ASSUME IInv, report.valid, NEW k \in Fields, target[k] # origin[k] PROVE before[k] # origin[k]
  <2>1. Undone
    BY <1>2 DEF IInv, ReportInv, Gates
  <2>2. CASE target = before
    BY <1>2, <2>2
  <2>3. CASE fam = "disk_pressure" /\ target[fam] = "absent" /\ target # before
    <3>1. CASE k = fam
      <4>1. PristineValues("disk_pressure") = {"absent"}
        BY DEF PristineValues, Optional, Additive
      <4>2. k = "disk_pressure" /\ origin[k] \in PristineValues(k)
        BY <1>2, <2>3, <3>1 DEF IInv, TargetInv
      <4>3. origin[k] = "absent"
        BY <4>1, <4>2
      <4> QED BY <1>2, <2>3, <3>1, <4>3
    <3>2. CASE k # fam
      BY <1>2, <2>3, <3>2, FieldFacts DEF IInv, TargetInv
    <3> QED BY <3>1, <3>2
  <2> QED BY <2>1, <2>2, <2>3 DEF Undone
<1>3. IInv => AttestedIsClean
  BY <1>1, <1>2 DEF AttestedIsClean
<1> QED BY <1>3, ExecutorInvariant, PTL

(* A valid attestation of any executor but the resource one is that of a   *)
(* fault that was on the target while the business was observed.           *)
THEOREM AttestedFaultsAreReal == Spec => []AttestedIsReal
<1>1. IInv => AttestedIsReal
  BY DEF IInv, ReportInv, Gates, AttestedIsReal
<1> QED BY <1>1, ExecutorInvariant, PTL

(* build_mutation()'s patches are reversible: but for a key that an        *)
(* additive family adds to a map with other keys, a restore patch that is  *)
(* applied to what the patch made of the snapshot gives the snapshot back. *)
THEOREM PatchesAreReversible ==
  ASSUME fam \in Families \cap ApiFamilies, snap \in Targets, target \in Targets,
         \A k \in Fields : k # Field(fam) => target[k] = snap[k],
         snap[Field(fam)] = "absent" => fam \notin Additive \cap others
  PROVE  Restored = snap
<1>1. snap[Field(fam)] \in Values /\ Field(fam) \in Fields
  BY FieldFacts DEF Targets
<1>2. Restored = Put(snap[Field(fam)])
  BY FieldFacts, Executors DEF Restored
<1>3. \A k \in Fields : Restored[k] = snap[k]
  BY <1>1, <1>2, PutFacts
<1>4. Restored \in Targets
  BY <1>1, <1>2, PutFacts
<1> QED BY <1>3, <1>4 DEF Targets
=============================================================================
