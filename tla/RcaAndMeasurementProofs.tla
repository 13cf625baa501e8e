---------------------- MODULE RcaAndMeasurementProofs -----------------------
(***************************************************************************)
(* Proofs about what is concluded from experiments, for any values of the  *)
(* constants: the rounds of the root-cause loop, and one measurement with  *)
(* its verdicts, which implements the lifecycle that a batch relies on.    *)
(* The two have no state in common.                                        *)
(*                                                                         *)
(* The loop: a case file is either a first case or what Ingest() made of a *)
(* good one; Ingest() turns good cases into good cases that keep what they *)
(* were made from. Everything else a round does copies cases.              *)
(*                                                                         *)
(* The measurement: behind the gate the name is free, so that the object   *)
(* that is there later is this experiment's own; what is counted as        *)
(* injected has hit a Pod, what is recorded as recovered or removed was so *)
(* when it was read and nothing takes it back; and the verdicts ask for    *)
(* these records.                                                          *)
(***************************************************************************)
EXTENDS RcaLoop, MeasurementRefinement, FiniteSetTheorems, TLAPS

(* A confirmed hypothesis is proved; reusable knowledge is uncontradicted. *)
Earned(c, case) ==
    \A h \in Hyps(c) : case.status[h] = "confirmed" =>
        Complete(c, h, case.refs) /\ ~Refuted(h, case.refs)

Reusable(c, case) ==
    case.knowledge \in {"local_reusable", "cross_project_reusable"} =>
        /\ case.rca \in {"bounded", "confirmed"}
        /\ \A h \in Hyps(c) : case.against[h] = {}

Good(c, case) ==
    /\ CaseOK(c, case)
    /\ Earned(c, case)
    /\ Reusable(c, case)
    /\ case.promoted => case.knowledge = "local_reusable"

(* What a round keeps of the case it was made from.                        *)
Keeps(c, old, new) ==
    /\ old.refs \subseteq new.refs
    /\ old.done \subseteq new.done
    /\ \A h \in Hyps(c) :
          /\ old.against[h] \subseteq new.against[h]
          /\ old.status[h] = "rejected" => new.status[h] = "rejected"

DraftStates == {"none", "provisional", "local_reusable", "contested"}

IInv ==
    /\ stage \in Stages
    /\ live \in BOOLEAN
    /\ available \in Settings \cup {{}}
    /\ drafts \in [Cases -> DraftStates]
    /\ DOMAIN base = Cases /\ DOMAIN work = Cases
    /\ \A c \in Cases :
          /\ Good(c, base[c])
          /\ work[c] # NoCase => Good(c, work[c]) /\ Keeps(c, base[c], work[c])
          /\ stage = "cases" => drafts[c] = "none"
          /\ drafts[c] = "local_reusable" => work[c].knowledge = "local_reusable"
          /\ stage \in Written \cup {"manifest", "drafts"} => work[c] # NoCase

LEMMA CasesAreFamilies == Cases \subseteq Families
BY RcaAssumption DEF Cases

-----------------------------------------------------------------------------
(* The gates.                                                              *)

(* A status moves to the target or stays.                                  *)
LEMMA NextRcaChoice ==
  ASSUME NEW current, NEW target, NEW fact
  PROVE  NextRca(current, target, fact) \in {current, target}
BY DEF NextRca

(* Confirmation is for complete and uncontradicted claims, rejection needs *)
(* a contradiction, and nothing that is rejected comes back by itself.     *)
LEMMA NextRcaGate ==
  ASSUME NEW current \in RCA_STATES, NEW target \in RCA_STATES, NEW fact,
         NextRca(current, target, fact) # current
  PROVE  /\ NextRca(current, target, fact) = target
         /\ target = "confirmed" => ~fact.contradiction /\ fact.complete
         /\ target = "rejected" => fact.contradiction
         /\ current = "rejected" => target = "pending"
BY DEF NextRca, RcaAllowed, RCA_TRANSITIONS, RCA_STATES

(* A card becomes reusable, or stays so, only without a contradiction.     *)
LEMMA NextKnowledgeGate ==
  ASSUME NEW current \in KNOWLEDGE_STATES, NEW fact,
         fact.weakness \in {"candidate", "confirmed"}
  PROVE  /\ NextKnowledge(current, fact) \in KNOWLEDGE_STATES
         /\ NextKnowledge(current, fact) \in {"local_reusable", "cross_project_reusable"} =>
               /\ ~fact.contradiction
               /\ current \in {"local_reusable", "cross_project_reusable"}
                  \/ fact.rca \in {"bounded", "confirmed"}
BY DEF NextKnowledge, KNOWLEDGE_STATES, Reproduced

(* More evidence proves no less.                                           *)
LEMMA CompleteGrows ==
  ASSUME NEW c, NEW h, NEW refs, NEW more, refs \subseteq more, Complete(c, h, refs)
  PROVE  Complete(c, h, more)
BY DEF Complete, Met, Supporting, Relevant

LEMMA AddItemsKeeps ==
  ASSUME NEW refs, NEW evidence
  PROVE  refs \subseteq AddItems(refs, evidence)
BY DEF AddItems

-----------------------------------------------------------------------------
(* Hypotheses and cases after an accepted result.                          *)

LEMMA HypothesisStep ==
  ASSUME NEW c, NEW h, NEW case, NEW r, NEW refs, case.status[h] \in RCA_STATES,
         case.refs \subseteq refs,
         case.status[h] = "confirmed" => Complete(c, h, case.refs)
  PROVE  /\ NextHypothesis(c, h, case, refs, r) \in RCA_STATES
         /\ case.status[h] = "rejected" => NextHypothesis(c, h, case, refs, r) = "rejected"
         /\ NextHypothesis(c, h, case, refs, r) = "confirmed" =>
               Complete(c, h, refs) /\ ~Refuted(h, refs)
<1> DEFINE for == case.for[h] \cup Ids(Supporting(Relevant(h, r.evidence)))
           fact == [support |-> for # {},
                    complete |-> Complete(c, h, refs),
                    discriminating |-> r.discriminating,
                    contradiction |-> r.contradiction \/ Refuted(h, refs)]
           target == IF fact.contradiction THEN "rejected"
                     ELSE IF fact.complete /\ fact.discriminating THEN "confirmed"
                     ELSE IF fact.support THEN "bounded"
                     ELSE case.status[h]
           next == NextRca(case.status[h], target, fact)
<1>0. next = NextHypothesis(c, h, case, refs, r)
  BY DEF NextHypothesis
<1>1. /\ fact.complete = Complete(c, h, refs)
      /\ fact.contradiction = (r.contradiction \/ Refuted(h, refs))
  OBVIOUS
<1>2. target \in RCA_STATES /\ (target = "pending" => case.status[h] = "pending")
  BY DEF RCA_STATES
<1>3. next \in {case.status[h], target}
  BY NextRcaChoice
<1>4. next # case.status[h] =>
         /\ next = target
         /\ target = "confirmed" => ~fact.contradiction /\ fact.complete
         /\ case.status[h] = "rejected" => target = "pending"
  <2> HIDE DEF target, fact
  <2> QED BY <1>2, NextRcaGate DEF next
<1>5. case.status[h] = "confirmed" /\ Refuted(h, refs) => next = "rejected"
  <2> SUFFICES ASSUME case.status[h] = "confirmed", Refuted(h, refs) PROVE next = "rejected"
    OBVIOUS
  <2>1. target = "rejected" /\ fact.contradiction
    BY <1>1
  <2> HIDE DEF fact, target
  <2>2. RcaAllowed(case.status[h], target, fact)
    BY <2>1 DEF RcaAllowed, RCA_TRANSITIONS
  <2> QED BY <2>1, <2>2 DEF NextRca
<1>6. Complete(c, h, case.refs) => Complete(c, h, refs)
  BY CompleteGrows
<1> HIDE DEF next, target, fact
<1> QED BY <1>0, <1>1, <1>2, <1>3, <1>4, <1>5, <1>6

(* The case itself is rejected only by the verdict of the result.          *)
LEMMA CaseStep ==
  ASSUME NEW c, NEW case, NEW status, NEW r, case.rca \in RCA_STATES
  PROVE  /\ NextCaseRca(c, case, status, r) \in RCA_STATES
         /\ case.rca \in {"bounded", "confirmed"} /\ ~r.contradiction =>
               NextCaseRca(c, case, status, r) \in {"bounded", "confirmed"}
<1> DEFINE target == IF r.contradiction THEN "rejected"
                     ELSE IF \A h \in Hyps(c) : status[h] = "confirmed" THEN "confirmed"
                     ELSE IF \A h \in Hyps(c) : status[h] = "rejected" THEN "rejected"
                     ELSE "bounded"
           fact == [support |-> Supporting(r.evidence) # {}, complete |-> target = "confirmed",
                    discriminating |-> r.discriminating, contradiction |-> r.contradiction]
           next == NextRca(case.rca, target, fact)
<1>1. next = NextCaseRca(c, case, status, r)
  BY DEF NextCaseRca
<1>2. target \in {"rejected", "confirmed", "bounded"} /\ fact.contradiction = r.contradiction
  OBVIOUS
<1>3. next \in {case.rca, target}
  BY NextRcaChoice
<1>4. next # case.rca => next = target /\ (target = "rejected" => fact.contradiction)
  <2>1. target \in RCA_STATES
    BY <1>2 DEF RCA_STATES
  <2> HIDE DEF target, fact
  <2> QED BY <2>1, NextRcaGate DEF next
<1> HIDE DEF next, target, fact
<1> QED BY <1>1, <1>2, <1>3, <1>4 DEF RCA_STATES

LEMMA IngestAcceptedGood ==
  ASSUME NEW c \in Cases, NEW case, NEW a, NEW r, Good(c, case), r.contradiction \in BOOLEAN
  PROVE  /\ Good(c, IngestAccepted(c, case, a, r))
         /\ Keeps(c, case, IngestAccepted(c, case, a, r))
<1> DEFINE refs == AddItems(case.refs, r.evidence)
           against == [h \in Hyps(c) |->
                         case.against[h] \cup Ids(Against(Relevant(h, r.evidence)))]
           status == [h \in Hyps(c) |-> NextHypothesis(c, h, case, refs, r)]
           rca == NextCaseRca(c, case, status, r)
           fact == PromotionFact(c, rca, against, r)
           new == IngestAccepted(c, case, a, r)
<1>1. /\ new.rca = rca /\ new.refs = refs /\ new.status = status /\ new.against = against
      /\ new.knowledge = NextKnowledge(case.knowledge, fact)
      /\ new.promoted = (new.knowledge = "local_reusable" /\ case.knowledge = "provisional")
      /\ new.done = case.done \cup {a.id}
  BY DEF IngestAccepted
<1>2. case.refs \subseteq refs
  BY AddItemsKeeps
<1>3. /\ case.rca \in RCA_STATES /\ case.knowledge \in KNOWLEDGE_STATES
      /\ \A h \in Hyps(c) : case.status[h] \in RCA_STATES
      /\ \A h \in Hyps(c) : case.status[h] = "confirmed" => Complete(c, h, case.refs)
      /\ Reusable(c, case)
  BY DEF Good, CaseOK, Earned
<1>4. \A h \in Hyps(c) :
         /\ status[h] \in RCA_STATES
         /\ case.status[h] = "rejected" => status[h] = "rejected"
         /\ status[h] = "confirmed" => Complete(c, h, refs) /\ ~Refuted(h, refs)
  <2> TAKE h \in Hyps(c)
  <2>1. status[h] = NextHypothesis(c, h, case, refs, r)
    OBVIOUS
  <2> HIDE DEF refs, status
  <2> QED BY <1>2, <1>3, <2>1, HypothesisStep
<1>5. /\ rca \in RCA_STATES
      /\ case.rca \in {"bounded", "confirmed"} /\ ~r.contradiction =>
            rca \in {"bounded", "confirmed"}
  <2> HIDE DEF status
  <2> QED BY <1>3, CaseStep
<1>6. /\ fact.weakness \in {"candidate", "confirmed"}
      /\ fact.rca = rca
      /\ fact.contradiction = (r.contradiction \/ \E h \in Hyps(c) : against[h] # {})
  <2> HIDE DEF rca, against
  <2> QED BY DEF PromotionFact, Weakness
<1>7. /\ new.knowledge \in KNOWLEDGE_STATES
      /\ new.knowledge \in {"local_reusable", "cross_project_reusable"} =>
            /\ ~fact.contradiction
            /\ case.knowledge \in {"local_reusable", "cross_project_reusable"}
               \/ fact.rca \in {"bounded", "confirmed"}
  <2> HIDE DEF fact, new
  <2> QED BY <1>1, <1>3, <1>6, NextKnowledgeGate
<1>8. \A h \in Hyps(c) : case.against[h] \subseteq against[h]
  OBVIOUS
<1>9. status \in [Hyps(c) -> RCA_STATES]
  BY <1>4
<1> HIDE DEF refs, against, status, rca, fact, new
<1>10. Reusable(c, new)
  BY <1>1, <1>3, <1>5, <1>6, <1>7 DEF Reusable
<1>11. CaseOK(c, new) /\ Earned(c, new)
  BY <1>1, <1>4, <1>5, <1>7, <1>9 DEF CaseOK, Earned
<1>12. Keeps(c, case, new)
  BY <1>1, <1>2, <1>4, <1>8 DEF Keeps
<1> QED BY <1>1, <1>10, <1>11, <1>12 DEF Good, new

(* The item of a dry run is no evidence; of other results nothing is kept. *)
LEMMA IngestGood ==
  ASSUME NEW c \in Cases, NEW case, NEW a, Good(c, case),
         NEW r \in Results[c] \cup {Blocked, DryRun(a)}
  PROVE  Good(c, Ingest(c, case, a, r)) /\ Keeps(c, case, Ingest(c, case, a, r))
<1>1. CASE Accepted(r)
  <2>1. r \in Results[c]
    BY <1>1 DEF Accepted, Blocked, DryRun
  <2>2. r.contradiction \in BOOLEAN
    BY <2>1, RcaAssumption, CasesAreFamilies
  <2> QED BY <1>1, <2>2, IngestAcceptedGood DEF Ingest
<1>2. CASE ~Accepted(r)
  <2> DEFINE refs == IF r.status = "dry_run" THEN AddItems(case.refs, r.evidence) ELSE case.refs
             done == IF r.status \in {"dry_run", "executed"} THEN case.done \cup {a.id}
                     ELSE case.done
             new == Ignored(case, refs, done)
  <2>1. new = Ingest(c, case, a, r)
    BY <1>2 DEF Ingest
  <2>2. case.refs \subseteq refs /\ case.done \subseteq done
    BY AddItemsKeeps
  <2>3. r.status = "dry_run" => r = DryRun(a)
    BY RcaAssumption, CasesAreFamilies DEF Blocked
  <2>4. \A h : Refuted(h, refs) => Refuted(h, case.refs)
    BY <2>3 DEF Refuted, Against, Relevant, AddItems, DryRun
  <2>5. \A h : Complete(c, h, case.refs) => Complete(c, h, refs)
    <3> HIDE DEF refs
    <3> QED BY <2>2, CompleteGrows
  <2> HIDE DEF refs, done
  <2>6. /\ new.rca = case.rca /\ new.knowledge = case.knowledge /\ new.refs = refs
        /\ new.status = case.status /\ new.against = case.against /\ new.done = done
        /\ new.promoted = FALSE
    BY DEF Ignored
  <2> HIDE DEF new
  <2>7. Good(c, new)
    BY <2>4, <2>5, <2>6 DEF Good, CaseOK, Earned, Reusable
  <2>8. Keeps(c, case, new)
    BY <2>2, <2>6 DEF Keeps
  <2> QED BY <2>1, <2>7, <2>8
<1> QED BY <1>1, <1>2

-----------------------------------------------------------------------------
(* The loop.                                                               *)

LEMMA FirstCasesAreGood ==
  ASSUME NEW c \in Cases
  PROVE  Good(c, FirstCase(c))
<1>1. c \in Families
  BY CasesAreFamilies
<1>2. \A h \in Hyps(c) : HYPOTHESES[c][h].status \in {"bounded", "pending"}
  <2>1. CASE c = "single_replica_podkill"
    BY <2>1 DEF Hyps, HYPOTHESES
  <2>2. CASE c = "catalogue_db_podkill"
    BY <2>2 DEF Hyps, HYPOTHESES
  <2>3. CASE c = "http_abort_propagation"
    BY <2>3 DEF Hyps, HYPOTHESES
  <2>4. CASE c = "native"
    BY <2>4 DEF Hyps, HYPOTHESES
  <2> QED BY <1>1, <2>1, <2>2, <2>3, <2>4 DEF Families
<1> DEFINE status == [h \in Hyps(c) |-> HYPOTHESES[c][h].status]
           new == FirstCase(c)
<1>3. /\ new.rca \in {"pending", "bounded"} /\ new.knowledge \in {"none", "provisional"}
      /\ new.status = status /\ new.promoted = FALSE
  BY DEF FirstCase
<1>4. status \in [Hyps(c) -> RCA_STATES] /\ \A h \in Hyps(c) : status[h] # "confirmed"
  BY <1>2 DEF RCA_STATES
<1> HIDE DEF new, status
<1>5. Good(c, new)
  BY <1>3, <1>4 DEF Good, CaseOK, Earned, Reusable, RCA_STATES, KNOWLEDGE_STATES
<1> QED BY <1>5 DEF new

LEMMA RcaInit == Init => IInv
<1> SUFFICES ASSUME Init PROVE IInv
  OBVIOUS
<1>1. /\ DOMAIN base = Cases /\ \A c \in Cases : base[c] = FirstCase(c)
      /\ DOMAIN work = Cases /\ \A c \in Cases : work[c] = NoCase
      /\ drafts \in [Cases -> DraftStates] /\ \A c \in Cases : drafts[c] = "none"
      /\ stage = "new" /\ live = FALSE /\ available = {}
  BY DEF Init, DraftStates
<1> QED BY <1>1, FirstCasesAreGood DEF IInv, Stages, Resting, Written

LEMMA BeginStep ==
  ASSUME IInv, NEW setting \in Settings, NEW mode \in BOOLEAN, NEW again \in BOOLEAN,
         Begin(setting, mode, again)
  PROVE  IInv'
<1>1. /\ stage' = "cases" /\ live' \in BOOLEAN /\ available' \in Settings
      /\ drafts' \in [Cases -> DraftStates] /\ \A c \in Cases : drafts'[c] = "none"
      /\ DOMAIN work' = Cases /\ \A c \in Cases : work'[c] = NoCase
      /\ base' \in {base, work} /\ (base' = base \/ stage \in Written)
  BY DEF Begin, DraftStates
<1> QED BY <1>1 DEF IInv, Stages, Resting, Written

LEMMA AdvanceCaseStep ==
  ASSUME IInv, NEW i \in DOMAIN CaseOrder, AdvanceCase(i)
  PROVE  IInv'
<1> DEFINE c == CaseOrder[i]
           a == FollowUp(c, base[c], available)
<1>1. c \in Cases
  BY DEF Cases
<1>2. PICK r \in Results[c] \cup {Blocked, DryRun(a)} :
         work' = [work EXCEPT ![c] = Ingest(c, base[c], a, r)]
  BY DEF AdvanceCase, Outcomes
<1>3. stage = "cases" /\ UNCHANGED <<base, available, live, drafts, stage>>
  BY DEF AdvanceCase
<1>4. Good(c, base[c])
  BY <1>1 DEF IInv
<1>5. Good(c, Ingest(c, base[c], a, r)) /\ Keeps(c, base[c], Ingest(c, base[c], a, r))
  <2> HIDE DEF c, a
  <2> QED BY <1>1, <1>2, <1>4, IngestGood
<1> HIDE DEF c, a
<1>6. /\ DOMAIN work' = Cases
      /\ work'[c] = Ingest(c, base[c], a, r)
      /\ \A d \in Cases \ {c} : work'[d] = work[d]
  BY <1>1, <1>2 DEF IInv
<1> QED BY <1>3, <1>5, <1>6 DEF IInv, Written, Stages, Resting

LEMMA WriteDraftsStep ==
  ASSUME IInv, WriteDrafts
  PROVE  IInv'
<1>1. /\ stage = "manifest" /\ stage' = "drafts" /\ UNCHANGED <<base, work, available, live>>
      /\ drafts' = [c \in Cases |-> DraftStatus(work[c])]
  BY DEF WriteDrafts
<1>2. \A c \in Cases : drafts'[c] = DraftStatus(work[c]) /\ Good(c, work[c])
  BY <1>1 DEF IInv
<1>3. \A c \in Cases : drafts'[c] = "local_reusable" => work[c].knowledge = "local_reusable"
  BY <1>2 DEF Good, DraftStatus
<1>4. drafts' \in [Cases -> DraftStates]
  BY <1>1 DEF DraftStatus, DraftStates
<1> QED BY <1>1, <1>3, <1>4 DEF IInv, Stages, Resting, Written

(* The manifest, the report and whatever ends a round leave the cases as they are. *)
LEMMA OtherSteps ==
  ASSUME IInv, Raise \/ WriteManifest \/ Validate \/ UNCHANGED vars
  PROVE  IInv'
<1>1. CASE Raise
  BY <1>1 DEF IInv, Raise, Stages, Resting, Written
<1>2. CASE WriteManifest
  BY <1>2 DEF IInv, WriteManifest, Stages, Resting, Written
<1>3. CASE Validate
  BY <1>3 DEF IInv, Validate, Stages, Resting, Written
<1>4. CASE UNCHANGED vars
  BY <1>4 DEF IInv, vars
<1> QED BY <1>1, <1>2, <1>3, <1>4

(* The inductive invariant.                                                *)
THEOREM RcaInvariant == Spec => []IInv
<1>1. IInv /\ [Next]_vars => IInv'
  BY BeginStep, AdvanceCaseStep, WriteDraftsStep, OtherSteps DEF Next
<1> QED BY RcaInit, <1>1, PTL DEF Spec

(* Every case file and draft has the states of its contract.               *)
THEOREM RcaTypes == Spec => []TypeOK
<1>1. IInv => TypeOK
  BY DEF IInv, TypeOK, Good, DraftStates
<1> QED BY RcaInvariant, <1>1, PTL

(* No hypothesis is confirmed that its own evidence does not prove, or     *)
(* that a severe contradiction was ever collected against.                 *)
THEOREM ConfirmationsAreEarned == Spec => []ConfirmedIsEarned
<1>1. IInv => ConfirmedIsEarned
  BY DEF IInv, ConfirmedIsEarned, OnDisk, Good, Earned
<1> QED BY RcaInvariant, <1>1, PTL

(* Knowledge that is reusable has no contradicting evidence, and only      *)
(* drafts of such knowledge guard later rounds.                            *)
THEOREM ReuseIsUncontradicted == Spec => []ReusableIsUncontradicted
<1>1. ASSUME IInv, NEW c \in Cases, NEW case \in OnDisk(c)
      PROVE  Reusable(c, case)
  BY <1>1 DEF IInv, OnDisk, Good
<1>2. ASSUME IInv, NEW c \in Cases, "guard" \in Intents(drafts[c])
      PROVE  drafts[c] = "local_reusable"
  BY <1>2 DEF Intents
<1>3. IInv => ReusableIsUncontradicted
  BY <1>1, <1>2 DEF IInv, ReusableIsUncontradicted, Reusable
<1> QED BY RcaInvariant, <1>3, PTL

(* A round keeps the evidence, the finished actions and the rejections of  *)
(* the round it was made from.                                             *)
THEOREM RoundsKeepParents == Spec => []RoundsKeepTheirParent
<1>1. IInv => RoundsKeepTheirParent
  BY DEF IInv, RoundsKeepTheirParent, Keeps
<1> QED BY RcaInvariant, <1>1, PTL

-----------------------------------------------------------------------------
(* One experiment, call by call.                                           *)


GateCalls == {"idle", "scope", "platform", "targets", "name", "capability"}
BeforeApply == GateCalls \cup {"prepare", "baseline", "apply"}
Ran == {"executed", "recovery_timeout", "injection_not_confirmed"}

(* The Deployment never has more Pods than it is to have; what was hit is  *)
(* hit for good, and nothing is lifted that did not hit.                   *)
HitInv ==
  /\ Cardinality(Active) <= replicas
  /\ recovered => victim # NoPod
  /\ victim # NoPod => chaos # "accepted"
  /\ victim # NoPod /\ fault = "pod-kill" => pod[victim] \in {"terminating", "gone"}

(* Up to the mutation nothing is known but what the gate has read, and     *)
(* behind the gate the name is free.                                       *)
CallInv ==
  /\ run.kind = fault
  /\ pc = "idle" => run = Blank(fault)
  /\ pc \in BeforeApply =>
       /\ victim = NoPod /\ chaos # "accepted" /\ run.status = "blocked"
       /\ ~run.applied /\ ~run.injected /\ ~run.raised
  /\ pc \in GateCalls \cup {"prepare"} => ~run.prepared
  /\ pc \in {"capability", "prepare", "baseline", "apply"} => chaos = "absent"
  /\ pc # "done" => fixture = run.prepared
  /\ client = "script" =>
       /\ pc \notin {"capability", "prepare", "baseline", "sweep", "settle"}
       /\ ~fixture /\ ~run.prepared /\ run.status = "blocked" /\ ~run.raised

(* Behind the mutation: what is recorded of it happened.                   *)
ObjectInv ==
  /\ pc \in {"inject", "observe", "recover", "delete", "verify", "sweep"} => run.applied
  /\ run.applied /\ chaos = "injected" => victim # NoPod
  /\ run.applied => pc \notin BeforeApply
  /\ pc \in {"observe", "recover"} => run.injected
  /\ run.injected => run.applied /\ victim # NoPod
  /\ run.observation # "none" => run.injected
  /\ run.recovery => run.injected /\ RecoveryIsReal
  /\ run.recovery /\ fault = "pod-kill" => Cardinality(run.targets) <= replicas

(* What is confirmed as removed is gone, and stays so.                     *)
CleanInv ==
  /\ run.absent => chaos = "absent" /\ pc \in {"sweep", "settle", "done"}
  /\ run.swept => chaos = "absent" /\ stray = "none" /\ pc \in {"settle", "done"}
  /\ run.settled => ~fixture /\ pc = "done"
  /\ run.status \in Ran => run.applied /\ pc \in {"delete", "verify", "sweep", "settle", "done"}
  /\ pc = "done" /\ run.status \in Ran => CleanupConfirmed(run)

MInv == MeasureTypeOK /\ HitInv /\ CallInv /\ ObjectInv /\ CleanInv

USE TargetAssumption, PollAssumption

---------------------------------------------------------------------------
(* The steps.                                                              *)

(* What a call changes of the target.                                      *)
LEMMA CallsOnTarget ==
  ASSUME Experiment
  PROVE  /\ UNCHANGED <<replicas, pod, restarts, victim, disturbed>>
         /\ \/ UNCHANGED <<fault, chaos, recovered>>
            \/ ProbeCapability /\ pc = "capability" /\ Fallback /\ UNCHANGED recovered
            \/ Apply /\ UNCHANGED <<fault, recovered>>
            \/ Delete /\ UNCHANGED <<fault, recovered>>
            \/ Sweep /\ UNCHANGED fault
<1> USE DEF ReadOnly, Polling, OnlyChaos, targetVars
<1>1. CASE Start \/ CheckScope \/ CheckPlatform \/ ListTargets \/ CheckName
  BY <1>1 DEF Start, CheckScope, CheckPlatform, ListTargets, CheckName
<1>2. CASE ProbeCapability
  BY <1>2 DEF ProbeCapability
<1>3. CASE PrepareFixture \/ Baseline \/ Misconfigured \/ PollInjected \/ Probe \/ Request
  BY <1>3 DEF PrepareFixture, Baseline, Misconfigured, PollInjected, Probe, Request
<1>4. CASE Recover \/ VerifyAbsent \/ SettleFixture
  BY <1>4 DEF Recover, VerifyAbsent, SettleFixture
<1>5. CASE Apply
  BY <1>5 DEF Apply
<1>6. CASE Delete
  BY <1>6 DEF Delete
<1>7. CASE Sweep
  BY <1>7 DEF Sweep
<1> QED BY <1>1, <1>2, <1>3, <1>4, <1>5, <1>6, <1>7 DEF Experiment, Gate

(* A record of a run, updated in one field.                                *)
Fields == {"kind", "targets", "suitable", "decision", "baseline", "applied", "injected",
           "observation", "samples", "recovery", "absent", "swept", "settled", "prepared", "raised",
           "status", "forced"}
StatusValues == {"blocked", "environment_blocked", "inapplicable", "business_not_reachable",
                 "business_fixture_prepare_failed", "apply_failed", "injection_not_confirmed",
                 "recovery_timeout", "executed", "cleanup_failed"}

(* A call changes no other fields.                                         *)
Only(fields) == \A g \in Fields \ fields : run'[g] = run[g]

(* A run record has the fields of its type and no other.                   *)
LEMMA RunDomain == ASSUME NEW r \in Runs PROVE DOMAIN r = Fields
BY DEF Runs, Fields

(* Setting a flag of a record leaves a record.                             *)
LEMMA FlagUpdates ==
  ASSUME NEW r \in Runs, NEW v \in BOOLEAN
  PROVE  /\ [r EXCEPT !.suitable = v] \in Runs /\ [r EXCEPT !.applied = v] \in Runs
         /\ [r EXCEPT !.injected = v] \in Runs /\ [r EXCEPT !.recovery = v] \in Runs
         /\ [r EXCEPT !.absent = v] \in Runs /\ [r EXCEPT !.swept = v] \in Runs
         /\ [r EXCEPT !.settled = v] \in Runs /\ [r EXCEPT !.prepared = v] \in Runs
         /\ [r EXCEPT !.raised = v] \in Runs
<1> USE DEF Runs
<1>1. [r EXCEPT !.suitable = v] \in Runs
  OBVIOUS
<1>2. [r EXCEPT !.applied = v] \in Runs
  OBVIOUS
<1>3. [r EXCEPT !.injected = v] \in Runs
  OBVIOUS
<1>4. [r EXCEPT !.recovery = v] \in Runs
  OBVIOUS
<1>5. [r EXCEPT !.absent = v] \in Runs
  OBVIOUS
<1>6. [r EXCEPT !.swept = v] \in Runs
  OBVIOUS
<1>7. [r EXCEPT !.settled = v] \in Runs
  OBVIOUS
<1>8. [r EXCEPT !.prepared = v] \in Runs
  OBVIOUS
<1>9. [r EXCEPT !.raised = v] \in Runs
  OBVIOUS
<1> HIDE DEF Runs
<1> QED BY <1>1, <1>2, <1>3, <1>4, <1>5, <1>6, <1>7, <1>8, <1>9

(* Setting a value of a record leaves a record.                            *)
LEMMA ValueUpdates ==
  ASSUME NEW r \in Runs
  PROVE  /\ \A v \in SUBSET Pods : [r EXCEPT !.targets = v] \in Runs
         /\ \A v \in {"blocked", "not_applicable", "none", "ready_for_injection"} : [r EXCEPT !.decision = v] \in Runs
         /\ \A v \in {"pass", "failed"} : [r EXCEPT !.baseline = v] \in Runs
         /\ \A v \in {"pass", "degraded", "business_unreachable"} : [r EXCEPT !.observation = v] \in Runs
         /\ \A v \in SUBSET {"ok", "server_error", "timeout", "refused"} : [r EXCEPT !.samples = v] \in Runs
         /\ \A v \in StatusValues : [r EXCEPT !.status = v] \in Runs
         /\ \A v \in {"invalid_request_configuration", "apply_failed", "runner_error"} : [r EXCEPT !.forced = v] \in Runs
<1> USE DEF Runs, StatusValues
<1>1. \A v \in SUBSET Pods : [r EXCEPT !.targets = v] \in Runs
  OBVIOUS
<1>2. \A v \in {"blocked", "not_applicable", "none", "ready_for_injection"} : [r EXCEPT !.decision = v] \in Runs
  OBVIOUS
<1>3. \A v \in {"pass", "failed"} : [r EXCEPT !.baseline = v] \in Runs
  OBVIOUS
<1>4. \A v \in {"pass", "degraded", "business_unreachable"} : [r EXCEPT !.observation = v] \in Runs
  OBVIOUS
<1>5. \A v \in SUBSET {"ok", "server_error", "timeout", "refused"} : [r EXCEPT !.samples = v] \in Runs
  OBVIOUS
<1>6. \A v \in StatusValues : [r EXCEPT !.status = v] \in Runs
  OBVIOUS
<1>7. \A v \in {"invalid_request_configuration", "apply_failed", "runner_error"} : [r EXCEPT !.forced = v] \in Runs
  OBVIOUS
<1> HIDE DEF Runs, StatusValues
<1> QED BY <1>1, <1>2, <1>3, <1>4, <1>5, <1>6, <1>7

LEMMA BlankType == \A kind \in Faults : Blank(kind) \in Runs
BY DEF Blank, Runs, Faults

(* The active Pods are finitely many.                                      *)
LEMMA PodStates ==
  ASSUME TargetTypeOK
  PROVE  /\ IsFiniteSet(Active) /\ Cardinality(Active) \in Nat
         /\ replicas \in Nat
<1>1. IsFiniteSet(Active)
  BY FS_Subset DEF Active
<1> QED BY <1>1, FS_CardinalityType DEF TargetTypeOK

---------------------------------------------------------------------------
(* The types.                                                              *)

LEMMA TargetTypesStep == MeasureTypeOK /\ MeasureNext => TargetTypeOK'
<1> SUFFICES ASSUME MeasureTypeOK, MeasureNext PROVE TargetTypeOK'
  OBVIOUS
<1>1. TargetTypeOK
  BY DEF MeasureTypeOK
<1>2. CASE Experiment
  <2>1. fault' \in Faults
    BY <1>1, <1>2, CallsOnTarget DEF TargetTypeOK, Fallback, Faults
  <2>2. chaos' \in {"absent", "accepted", "injected", "finalizing"}
    BY <1>1, <1>2, CallsOnTarget DEF TargetTypeOK, Fallback, Apply, Created, Delete, Sweep
  <2>3. recovered' \in BOOLEAN
    BY <1>1, <1>2, CallsOnTarget DEF TargetTypeOK, Sweep
  <2> QED BY <1>1, <1>2, <2>1, <2>2, <2>3, CallsOnTarget DEF TargetTypeOK
<1>3. CASE TargetStep
  <2>1. pod' \in [Pods -> {"unborn", "starting", "ready", "killed", "terminating", "gone"}]
    <3>1. CASE UNCHANGED pod
      BY <1>1, <3>1 DEF TargetTypeOK
    <3>2. CASE \E p \in Pods : \E s \in {"starting", "ready", "killed", "terminating", "gone"} :
                 pod' = [pod EXCEPT ![p] = s]
      BY <1>1, <3>2 DEF TargetTypeOK
    <3>3. CASE Workload
      BY <3>2, <3>3 DEF Workload, Replace, Progress, Moves
    <3>4. CASE Controller
      BY <3>1, <3>2, <3>4 DEF Controller, Inject, Expire, Finalize, Effect, Moves, Active
    <3>5. CASE Disturb
      BY <3>1, <3>2, <3>5 DEF Disturb, Moves, Active
    <3> QED BY <1>3, <3>3, <3>4, <3>5 DEF TargetStep
  <2>2. restarts' \in [Pods -> 0 .. 1]
    BY <1>1, <1>3 DEF TargetStep, Workload, Replace, Progress, Controller, Disturb, TargetTypeOK
  <2>3. chaos' \in {"absent", "accepted", "injected", "finalizing"} /\ recovered' \in BOOLEAN
    BY <1>1, <1>3 DEF TargetStep, Workload, Controller, Inject, Expire, Finalize, Disturb, TargetTypeOK
  <2>4. victim' \in Pods \cup {NoPod}
    BY <1>1, <1>3 DEF TargetStep, Workload, Controller, Inject, Expire, Finalize, Disturb, TargetTypeOK, Active
  <2>5. disturbed' \in 0 .. Disturbances
    BY <1>1, <1>3 DEF TargetStep, Workload, Controller, Disturb, TargetTypeOK
  <2>6. UNCHANGED <<replicas, fault>>
    BY <1>3 DEF TargetStep, Workload, Controller, Disturb
  <2> QED BY <1>1, <2>1, <2>2, <2>3, <2>4, <2>5, <2>6 DEF TargetTypeOK
<1> QED BY <1>2, <1>3 DEF MeasureNext, Cluster

(* The record of a call that a gate refuses.                               *)
LEMMA RefusedType ==
  ASSUME run \in Runs, NEW decision \in {"blocked", "not_applicable", "none"}, Refused(decision)
  PROVE  run' \in Runs
<1> DEFINE s == IF client = "executor" THEN "environment_blocked" ELSE run.status
           r == [run EXCEPT !.decision = decision]
<1>1. s \in StatusValues
  BY DEF Runs, StatusValues
<1>2. r \in Runs
  BY ValueUpdates
<1>3. [r EXCEPT !.status = s] \in Runs
  BY <1>1, <1>2, ValueUpdates
<1>4. run' = [r EXCEPT !.status = s]
  BY RunDomain DEF Refused, Fields
<1> QED BY <1>3, <1>4

(* The record of a call whose fault was seen to recover.                   *)
LEMMA RecoveredType ==
  ASSUME run \in Runs, NEW confirmed \in BOOLEAN, Recovered(confirmed)
  PROVE  run' \in Runs
<1> DEFINE s == IF client # "executor" THEN run.status
                ELSE IF confirmed THEN "executed" ELSE "recovery_timeout"
           r == [run EXCEPT !.recovery = confirmed]
<1>1. s \in StatusValues
  BY DEF Runs, StatusValues
<1>2. r \in Runs
  BY FlagUpdates
<1>3. [r EXCEPT !.status = s] \in Runs
  BY <1>1, <1>2, ValueUpdates
<1>4. run' = [r EXCEPT !.status = s]
  BY RunDomain DEF Recovered, Fields
<1> QED BY <1>3, <1>4

(* A record with one more sample is a record.                              *)
LEMMA SampleType ==
  ASSUME NEW r \in Runs, NEW sample \in {"ok", "server_error", "timeout", "refused"}
  PROVE  [r EXCEPT !.samples = r.samples \cup {sample}] \in Runs
<1>1. r.samples \cup {sample} \in SUBSET {"ok", "server_error", "timeout", "refused"}
  BY DEF Runs
<1> QED BY <1>1, ValueUpdates

LEMMA RunTypeStep == MeasureTypeOK /\ Experiment => run' \in Runs
<1> SUFFICES ASSUME MeasureTypeOK, Experiment PROVE run' \in Runs
  OBVIOUS
<1>1. run \in Runs
  BY DEF MeasureTypeOK
<1>2. UNCHANGED run => run' \in Runs
  BY <1>1
<1> USE FlagUpdates, ValueUpdates DEF StatusValues
<1>3. CASE Start \/ Delete
  BY <1>2, <1>3 DEF Start, Delete
<1>4. CASE CheckScope \/ CheckPlatform
  BY <1>1, <1>2, <1>4, RefusedType DEF CheckScope, CheckPlatform
<1>5. CASE ListTargets
  <2>1. CASE UNCHANGED run
    BY <1>2, <2>1
  <2>2. ASSUME NEW suitable \in BOOLEAN, run' = [run EXCEPT !.targets = Listed, !.suitable = suitable]
        PROVE  run' \in Runs
    <3>1. [run EXCEPT !.targets = Listed] \in Runs
      BY <1>1 DEF Listed
    <3> QED BY <2>2, <3>1
  <2> QED BY <1>5, <2>1, <2>2 DEF ListTargets
<1>6. CASE CheckName
  <2>1. \A found \in Lookup : Decision(found) \in {"blocked", "not_applicable", "ready_for_injection"}
    BY DEF Decision
  <2>2. PICK found \in Lookup :
          IF Decision(found) = "ready_for_injection"
          THEN run' = [run EXCEPT !.decision = Decision(found)] ELSE Refused(Decision(found))
    BY <1>6 DEF CheckName
  <2>3. CASE Decision(found) = "ready_for_injection"
    BY <1>1, <2>2, <2>3
  <2>4. CASE Decision(found) # "ready_for_injection"
    BY <1>1, <2>1, <2>2, <2>4, RefusedType
  <2> QED BY <2>3, <2>4
<1>7. CASE ProbeCapability
  <2>1. run' \in {run, [run EXCEPT !.status = "inapplicable"], Blank("timed")}
    BY <1>7 DEF ProbeCapability, Fallback
  <2> QED BY <1>1, <2>1, BlankType DEF Faults
<1>8. CASE PrepareFixture
  BY <1>1, <1>8 DEF PrepareFixture
<1>9. CASE Baseline
  BY <1>1, <1>9 DEF Baseline
<1>10. CASE Apply \/ Misconfigured
  BY <1>1, <1>10 DEF Apply, Misconfigured
<1>11. CASE PollInjected
  BY <1>1, <1>11 DEF PollInjected
<1>12. CASE Probe
  <2>1. \A answer \in Attempt : answer \in {"retry", "pass", "degraded", "business_unreachable"}
    BY DEF Attempt, HttpAttempt, GrpcAttempt
  <2> QED BY <1>1, <1>12, <2>1 DEF Probe
<1>13. CASE Request
  <2>1. Sample \subseteq {"ok", "server_error", "timeout", "refused"}
    BY DEF Sample
  <2>2. CASE run' \in {run, [run EXCEPT !.forced = "runner_error"]}
    BY <1>1, <2>2
  <2>3. CASE \E sample \in Sample : run' = [run EXCEPT !.samples = run.samples \cup {sample}]
    BY <1>1, <2>1, <2>3, SampleType
  <2> QED BY <1>13, <2>2, <2>3 DEF Request
<1>14. CASE Recover
  <2>1. UNCHANGED run \/ Recovered(TRUE) \/ Recovered(FALSE)
    BY <1>14 DEF Recover, PollPods, PollRecovered
  <2> QED BY <1>1, <1>2, <2>1, RecoveredType
<1>15. CASE VerifyAbsent \/ Sweep
  BY <1>1, <1>15 DEF VerifyAbsent, Verified, Sweep
<1>16. CASE SettleFixture
  BY <1>1, <1>16 DEF SettleFixture
<1> QED BY <1>3, <1>4, <1>5, <1>6, <1>7, <1>8, <1>9, <1>10, <1>11, <1>12, <1>13, <1>14, <1>15, <1>16
        DEF Experiment, Gate

(* What each call makes of the record.                                     *)
LEMMA GateFields ==
  ASSUME run \in Runs, client \in Clients, pc = "capability" => client = "executor" /\ chaos = "absent",
         Gate, ~(pc = "capability" /\ pc' = "scope")
  PROVE  /\ pc \in GateCalls /\ pc' # pc
         /\ pc' \in GateCalls \cup {"prepare", "apply", "done"} /\ pc' # "idle"
         /\ pc' = "capability" => client = "executor"
         /\ pc' = "prepare" => client = "executor"
         /\ pc' \in {"capability", "prepare", "apply"} => chaos = "absent"
         /\ pc' = "apply" => client = "script"
         /\ Only({"targets", "suitable", "decision", "status"})
         /\ \/ run'.status = run.status /\ (pc' = "done" => client # "executor")
            \/ /\ pc' = "done" /\ client = "executor"
               /\ run'.status \in {"environment_blocked", "inapplicable"}
         /\ pc' # "done" => run'.status = run.status
         /\ UNCHANGED <<targetVars, client, fixture, stray>>
<1> USE RunDomain DEF Only, Fields, Go, GateCalls, ReadOnly, Polling
<1>1. ASSUME NEW decision, Refused(decision)
      PROVE  /\ pc' = "done" /\ Only({"decision", "status"})
             /\ run'.status = IF client = "executor" THEN "environment_blocked" ELSE run.status
  BY <1>1 DEF Refused
<1>2. CASE Start
  BY <1>2 DEF Start
<1>3. CASE CheckScope
  BY <1>1, <1>3 DEF CheckScope
<1>4. CASE CheckPlatform
  BY <1>1, <1>4 DEF CheckPlatform
<1>5. CASE ListTargets
  BY <1>5 DEF ListTargets
<1>6. CASE CheckName
  <2>1. PICK found \in Lookup :
          IF Decision(found) = "ready_for_injection"
          THEN pc' = AfterGate /\ run' = [run EXCEPT !.decision = Decision(found)]
          ELSE Refused(Decision(found))
    BY <1>6 DEF CheckName
  <2>2. CASE Decision(found) = "ready_for_injection"
    <3>1. chaos = "absent"
      BY <2>2 DEF Decision, Lookup
    <3>2. pc' \in {"apply", "capability", "prepare"}
      BY <2>1, <2>2 DEF AfterGate, Clients
    <3>3. (pc' \in {"capability", "prepare"} => client = "executor") /\ (pc' = "apply" => client = "script")
      BY <2>1, <2>2 DEF AfterGate, Clients
    <3> QED BY <1>6, <2>1, <2>2, <3>1, <3>2, <3>3 DEF CheckName
  <2>3. CASE Decision(found) # "ready_for_injection"
    BY <1>1, <1>6, <2>1, <2>3 DEF CheckName
  <2> QED BY <2>2, <2>3
<1>7. CASE ProbeCapability
  <2>1. client = "executor" /\ pc = "capability" /\ pc' \in {"prepare", "done"} /\ UNCHANGED targetVars
    BY <1>7 DEF ProbeCapability, targetVars, Clients
  <2> QED BY <1>7, <2>1 DEF ProbeCapability
<1> QED BY <1>2, <1>3, <1>4, <1>5, <1>6, <1>7 DEF Gate

(* A gate at the capability check is the probe of the capability.          *)
LEMMA ScopeAgain == Gate /\ pc = "capability" => ProbeCapability
BY DEF Gate, Start, CheckScope, CheckPlatform, ListTargets, CheckName, Go

(* What the applying changes of a record.                                  *)
LEMMA MutationFields ==
  ASSUME run \in Runs, client \in Clients, PrepareFixture \/ Baseline \/ Apply \/ Misconfigured
  PROVE  /\ UNCHANGED <<client, stray>>
         /\ \/ /\ pc = "prepare" /\ pc' = "baseline" /\ UNCHANGED targetVars
               /\ Only({"prepared"}) /\ run'.prepared = fixture'
            \/ /\ pc = "prepare" /\ pc' = "done" /\ UNCHANGED targetVars
               /\ Only({"status"}) /\ run'.status = "business_fixture_prepare_failed"
            \/ /\ pc = "baseline" /\ pc' \in {"baseline", "apply"} /\ UNCHANGED <<targetVars, fixture>>
               /\ Only({"baseline"})
            \/ /\ pc = "baseline" /\ pc' = "settle" /\ UNCHANGED <<targetVars, fixture>>
               /\ Only({"baseline", "status"}) /\ run'.status = "business_not_reachable"
            \/ /\ pc = "baseline" /\ pc' = "done" /\ UNCHANGED <<targetVars, fixture>>
               /\ Only({"raised"}) /\ run'.raised
            \/ /\ pc = "apply" /\ pc' = "inject" /\ Created /\ OnlyChaos /\ UNCHANGED fixture
               /\ Only({"applied"}) /\ run'.applied
            \/ /\ pc = "apply" /\ pc' = "done" /\ OnlyChaos /\ UNCHANGED fixture
               /\ Created \/ UNCHANGED chaos
               /\ Only({"status", "forced"})
               /\ run'.status = IF client = "executor" THEN "apply_failed" ELSE run.status
<1> USE RunDomain DEF Only, Fields, Go, ReadOnly, Polling, Elsewhere
<1>1. CASE PrepareFixture
  BY <1>1 DEF PrepareFixture
<1>2. CASE Baseline
  <2>1. PICK answer \in Attempt \cup {"none"} :
          /\ answer = "none" => pc' = "done" /\ run' = [run EXCEPT !.raised = TRUE]
          /\ answer # "none" =>
               /\ pc' = CASE answer = "pass" -> "apply"
                          [] answer = "retry" -> "baseline"
                          [] OTHER -> "settle"
               /\ run' = CASE answer = "pass" -> [run EXCEPT !.baseline = "pass"]
                           [] answer = "retry" -> run
                           [] OTHER -> [run EXCEPT !.baseline = "failed",
                                                   !.status = "business_not_reachable"]
    BY <1>2 DEF Baseline, Attempt, HttpAttempt, GrpcAttempt
  <2>2. pc = "baseline" /\ UNCHANGED <<targetVars, fixture, client, stray>>
    BY <1>2 DEF Baseline
  <2>3. CASE answer = "none"
    BY <2>1, <2>2, <2>3
  <2>4. CASE answer = "pass"
    BY <2>1, <2>2, <2>4
  <2>5. CASE answer = "retry"
    BY <2>1, <2>2, <2>5
  <2>6. CASE answer \notin {"none", "pass", "retry"}
    BY <2>1, <2>2, <2>6
  <2> QED BY <2>3, <2>4, <2>5, <2>6
<1>3. CASE Apply
  BY <1>3 DEF Apply
<1>4. CASE Misconfigured
  BY <1>4 DEF Misconfigured, OnlyChaos, targetVars
<1> QED BY <1>1, <1>2, <1>3, <1>4

(* What the waiting changes of a record.                                   *)
LEMMA WaitFields ==
  ASSUME run \in Runs, PollInjected \/ Probe \/ Request
  PROVE  /\ UNCHANGED <<targetVars, client, fixture, stray>>
         /\ \/ pc = "inject" /\ pc' = "observe" /\ InjectionCounted /\ Only({"injected"}) /\ run'.injected
            \/ /\ pc = "inject" /\ pc' = "delete" /\ Only({"status"})
               /\ run'.status = IF client = "executor" THEN "injection_not_confirmed" ELSE run.status
            \/ /\ pc = "observe" /\ pc' \in {"observe", "recover"}
               /\ Only({"observation", "samples", "forced"})
            \/ /\ pc = "observe" /\ pc' = "delete" /\ client = "executor" /\ Only({"raised"}) /\ run'.raised
<1> USE RunDomain DEF Only, Fields, Go, ReadOnly, Polling
<1>1. CASE PollInjected
  BY <1>1 DEF PollInjected
<1>2. CASE Probe
  BY <1>2 DEF Probe
<1>3. CASE Request
  BY <1>3 DEF Request
<1> QED BY <1>1, <1>2, <1>3

(* What the polls of the recovery change of a record.                      *)
LEMMA RecoverFields ==
  ASSUME run \in Runs, Recover
  PROVE  /\ UNCHANGED <<targetVars, client, fixture, stray>> /\ pc = "recover"
         /\ \/ pc' = "recover" /\ UNCHANGED run
            \/ /\ pc' = "delete" /\ Only({"recovery", "status"})
               /\ run'.status = IF client # "executor" THEN run.status
                                ELSE IF run'.recovery THEN "executed" ELSE "recovery_timeout"
               /\ run'.recovery /\ fault = "pod-kill" => TargetReplaced(run.targets)
               /\ run'.recovery /\ fault = "container-kill" => ContainerRestarted(run.targets)
               /\ run'.recovery /\ fault \in {"timed", "dns"} => recovered
<1> USE RunDomain DEF Only, Fields, Go, ReadOnly, Polling
<1>1. ASSUME NEW confirmed \in BOOLEAN, Recovered(confirmed)
      PROVE  /\ pc = "recover" /\ pc' = "delete" /\ Only({"recovery", "status"})
             /\ run'.recovery = confirmed
             /\ run'.status = IF client # "executor" THEN run.status
                              ELSE IF confirmed THEN "executed" ELSE "recovery_timeout"
  BY <1>1 DEF Recovered
<1>2. UNCHANGED <<targetVars, client, fixture, stray>>
  BY DEF Recover
<1>3. CASE PollPods
  <2>1. fault \in {"pod-kill", "container-kill"}
    BY <1>3 DEF PollPods
  <2>2. CASE pc = "recover" /\ pc' = "recover" /\ UNCHANGED run
    BY <1>2, <2>2
  <2>3. CASE Recovered(TRUE) /\ IF fault = "pod-kill" THEN TargetReplaced(run.targets)
                                ELSE ContainerRestarted(run.targets)
    BY <1>1, <1>2, <2>1, <2>3
  <2> QED BY <1>3, <2>2, <2>3 DEF PollPods
<1>4. CASE PollRecovered
  <2>1. CASE pc = "recover" /\ pc' = "recover" /\ UNCHANGED run
    BY <1>2, <2>1
  <2>2. CASE Recovered(TRUE) /\ recovered /\ fault \in {"timed", "dns"}
    BY <1>1, <1>2, <2>2
  <2> QED BY <1>4, <2>1, <2>2 DEF PollRecovered
<1>5. CASE Recovered(FALSE)
  BY <1>1, <1>2, <1>5
<1> QED BY <1>3, <1>4, <1>5 DEF Recover

(* What the cleanup changes of a record.                                   *)
LEMMA CleanupFields ==
  ASSUME run \in Runs, client \in Clients, Delete \/ VerifyAbsent \/ Sweep \/ SettleFixture
  PROVE  /\ UNCHANGED <<client, replicas, pod, restarts, victim, fault>>
         /\ \/ /\ pc = "delete" /\ pc' = "verify" /\ UNCHANGED <<run, fixture, stray, recovered>>
               /\ chaos' \in {chaos, IF chaos = "absent" THEN "absent" ELSE "finalizing"}
            \/ /\ pc = "verify" /\ pc' = IF client = "executor" THEN "sweep" ELSE "done"
               /\ UNCHANGED <<targetVars, fixture, stray>>
               /\ Only({"absent"}) /\ (run'.absent => chaos = "absent") /\ run'.absent \in BOOLEAN
            \/ /\ pc = "sweep" /\ pc' = "settle" /\ UNCHANGED fixture
               /\ chaos' \in {chaos, "absent", IF chaos = "absent" THEN "absent" ELSE "finalizing"}
               /\ stray' \in {stray, IF stray = "owned" THEN "none" ELSE stray}
               /\ recovered' = (recovered \/ (chaos # "absent" /\ chaos' = "absent" /\ victim # NoPod))
               /\ Only({"swept"}) /\ (run'.swept => chaos' = "absent" /\ stray' = "none") /\ run'.swept \in BOOLEAN
            \/ /\ pc = "settle" /\ pc' = "done" /\ UNCHANGED <<targetVars, stray>>
               /\ Only({"settled", "status"}) /\ run'.settled \in BOOLEAN
               /\ ~run.prepared => run'.settled
               /\ fixture' \in IF run.prepared /\ ~run'.settled THEN {fixture, FALSE} ELSE {FALSE}
               /\ run'.status = IF run.applied /\ ~(run'.settled /\ run.absent /\ run.swept)
                                THEN "cleanup_failed" ELSE run.status
<1> USE RunDomain DEF Only, Fields, Go, ReadOnly, Polling, Elsewhere
<1>1. CASE Delete
  BY <1>1 DEF Delete, OnlyChaos
<1>2. CASE VerifyAbsent
  BY <1>2 DEF VerifyAbsent, Verified, Lookup, targetVars
<1>3. CASE Sweep
  BY <1>3 DEF Sweep
<1>4. CASE SettleFixture
  BY <1>4 DEF SettleFixture, CleanupConfirmed, targetVars
<1> QED BY <1>1, <1>2, <1>3, <1>4

---------------------------------------------------------------------------
ClientTypes ==
  /\ client \in Clients /\ pc \in Calls
  /\ noted \in [Pods -> 0 .. 1 + OtherRestarts]
  /\ stable \in 0 .. StableChecks - 1
  /\ seen \in BOOLEAN /\ failed \in BOOLEAN /\ fixture \in BOOLEAN
  /\ stray \in {"none", "owned", "unowned"}

(* The count of stable polls stays below the number that ends them.        *)
LEMMA StableStep == Recover => stable' \in {stable, 0} \/ (stable' = stable + 1 /\ stable + 1 # StableChecks)
BY DEF Recover, PollPods, PollRecovered, Recovered

LEMMA ClientTypesStep == MeasureTypeOK /\ CallInv /\ Experiment => ClientTypes'
<1> SUFFICES ASSUME MeasureTypeOK, CallInv, Experiment PROVE ClientTypes'
  OBVIOUS
<1>1. ClientTypes /\ run \in Runs /\ TargetTypeOK
  BY DEF MeasureTypeOK, ClientTypes
<1>2. /\ pc' \in Calls /\ client' \in Clients /\ fixture' \in BOOLEAN
      /\ stray' \in {"none", "owned", "unowned"}
  <2>1. CASE Gate /\ ~(pc = "capability" /\ pc' = "scope")
    <3>1. pc = "capability" => client = "executor" /\ chaos = "absent"
      BY <1>1 DEF CallInv, ClientTypes, Clients
    <3> QED BY <1>1, <2>1, <3>1, GateFields DEF ClientTypes, Calls, GateCalls
  <2>2. CASE ProbeCapability /\ pc' = "scope"
    BY <1>1, <2>2 DEF ProbeCapability, Polling, Go, ClientTypes, Calls
  <2>3. CASE PrepareFixture \/ Baseline \/ Apply \/ Misconfigured
    <3>1. fixture' \in BOOLEAN
      BY <1>1, <2>3 DEF PrepareFixture, Baseline, Apply, Misconfigured, ReadOnly, Polling, ClientTypes
    <3>2. pc' \in {"baseline", "done", "apply", "settle", "inject"} /\ UNCHANGED <<client, stray>>
      BY <1>1, <2>3, MutationFields DEF ClientTypes
    <3> QED BY <1>1, <3>1, <3>2 DEF ClientTypes, Calls
  <2>4. CASE PollInjected \/ Probe \/ Request
    BY <1>1, <2>4, WaitFields DEF ClientTypes, Calls
  <2>5. CASE Recover
    BY <1>1, <2>5, RecoverFields DEF ClientTypes, Calls
  <2>6. CASE Delete \/ VerifyAbsent \/ Sweep \/ SettleFixture
    BY <1>1, <2>6, CleanupFields DEF ClientTypes, Calls
  <2> QED BY <2>1, <2>2, <2>3, <2>4, <2>5, <2>6, ScopeAgain DEF Experiment
<1>3. noted' \in [Pods -> 0 .. 1 + OtherRestarts]
  <2>1. CASE ListTargets
    <3>1. \A p \in Pods : restarts[p] \in 0 .. 1
      BY <1>1 DEF TargetTypeOK
    <3>2. \A others \in 0 .. OtherRestarts, p \in Pods : restarts[p] + others \in 0 .. 1 + OtherRestarts
      BY <3>1
    <3>3. CASE UNCHANGED noted
      BY <1>1, <3>3 DEF ClientTypes
    <3>4. ASSUME NEW others \in 0 .. OtherRestarts,
                 noted' = [p \in Pods |-> IF p \in Listed THEN restarts[p] + others ELSE 0]
          PROVE  noted' \in [Pods -> 0 .. 1 + OtherRestarts]
      BY <3>2, <3>4
    <3> QED BY <2>1, <3>3, <3>4 DEF ListTargets
  <2>2. CASE UNCHANGED noted
    BY <1>1, <2>2 DEF ClientTypes
  <2> QED BY <2>1, <2>2 DEF Experiment, Gate, Start, CheckScope, CheckPlatform, CheckName, ProbeCapability,
             PrepareFixture, Baseline, Apply, Misconfigured, PollInjected, Probe, Request, Recover, Delete,
             VerifyAbsent, Sweep, SettleFixture, ReadOnly, Polling, Elsewhere
<1>4. /\ stable' \in 0 .. StableChecks - 1 /\ seen' \in BOOLEAN /\ failed' \in BOOLEAN
  <2>1. CASE Recover
    <3>1. failed' = failed
      BY <2>1 DEF Recover
    <3>2. seen' \in BOOLEAN
      BY <1>1, <2>1 DEF Recover, PollPods, PollRecovered, Recovered, ClientTypes, InjectionCounted
    <3>3. stable' \in 0 .. StableChecks - 1
      <4>1. CASE UNCHANGED stable
        BY <1>1, <4>1 DEF ClientTypes
      <4>2. CASE stable' = 0
        BY <4>2
      <4>3. CASE stable' = stable + 1 /\ stable + 1 # StableChecks
        BY <1>1, <4>3 DEF ClientTypes
      <4> QED BY <2>1, <4>1, <4>2, <4>3, StableStep
    <3> QED BY <1>1, <3>1, <3>2, <3>3 DEF ClientTypes
  <2>2. CASE Baseline \/ Probe
    BY <1>1, <2>2 DEF Baseline, Probe, ClientTypes
  <2>3. CASE UNCHANGED <<stable, seen, failed>>
    BY <1>1, <2>3 DEF ClientTypes
  <2> QED BY <2>1, <2>2, <2>3 DEF Experiment, Gate, Start, CheckScope, CheckPlatform, ListTargets, CheckName,
             ProbeCapability, PrepareFixture, Apply, Misconfigured, PollInjected, Request, Delete,
             VerifyAbsent, Sweep, SettleFixture, Elsewhere
<1> QED BY <1>2, <1>3, <1>4 DEF ClientTypes

LEMMA MeasureTypesStep == MeasureTypeOK /\ CallInv /\ MeasureNext => MeasureTypeOK'
<1> SUFFICES ASSUME MeasureTypeOK, CallInv, MeasureNext PROVE MeasureTypeOK'
  OBVIOUS
<1>1. TargetTypeOK'
  BY TargetTypesStep
<1>2. CASE Experiment
  BY <1>1, <1>2, RunTypeStep, ClientTypesStep DEF MeasureTypeOK, ClientTypes
<1>3. CASE UNCHANGED clientVars
  BY <1>1, <1>3 DEF MeasureTypeOK, clientVars
<1> QED BY <1>2, <1>3 DEF MeasureNext, Cluster

---------------------------------------------------------------------------
(* What the target goes through.                                           *)

(* The Pods that may be serving after a step of the cluster: at most one   *)
(* more, and only if the Deployment is short of one.                       *)
LEMMA ActiveStep ==
  ASSUME TargetTypeOK, Cardinality(Active) <= replicas, TargetStep
  PROVE  Cardinality(Active') <= replicas'
<1>1. UNCHANGED replicas /\ IsFiniteSet(Active) /\ Cardinality(Active) \in Nat /\ replicas \in Nat
  BY PodStates DEF TargetStep, Workload, Controller, Disturb
<1>2. CASE Active' \subseteq Active
  BY <1>1, <1>2, FS_Subset, FS_CardinalityType
<1>3. CASE Replace
  <2>1. PICK p \in Pods : Moves(p, "unborn", "starting")
    BY <1>3 DEF Replace
  <2>2. Active' = Active \cup {p} /\ p \notin Active
    BY <2>1 DEF Active, Moves, TargetTypeOK
  <2>3. Cardinality(Active') = Cardinality(Active) + 1
    BY <1>1, <2>2, FS_AddElement
  <2>4. Cardinality(Active) < replicas
    BY <1>3 DEF Replace
  <2> QED BY <1>1, <2>3, <2>4
<1>4. CASE Progress
  <2>1. PICK p \in Pods : Moves(p, "starting", "ready") \/ Moves(p, "terminating", "gone")
                           \/ Moves(p, "killed", "starting")
    BY <1>4 DEF Progress
  <2>2. Active' \subseteq Active
    BY <2>1 DEF Active, Moves, TargetTypeOK
  <2> QED BY <1>2, <2>2
<1>5. CASE Controller
  <2>1. CASE UNCHANGED pod
    BY <1>2, <2>1 DEF Active
  <2>2. CASE Inject /\ ~UNCHANGED pod
    <3>1. PICK p \in Active : pod' = [pod EXCEPT ![p] = "terminating"] \/ Moves(p, "ready", "killed")
      BY <2>2 DEF Inject, Effect
    <3>2. Active' \subseteq Active
      BY <3>1 DEF Active, Moves, TargetTypeOK
    <3> QED BY <1>2, <3>2
  <2> QED BY <1>5, <2>1, <2>2 DEF Controller, Expire, Finalize
<1>6. CASE Disturb
  <2>1. Active' \subseteq Active
    <3>1. CASE UNCHANGED pod
      BY <3>1 DEF Active
    <3>2. CASE \E p \in Active : pod' = [pod EXCEPT ![p] = "terminating"]
      BY <3>2 DEF Active, TargetTypeOK
    <3>3. CASE \E p \in Pods : Moves(p, "ready", "starting")
      BY <3>3 DEF Active, Moves, TargetTypeOK
    <3> QED BY <1>6, <3>1, <3>2, <3>3 DEF Disturb
  <2> QED BY <1>2, <2>1
<1> QED BY <1>3, <1>4, <1>5, <1>6 DEF TargetStep, Workload

(* A Pod that is on its way out does not come back.                        *)
LEMMA PodOnItsWayOut ==
  ASSUME TargetTypeOK, TargetStep, NEW p \in Pods, pod[p] \in {"terminating", "gone"}
  PROVE  pod'[p] \in {"terminating", "gone"}
<1> USE DEF TargetTypeOK
<1>1. CASE UNCHANGED pod
  BY <1>1
<1>2. CASE \E q \in Pods : pod' = [pod EXCEPT ![q] = "terminating"]
  BY <1>2
<1>3. CASE \E q \in Pods, from \in {"unborn", "starting", "ready", "killed", "terminating"} :
             \E to \in {"starting", "ready", "killed", "gone"} :
             Moves(q, from, to) /\ (from = "terminating" => to = "gone")
  BY <1>3 DEF Moves
<1>4. CASE Workload
  BY <1>3, <1>4 DEF Workload, Replace, Progress
<1>5. CASE Controller
  BY <1>1, <1>2, <1>3, <1>5 DEF Controller, Inject, Effect, Expire, Finalize, Active
<1>6. CASE Disturb
  BY <1>1, <1>2, <1>3, <1>6 DEF Disturb, Active
<1> QED BY <1>4, <1>5, <1>6 DEF TargetStep

(* What counts as injected has hit a Pod.                                  *)
LEMMA HitStep == MeasureTypeOK /\ HitInv /\ CallInv /\ MeasureNext => HitInv'
<1> SUFFICES ASSUME MeasureTypeOK, HitInv, CallInv, MeasureNext PROVE HitInv'
  OBVIOUS
<1>1. HitInv /\ TargetTypeOK
  BY DEF MeasureTypeOK
<1>2. CASE Experiment
  <2>1. UNCHANGED <<replicas, pod, victim>> /\ Active' = Active
    BY <1>2, CallsOnTarget DEF Active
  <2>2. recovered' => recovered \/ victim # NoPod
    BY <1>2, CallsOnTarget DEF Sweep
  <2>3. victim # NoPod => fault' = fault /\ (chaos' # chaos => chaos' # "accepted")
    BY <1>2, CallsOnTarget DEF CallInv, BeforeApply, GateCalls, Apply, Delete, Sweep
  <2> QED BY <1>1, <2>1, <2>2, <2>3 DEF HitInv
<1>3. CASE TargetStep
  <2>1. Cardinality(Active') <= replicas'
    BY <1>1, <1>3, ActiveStep DEF HitInv
  <2>2. fault' = fault /\ (chaos' = "accepted" => chaos = "accepted")
    BY <1>3 DEF TargetStep, Workload, Controller, Inject, Expire, Finalize, Disturb
  <2>3. CASE UNCHANGED victim
    <3>1. recovered' => victim # NoPod
      BY <1>1, <1>3, <2>3 DEF HitInv, TargetStep, Workload, Controller, Inject, Expire, Finalize, Disturb,
                              TargetTypeOK, Active
    <3>2. victim # NoPod => victim \in Pods
      BY <1>1 DEF TargetTypeOK
    <3> QED BY <1>1, <1>3, <2>1, <2>2, <2>3, <3>1, <3>2, PodOnItsWayOut DEF HitInv
  <2>4. CASE Inject
    <3>1. PICK p \in Active : Effect(p) /\ victim' = p
      BY <2>4 DEF Inject
    <3>2. chaos' = "injected" /\ p \in Pods
      BY <2>4, <3>1 DEF Inject, Active
    <3>3. fault = "pod-kill" => pod'[p] = "terminating"
      BY <1>1, <3>1, <3>2 DEF Effect, TargetTypeOK
    <3> QED BY <2>1, <2>2, <3>1, <3>2, <3>3 DEF HitInv
  <2>5. UNCHANGED victim \/ Inject
    BY <1>3 DEF TargetStep, Workload, Controller, Expire, Finalize, Disturb
  <2> QED BY <2>3, <2>4, <2>5
<1> QED BY <1>2, <1>3 DEF MeasureNext, Cluster

(* What the cluster does not do.                                           *)
LEMMA ClusterFacts ==
  ASSUME TargetTypeOK, TargetStep
  PROVE  /\ UNCHANGED <<replicas, fault>>
         /\ chaos = "absent" => chaos' = "absent"
         /\ chaos' = "accepted" => chaos = "accepted"
         /\ chaos' = "injected" => chaos = "injected" \/ victim' # NoPod
         /\ victim' = victim \/ (chaos = "accepted" /\ victim' # NoPod)
         /\ recovered => recovered'
         /\ \A p \in Pods : restarts[p] = 1 => restarts'[p] = 1
<1>1. CASE Workload
  BY <1>1 DEF Workload, Replace, Progress, TargetTypeOK
<1>2. CASE Controller
  BY <1>2 DEF Controller, Inject, Expire, Finalize, TargetTypeOK, Active
<1>3. CASE Disturb
  BY <1>3 DEF Disturb, TargetTypeOK
<1> QED BY <1>1, <1>2, <1>3 DEF TargetStep

(* What a record says at each call.                                        *)
LEMMA CallStep == MeasureTypeOK /\ CallInv /\ ObjectInv /\ MeasureNext => CallInv'
<1> SUFFICES ASSUME MeasureTypeOK, CallInv, ObjectInv, MeasureNext PROVE CallInv'
  OBVIOUS
<1>1. CallInv /\ run \in Runs /\ TargetTypeOK /\ client \in {"executor", "script"}
  BY DEF MeasureTypeOK, Clients
<1>2. pc = "capability" => client = "executor" /\ chaos = "absent"
  BY <1>1 DEF CallInv
<1> USE DEF CallInv, BeforeApply, GateCalls, Only, Fields, Clients
<1>3. CASE Gate /\ ~(pc = "capability" /\ pc' = "scope")
  <2>1. UNCHANGED targetVars /\ UNCHANGED <<client, fixture>> /\ pc \in GateCalls /\ pc' # "idle"
    BY <1>1, <1>2, <1>3, GateFields
  <2>2. /\ run'.kind = run.kind /\ run'.applied = run.applied /\ run'.injected = run.injected
        /\ run'.raised = run.raised /\ run'.prepared = run.prepared
        /\ pc' # "done" => run'.status = run.status
        /\ client = "script" => run'.status = run.status
    BY <1>1, <1>2, <1>3, GateFields
  <2>3. /\ pc' \in {"capability", "prepare", "apply"} => chaos = "absent"
        /\ pc' \in {"capability", "prepare"} => client = "executor"
        /\ pc' \notin {"baseline", "sweep", "settle"}
    BY <1>1, <1>2, <1>3, GateFields
  <2> QED BY <1>1, <2>1, <2>2, <2>3 DEF targetVars
<1>4. CASE ProbeCapability /\ pc' = "scope"
  <2>1. /\ pc = "capability" /\ UNCHANGED <<victim, client, fixture>> /\ Fallback
    BY <1>4 DEF ProbeCapability, Polling
  <2>2. pc' = "scope"
    BY <1>4
  <2>3. /\ run'.kind = fault' /\ run'.status = "blocked" /\ chaos' # "accepted"
        /\ ~run'.applied /\ ~run'.injected /\ ~run'.raised /\ ~run'.prepared
    BY <2>1 DEF Fallback, Blank
  <2>4. fixture' = FALSE /\ run'.prepared = FALSE
    BY <1>1, <2>1 DEF MeasureTypeOK, Fallback, Blank
  <2> QED BY <1>1, <1>2, <2>1, <2>2, <2>3, <2>4
<1>5. CASE PrepareFixture \/ Baseline \/ Apply \/ Misconfigured
  BY <1>1, <1>5, MutationFields DEF OnlyChaos, targetVars
<1>6. CASE PollInjected \/ Probe \/ Request
  BY <1>1, <1>6, WaitFields DEF targetVars
<1>7. CASE Recover
  BY <1>1, <1>7, RecoverFields DEF targetVars
<1>8. CASE Delete \/ VerifyAbsent \/ Sweep \/ SettleFixture
  BY <1>1, <1>8, CleanupFields DEF targetVars, ObjectInv
<1>9. CASE Cluster
  BY <1>1, <1>9, ClusterFacts DEF Cluster, clientVars, Blank
<1> QED BY <1>3, <1>4, <1>5, <1>6, <1>7, <1>8, <1>9, ScopeAgain DEF MeasureNext, Experiment

(* What was recorded of a recovery stays so.                               *)
LEMMA RecoveryKept ==
  ASSUME MeasureTypeOK, ObjectInv, run.recovery, UNCHANGED <<victim, fault>>,
         recovered => recovered',
         \A p \in Pods : restarts[p] = 1 => restarts'[p] = 1,
         \A p \in Pods : pod[p] \in {"terminating", "gone"} => pod'[p] \in {"terminating", "gone"},
         HitInv
  PROVE  RecoveryIsReal'
<1>1. /\ victim \in Pods
      /\ fault = "container-kill" => restarts[victim] = 1
      /\ fault \in {"timed", "dns"} => recovered
  BY DEF ObjectInv, RecoveryIsReal, MeasureTypeOK, TargetTypeOK
<1>2. fault = "pod-kill" => pod'[victim] \in {"terminating", "gone"}
  BY <1>1, TargetAssumption DEF HitInv
<1> QED BY <1>1, <1>2, TargetAssumption DEF RecoveryIsReal, Active

(* A recovery that is confirmed is one of the fault that was injected.     *)
LEMMA RecoveryConfirmed ==
  ASSUME MeasureTypeOK, HitInv, ObjectInv, CallInv, Recover, pc' = "delete", run'.recovery
  PROVE  /\ RecoveryIsReal'
         /\ fault = "pod-kill" => Cardinality(run.targets) <= replicas
<1>1. /\ UNCHANGED targetVars /\ pc = "recover"
      /\ fault = "pod-kill" => TargetReplaced(run.targets)
      /\ fault = "container-kill" => ContainerRestarted(run.targets)
      /\ fault \in {"timed", "dns"} => recovered
  BY RecoverFields DEF MeasureTypeOK
<1>2. victim # NoPod /\ victim \in Pods
  BY <1>1 DEF ObjectInv, MeasureTypeOK, TargetTypeOK
<1>3. fault = "container-kill" => restarts[victim] = 1
  <2>1. fault = "container-kill" => restarts[victim] > noted[victim]
    BY <1>1 DEF ContainerRestarted
  <2>2. restarts[victim] \in 0 .. 1 /\ noted[victim] \in 0 .. 1 + OtherRestarts
    BY <1>2 DEF MeasureTypeOK, TargetTypeOK
  <2> QED BY <2>1, <2>2
<1>4. fault = "pod-kill" => victim \notin Active
  BY <1>2 DEF HitInv, Active
<1>5. RecoveryIsReal'
  BY <1>1, <1>2, <1>3, <1>4 DEF RecoveryIsReal, targetVars, Active
<1>6. fault = "pod-kill" => Cardinality(run.targets) <= replicas
  BY <1>1 DEF TargetReplaced, HitInv
<1> QED BY <1>5, <1>6

(* The object under the experiment's name is its own.                      *)
LEMMA ObjectStep == MInv /\ MeasureNext => ObjectInv'
<1> SUFFICES ASSUME MInv, MeasureNext PROVE ObjectInv'
  OBVIOUS
<1>1. MeasureTypeOK /\ HitInv /\ CallInv /\ ObjectInv /\ run \in Runs /\ TargetTypeOK
      /\ client \in Clients
  BY DEF MInv, MeasureTypeOK
<1>2. pc = "capability" => client = "executor" /\ chaos = "absent"
  BY <1>1 DEF CallInv, Clients
<1>3. run'.recovery = run.recovery /\ run'.recovery /\ UNCHANGED <<pod, restarts, victim, fault>>
        /\ (recovered => recovered') => RecoveryIsReal'
  BY <1>1, RecoveryKept
<1> USE DEF Only, Fields
<1>4. CASE Gate /\ ~(pc = "capability" /\ pc' = "scope")
  <2>4. pc \in GateCalls
    BY <1>1, <1>2, <1>4, GateFields
  <2>1. /\ ~run.applied /\ ~run.injected /\ run.observation = "none" /\ ~run.recovery
    BY <1>1, <2>4 DEF CallInv, BeforeApply, ObjectInv
  <2>2. /\ ~run'.applied /\ ~run'.injected /\ run'.observation = "none" /\ ~run'.recovery
    BY <1>1, <1>2, <1>4, <2>1, GateFields
  <2>3. pc' \notin {"inject", "observe", "recover", "delete", "verify", "sweep"}
    BY <1>1, <1>2, <1>4, GateFields DEF GateCalls
  <2> QED BY <2>2, <2>3 DEF ObjectInv
<1>5. CASE ProbeCapability /\ pc' = "scope"
  BY <1>5 DEF ProbeCapability, Fallback, Blank, ObjectInv, Go
<1>6. CASE PrepareFixture \/ Baseline \/ Apply \/ Misconfigured
  <2>1. pc \in {"prepare", "baseline", "apply"} /\ chaos = "absent" /\ ~run.applied /\ ~run.injected
        /\ run.observation = "none" /\ ~run.recovery
    BY <1>1, <1>6, MutationFields DEF CallInv, BeforeApply, GateCalls, ObjectInv, Runs, Clients
  <2>2. /\ ~run'.injected /\ run'.observation = "none" /\ ~run'.recovery /\ chaos' # "injected"
        /\ pc' = "inject" \/ ~run'.applied
        /\ pc' = "inject" => run'.applied
        /\ pc' \in {"baseline", "apply", "settle", "done", "inject"}
    BY <1>1, <1>6, <2>1, MutationFields DEF Created, targetVars, OnlyChaos, Clients
  <2> QED BY <2>2 DEF ObjectInv, BeforeApply, GateCalls
<1>7. CASE PollInjected \/ Probe \/ Request
  <2>1. /\ UNCHANGED targetVars /\ run'.applied = run.applied /\ run'.recovery = run.recovery
        /\ run'.targets = run.targets
        /\ pc \in {"inject", "observe"} /\ pc' \in {"observe", "recover", "delete"}
    BY <1>1, <1>7, WaitFields
  <2>2. run'.injected => victim # NoPod
    BY <1>1, <1>7, WaitFields DEF ObjectInv, InjectionCounted
  <2>3. /\ pc' \in {"observe", "recover"} => run'.injected
        /\ run'.observation # "none" => run'.injected
        /\ run.injected => run'.injected
    BY <1>1, <1>7, WaitFields DEF ObjectInv
  <2>4. run'.recovery => RecoveryIsReal'
    BY <1>3, <2>1 DEF targetVars
  <2> QED BY <1>1, <2>1, <2>2, <2>3, <2>4 DEF ObjectInv, targetVars, BeforeApply, GateCalls
<1>8. CASE Recover
  <2>1. /\ UNCHANGED targetVars /\ pc = "recover" /\ pc' \in {"recover", "delete"}
        /\ run'.applied = run.applied /\ run'.injected = run.injected
        /\ run'.observation = run.observation /\ run'.targets = run.targets
        /\ pc' = "recover" => run'.recovery = run.recovery
    BY <1>1, <1>8, RecoverFields
  <2>2. run'.recovery => RecoveryIsReal'
    BY <1>1, <1>3, <1>8, <2>1, RecoveryConfirmed DEF targetVars
  <2>3. run'.recovery /\ fault = "pod-kill" => Cardinality(run.targets) <= replicas
    BY <1>1, <1>8, <2>1, RecoveryConfirmed DEF ObjectInv
  <2> QED BY <1>1, <2>1, <2>2, <2>3 DEF ObjectInv, targetVars, BeforeApply, GateCalls
<1>9. CASE Delete \/ VerifyAbsent \/ Sweep \/ SettleFixture
  <2>5. UNCHANGED <<replicas, pod, restarts, victim, fault>> /\ (chaos' = "injected" => chaos = "injected")
    BY <1>1, <1>9, CleanupFields DEF targetVars
  <2>6. recovered => recovered'
    BY <1>1, <1>9, CleanupFields DEF targetVars
  <2>1. /\ UNCHANGED <<replicas, pod, restarts, victim, fault>> /\ (recovered => recovered')
        /\ chaos' = "injected" => chaos = "injected"
    BY <2>5, <2>6
  <2>4. /\ pc \in {"delete", "verify", "sweep", "settle"}
        /\ pc' \in {"verify", "sweep", "settle", "done"}
        /\ pc = "settle" => pc' = "done"
        /\ pc = "sweep" => pc' = "settle"
    BY <1>1, <1>9, CleanupFields
  <2>2. /\ run'.applied = run.applied /\ run'.injected = run.injected
        /\ run'.observation = run.observation /\ run'.targets = run.targets
        /\ run'.recovery = run.recovery
    BY <1>1, <1>9, CleanupFields DEF Clients
  <2>3. run'.recovery => RecoveryIsReal'
    BY <1>3, <2>1, <2>2
  <2> QED BY <1>1, <2>1, <2>2, <2>3, <2>4 DEF ObjectInv, BeforeApply, GateCalls
<1>10. CASE Cluster
  <2>1. /\ UNCHANGED <<run, pc, replicas, fault>>
        /\ chaos' = "injected" => chaos = "injected" \/ victim' # NoPod
        /\ victim' = victim \/ (chaos = "accepted" /\ victim' # NoPod)
        /\ recovered => recovered'
        /\ \A p \in Pods : restarts[p] = 1 => restarts'[p] = 1
    BY <1>1, <1>10, ClusterFacts DEF Cluster, clientVars
  <2>2. victim # NoPod => victim' = victim
    BY <1>1, <2>1 DEF HitInv
  <2>3. run.recovery => RecoveryIsReal'
    BY <1>1, <1>10, <2>1, <2>2, PodOnItsWayOut, RecoveryKept DEF Cluster, ObjectInv
  <2> QED BY <1>1, <2>1, <2>2, <2>3 DEF ObjectInv
<1> QED BY <1>4, <1>5, <1>6, <1>7, <1>8, <1>9, <1>10, ScopeAgain DEF MeasureNext, Experiment

(* What was recorded of a cleanup stays so.                                *)
LEMMA CleanStep == MInv /\ MeasureNext => CleanInv'
<1> SUFFICES ASSUME MInv, MeasureNext PROVE CleanInv'
  OBVIOUS
<1>1. CallInv /\ ObjectInv /\ CleanInv /\ run \in Runs /\ TargetTypeOK /\ client \in Clients
  BY DEF MInv, MeasureTypeOK
<1>2. pc = "capability" => client = "executor" /\ chaos = "absent"
  BY <1>1 DEF CallInv, Clients
<1>3. /\ run.absent \in BOOLEAN /\ run.swept \in BOOLEAN /\ run.settled \in BOOLEAN
      /\ fixture \in BOOLEAN /\ run.prepared \in BOOLEAN
  BY DEF MInv, MeasureTypeOK, Runs
<1> USE DEF Only, Fields
<1>4. ASSUME pc \notin {"verify", "sweep", "settle", "done"}, pc' # "done" \/ run'.status \notin Ran,
             run'.absent = run.absent, run'.swept = run.swept, run'.settled = run.settled,
             run'.status \in Ran => run'.applied /\ pc' \in {"delete", "verify", "sweep", "settle", "done"}
      PROVE  CleanInv'
  <2>1. ~run.absent /\ ~run.swept /\ ~run.settled
    BY <1>1, <1>4 DEF CleanInv
  <2> QED BY <1>4, <2>1 DEF CleanInv
<1>5. CASE Gate /\ ~(pc = "capability" /\ pc' = "scope")
  <2>1. /\ pc \in GateCalls /\ run'.absent = run.absent /\ run'.swept = run.swept
        /\ run'.settled = run.settled
        /\ run'.status = run.status \/ run'.status \in {"environment_blocked", "inapplicable"}
    BY <1>1, <1>2, <1>5, GateFields
  <2>2. run.status = "blocked"
    BY <1>1, <2>1 DEF CallInv, BeforeApply
  <2> QED BY <1>4, <2>1, <2>2 DEF GateCalls, Ran
<1>6. CASE ProbeCapability /\ pc' = "scope"
  BY <1>6 DEF ProbeCapability, Fallback, Blank, CleanInv, Go, Ran
<1>7. CASE PrepareFixture \/ Baseline \/ Apply \/ Misconfigured
  <2>1. /\ pc \in {"prepare", "baseline", "apply"} /\ run'.absent = run.absent /\ run'.swept = run.swept
        /\ run'.settled = run.settled
        /\ \/ run'.status = run.status
           \/ run'.status \in {"business_fixture_prepare_failed", "business_not_reachable", "apply_failed"}
    BY <1>1, <1>7, MutationFields
  <2>2. run.status = "blocked"
    BY <1>1, <2>1 DEF CallInv, BeforeApply
  <2> QED BY <1>4, <2>1, <2>2 DEF Ran
<1>8. CASE PollInjected \/ Probe \/ Request
  <2>1. /\ pc \in {"inject", "observe"} /\ pc' # "done" /\ run'.absent = run.absent
        /\ run'.swept = run.swept /\ run'.settled = run.settled /\ run'.applied = run.applied
        /\ run'.status = run.status \/ pc' = "delete"
    BY <1>1, <1>8, WaitFields
  <2>2. run.applied /\ (run.status \in Ran => FALSE)
    BY <1>1, <2>1 DEF ObjectInv, CleanInv
  <2> QED BY <1>4, <2>1, <2>2
<1>9. CASE Recover
  <2>1. /\ pc = "recover" /\ pc' # "done" /\ run'.absent = run.absent
        /\ run'.swept = run.swept /\ run'.settled = run.settled /\ run'.applied = run.applied
        /\ run'.status = run.status \/ pc' = "delete"
    BY <1>1, <1>9, RecoverFields
  <2>2. run.applied /\ (run.status \in Ran => FALSE)
    BY <1>1, <2>1 DEF ObjectInv, CleanInv
  <2> QED BY <1>4, <2>1, <2>2
<1>10. CASE Delete
  <2>1. pc = "delete" /\ pc' = "verify" /\ UNCHANGED run
    BY <1>10 DEF Delete, Go
  <2> QED BY <1>1, <1>4, <2>1 DEF CleanInv
<1>11. CASE VerifyAbsent \/ Sweep \/ SettleFixture
  <2>1. CASE pc = "verify"
    <3>1. /\ pc' \in {"sweep", "done"} /\ UNCHANGED <<targetVars, fixture, stray, client>>
          /\ run'.swept = run.swept /\ run'.settled = run.settled /\ run'.applied = run.applied
          /\ run'.status = run.status
          /\ run'.absent => chaos = "absent"
          /\ pc' = "done" => client # "executor"
      BY <1>1, <1>11, <2>1, CleanupFields
    <3>2. ~run.swept /\ ~run.settled
      BY <1>1, <2>1 DEF CleanInv
    <3>3. client # "executor" => run.status \notin Ran
      BY <1>1 DEF CallInv, Clients, Ran
    <3>4. chaos' = chaos
      BY <3>1 DEF targetVars
    <3>5. /\ run'.status \in Ran => run'.applied
          /\ pc' = "done" => run'.status \notin Ran
      BY <1>1, <3>1, <3>3 DEF CleanInv
    <3>6. ~run'.swept /\ ~run'.settled /\ (run'.absent => chaos' = "absent")
      BY <3>1, <3>2, <3>4
    <3> QED BY <3>1, <3>5, <3>6 DEF CleanInv
  <2>2. CASE pc = "sweep"
    <3>1. /\ pc' = "settle" /\ (chaos = "absent" => chaos' = "absent")
          /\ run'.absent = run.absent /\ run'.settled = run.settled /\ run'.applied = run.applied
          /\ run'.status = run.status
          /\ run'.swept => chaos' = "absent" /\ stray' = "none"
      BY <1>1, <1>11, <2>2, CleanupFields
    <3>2. ~run.settled
      BY <1>1, <2>2 DEF CleanInv
    <3> QED BY <1>1, <3>1, <3>2 DEF CleanInv
  <2>3. CASE pc = "settle"
    <3>1. /\ pc' = "done" /\ UNCHANGED <<chaos, stray>> /\ run'.absent = run.absent
          /\ run'.swept = run.swept /\ run'.applied = run.applied
          /\ run'.settled => fixture' = FALSE
          /\ run'.status = IF run.applied /\ ~(run'.settled /\ run.absent /\ run.swept)
                           THEN "cleanup_failed" ELSE run.status
      BY <1>1, <1>11, <2>3, CleanupFields DEF targetVars
    <3>2. run'.status \in Ran => run.status \in Ran /\ run'.settled /\ run.absent /\ run.swept
      BY <1>1, <3>1 DEF CleanInv, Ran
    <3>3. run.status \in Ran => run.applied
      BY <1>1 DEF CleanInv
    <3>4. run'.status \in Ran => CleanupConfirmed(run')
      BY <3>1, <3>2 DEF CleanupConfirmed
    <3>5. /\ run'.absent => chaos' = "absent"
          /\ run'.swept => chaos' = "absent" /\ stray' = "none"
      BY <1>1, <3>1 DEF CleanInv
    <3> QED BY <3>1, <3>2, <3>3, <3>4, <3>5 DEF CleanInv, CleanupConfirmed
  <2> QED BY <1>1, <1>11, <2>1, <2>2, <2>3 DEF VerifyAbsent, Sweep, SettleFixture, Go
<1>12. CASE Cluster
  <2>1. UNCHANGED <<run, pc, stray, fixture>> /\ (chaos = "absent" => chaos' = "absent")
    BY <1>1, <1>12, ClusterFacts DEF Cluster, clientVars
  <2> QED BY <1>1, <2>1 DEF CleanInv, CleanupConfirmed
<1> QED BY <1>5, <1>6, <1>7, <1>8, <1>9, <1>10, <1>11, <1>12, ScopeAgain DEF MeasureNext, Experiment

LEMMA MeasureInitially == MeasureInit => MInv
<1> SUFFICES ASSUME MeasureInit PROVE MInv
  OBVIOUS
<1> USE DEF MeasureInit, TargetInit
<1>1. TargetTypeOK
  <2>1. pod \in [Pods -> {"unborn", "starting", "ready", "killed", "terminating", "gone"}]
    OBVIOUS
  <2>2. restarts \in [Pods -> 0 .. 1]
    OBVIOUS
  <2>3. disturbed \in 0 .. Disturbances
    OBVIOUS
  <2> QED BY <2>1, <2>2, <2>3 DEF TargetTypeOK
<1>2. MeasureTypeOK
  <2>1. run \in Runs
    BY BlankType
  <2>2. noted \in [Pods -> 0 .. 1 + OtherRestarts]
    OBVIOUS
  <2>3. stable \in 0 .. StableChecks - 1
    OBVIOUS
  <2> QED BY <1>1, <2>1, <2>2, <2>3 DEF MeasureTypeOK, Clients, Calls
<1>3. HitInv
  <2>1. PICK first \in SUBSET Pods :
          Cardinality(first) = replicas /\ pod = [p \in Pods |-> IF p \in first THEN "ready" ELSE "unborn"]
    OBVIOUS
  <2>2. Active = first
    BY <2>1 DEF Active
  <2> QED BY <1>1, <2>1, <2>2 DEF HitInv, TargetTypeOK
<1>4. CallInv
  BY DEF CallInv, BeforeApply, GateCalls, Blank
<1>5. ObjectInv
  BY DEF ObjectInv, Blank, BeforeApply, GateCalls
<1>6. CleanInv
  BY DEF CleanInv, Blank, Ran
<1> QED BY <1>2, <1>3, <1>4, <1>5, <1>6 DEF MInv

LEMMA MeasureStep == MInv /\ [MeasureNext]_measureVars => MInv'
<1>1. MInv /\ MeasureNext => MInv'
  BY MeasureTypesStep, HitStep, CallStep, ObjectStep, CleanStep DEF MInv
<1>2. MInv /\ UNCHANGED measureVars => MInv'
  <2> SUFFICES ASSUME MInv, UNCHANGED measureVars PROVE MInv'
    OBVIOUS
  <2> USE DEF MInv, measureVars, targetVars, clientVars
  <2>1. MeasureTypeOK'
    BY DEF MeasureTypeOK, TargetTypeOK
  <2>2. HitInv'
    BY DEF HitInv, Active
  <2>3. CallInv'
    BY DEF CallInv, Blank
  <2>4. ObjectInv'
    BY DEF ObjectInv, RecoveryIsReal, Active
  <2>5. CleanInv'
    BY DEF CleanInv, CleanupConfirmed
  <2> QED BY <2>1, <2>2, <2>3, <2>4, <2>5
<1> QED BY <1>1, <1>2

(* The invariant of a measurement is kept by every call of the executor    *)
(* and of the script, and by whatever the cluster, its controllers and     *)
(* older runs do in between (execute, run_chaos_mesh).                     *)
THEOREM MeasureInvariant == MeasureSpec => []MInv
BY MeasureInitially, MeasureStep, PTL DEF MeasureSpec

---------------------------------------------------------------------------
(* What is reported, from the invariant: the properties of every end.      *)
LEMMA Reports ==
  MInv => RecoveryIsReal /\ ResidueIsReported /\ EffectsAreCaused
<1> SUFFICES ASSUME MInv PROVE RecoveryIsReal /\ ResidueIsReported /\ EffectsAreCaused
  OBVIOUS
<1>1. /\ MeasureTypeOK /\ HitInv /\ CallInv /\ ObjectInv /\ CleanInv /\ run \in Runs
      /\ TargetTypeOK /\ client \in {"executor", "script"}
  BY DEF MInv, MeasureTypeOK, Clients
<1>2. RecoveryIsReal
  BY <1>1 DEF ObjectInv, RecoveryIsReal
<1>3. CleanupConfirmed(run) /\ run.applied => Gone /\ stray = "none"
  BY <1>1 DEF CleanInv, CleanupConfirmed, Gone
<1>4. run.status \in Ran /\ pc = "done" => run.applied /\ CleanupConfirmed(run)
  BY <1>1 DEF CleanInv
<1>5. Classification(run) \notin NonExecution => run.injected
  <2>1. run.forced # "none" => run.forced \in NonExecution
    BY <1>1 DEF Runs, NonExecution
  <2>2. ~run.injected => Classified(run) \in NonExecution
    BY <1>1 DEF Classified, NonExecution, Runs
  <2> QED BY <2>1, <2>2 DEF Classification
<1>6. ResidueIsReported
  <2>1. Valid(run) => run.applied /\ CleanupConfirmed(run)
    BY DEF Valid, Required, Attestation
  <2>2. ExitCode(run) = 0 /\ "cleanup_unconfirmed" \notin Labels(run) => run.absent
    BY <1>5 DEF ExitCode, Labels
  <2>3. run.absent => chaos = "absent"
    BY <1>1 DEF CleanInv
  <2> QED BY <1>3, <1>4, <2>1, <2>2, <2>3 DEF ResidueIsReported, Reported, Ran
<1>7. EffectsAreCaused
  <2>1. run.injected => victim # NoPod
    BY <1>1 DEF ObjectInv
  <2>2. LiveOutcome(run) \in Effects => run.injected
    BY DEF LiveOutcome, Effects
  <2>3. ObservationVerdict(run) \in Observations => run.injected
    <3>1. run.observation # "none" => run.injected
      BY <1>1 DEF ObjectInv
    <3>2. run.status \notin Observations
      BY <1>1 DEF Runs, Observations
    <3> QED BY <3>1, <3>2 DEF ObservationVerdict, Observations
  <2>4. MechanismEvidence(run) # {} => run.injected /\ run.recovery /\ run.applied /\ CleanupConfirmed(run)
    <3>1. MechanismEvidence(run) # {} => Lifecycle \subseteq Attestation(run)
      BY DEF MechanismEvidence, LifecycleEvidence
    <3>2. "cleanup" \in Attestation(run) => run.applied /\ CleanupConfirmed(run)
      BY DEF Attestation
    <3>3. /\ "injection" \in Attestation(run) => run.injected
          /\ "recovery" \in Attestation(run) => run.recovery
      BY DEF Attestation
    <3> QED BY <3>1, <3>2, <3>3 DEF Lifecycle
  <2>5. LiveOutcome(run) = "availability_defended" => RedundancyClaimed(run)
    BY DEF LiveOutcome
  <2>6. RedundancyClaimed(run) =>
          /\ run.kind = "pod-kill" /\ Cardinality(run.targets) >= 2
          /\ run.recovery /\ run.applied /\ CleanupConfirmed(run)
    BY DEF RedundancyClaimed, Lifecycle, Attestation
  <2>7. RedundancyClaimed(run) =>
          /\ replicas >= 2 /\ victim \notin Active
          /\ CleanupReport(run) = "verified" /\ Gone
    <3> SUFFICES ASSUME RedundancyClaimed(run)
                 PROVE  /\ replicas >= 2 /\ victim \notin Active
                        /\ CleanupReport(run) = "verified" /\ Gone
      OBVIOUS
    <3>1. fault = "pod-kill"
      BY <1>1, <2>6 DEF CallInv
    <3>2. Cardinality(run.targets) <= replicas
      BY <1>1, <2>6, <3>1 DEF ObjectInv
    <3>3. replicas >= 2
      <4>1. run.targets \subseteq Pods
        BY <1>1 DEF Runs
      <4>2. Cardinality(run.targets) \in Nat
        BY <4>1, FS_Subset, FS_CardinalityType
      <4> QED BY <1>1, <2>6, <3>2, <4>2, PodStates
    <3> QED BY <1>2, <1>3, <2>6, <3>1, <3>3 DEF RecoveryIsReal, CleanupReport
  <2>8. Contract(run) \in {"weakness", "response_preserved"} => run.injected
    <3>1. ~run.injected => Classified(run) \in {"platform_or_preflight_blocked", "not_applicable", "invalid_not_injected"}
      BY DEF Classified
    <3> QED BY <3>1 DEF Contract
  <2>9. EvidenceState(run) \notin {"no_effect_evidence", "no_defense_conclusion"} => run.injected
    BY DEF EvidenceState
  <2> QED BY <1>2, <1>3, <1>5, <2>1, <2>2, <2>3, <2>4, <2>5, <2>7, <2>8, <2>9
          DEF EffectsAreCaused, RecoveryIsReal
<1> QED BY <1>2, <1>6, <1>7

(* The variables of a measurement keep their types, for any number of      *)
(* Pods, replicas and polls.                                               *)
THEOREM MeasureTypes == MeasureSpec => []MeasureTypeOK
<1>1. MInv => MeasureTypeOK
  BY DEF MInv
<1> QED BY <1>1, MeasureInvariant, PTL

(* A recovery that is recorded is one of the fault this experiment         *)
(* injected: the killed Pod is out, the killed container ran again, the    *)
(* controller lifted the fault (_wait_injected, _wait_recovered).          *)
THEOREM RecoveriesAreReal == MeasureSpec => []RecoveryIsReal
BY MeasureInvariant, Reports, PTL

(* Whatever an experiment leaves of its object and its fixture it says, in *)
(* its status, its labels or its exit code, and nothing it leaves is       *)
(* attested as valid (cleanup_confirmed, lifecycle_valid).                 *)
THEOREM ResidueIsSaid == MeasureSpec => []ResidueIsReported
BY MeasureInvariant, Reports, PTL

(* No effect, mechanism or redundancy is ascribed to an experiment whose   *)
(* own object hit no Pod (classify_live_outcome, observation_verdict).     *)
THEOREM EffectsHaveACause == MeasureSpec => []EffectsAreCaused
BY MeasureInvariant, Reports, PTL

---------------------------------------------------------------------------
(* The measurement implements the lifecycle.                               *)

Flags == {"prepared", "applied", "injected", "absent", "swept", "settled", "raised"}

OneStep == [One!OneCallNext]_(One!lifecycleVars)

(* The lifecycle's step of each call.                                      *)
StepAt ==
  [c \in Calls |->
     IF c \in {"scope", "platform", "targets", "name", "capability"} THEN "gate"
     ELSE IF c = "inject" THEN "wait"
     ELSE IF c = "verify" THEN "delete"
     ELSE IF c = "done" THEN "returned" ELSE c]

(* What the lifecycle module sees of a state.                              *)
LEMMA ExecutorsView ==
  ASSUME client = "executor", client' = "executor", pc \in Calls, pc' \in Calls
  PROVE  /\ Step = StepAt[pc] /\ Step' = StepAt[pc']
         /\ (IF Step = "idle" THEN "none" ELSE "this") = IF pc = "idle" THEN "none" ELSE "this"
         /\ (IF Step' = "idle" THEN "none" ELSE "this") = IF pc' = "idle" THEN "none" ELSE "this"
         /\ (IF Executed THEN run.status ELSE "blocked") = run.status
         /\ (IF Executed' THEN run'.status ELSE "blocked") = run'.status
         /\ Known = {f \in Flags : run[f]} /\ Known' = {f \in Flags : run'[f]}
         /\ Objects = (IF chaos = "absent" THEN {} ELSE {"this"})
                        \cup (IF stray = "owned" THEN {"stray"} ELSE {})
         /\ Objects' = (IF chaos' = "absent" THEN {} ELSE {"this"})
                        \cup (IF stray' = "owned" THEN {"stray"} ELSE {})
<1>1. Step = StepAt[pc] /\ Step' = StepAt[pc']
  BY DEF Step, StepAt, Executed, Calls
<1>2. \A c \in Calls : StepAt[c] = "idle" <=> c = "idle"
  BY DEF StepAt, Calls
<1>3. Known = {f \in Flags : run[f]} /\ Known' = {f \in Flags : run'[f]}
  BY DEF Known, Flags, Executed
<1>4. Objects = (IF chaos = "absent" THEN {} ELSE {"this"})
                  \cup (IF stray = "owned" THEN {"stray"} ELSE {})
  BY DEF Objects, Executed
<1>5. Objects' = (IF chaos' = "absent" THEN {} ELSE {"this"})
                  \cup (IF stray' = "owned" THEN {"stray"} ELSE {})
  BY DEF Objects, Executed
<1> QED BY <1>1, <1>2, <1>3, <1>4, <1>5 DEF Executed

(* A run of calls that leaves what the lifecycle knows leaves it alone.    *)
LEMMA KnownOf ==
  ASSUME client = "executor", client' = "executor", NEW f \in Flags,
         \A g \in Flags \ {f} : run'[g] = run[g]
  PROVE  /\ run'[f] = run[f] => Known' = Known
         /\ run'[f] => Known' = Known \cup {f}
         /\ f \in Known <=> run[f]
BY DEF Known, Flags, Executed

(* A call that changes nothing the lifecycle sees is a stutter.            *)
LEMMA LeavesTheCallAlone ==
  ASSUME client = "executor", client' = "executor", Step' = Step, Known' = Known,
         run'.status = run.status, Objects' = Objects, fixture' = fixture
  PROVE  OneStep
<1>1. (IF Executed' THEN run'.status ELSE "blocked") = (IF Executed THEN run.status ELSE "blocked")
  BY DEF Executed
<1> QED BY <1>1 DEF OneStep, One!lifecycleVars, One!callVars, One!clusterVars

(* A gate is a step of the lifecycle, or none.                             *)
LEMMA GateImplements ==
  ASSUME MInv, MInv', Gate, client = "executor"
  PROVE  OneStep
<1>1. /\ CallInv /\ CleanInv /\ run \in Runs /\ pc \in Calls /\ pc' \in Calls /\ client \in Clients
  BY DEF MInv, MeasureTypeOK
<1>2. CASE pc = "capability" /\ pc' = "scope"
  <2>1. /\ chaos' \in {"absent", "injected"} /\ run' = Blank("timed") /\ client' = "executor"
        /\ fixture' = fixture /\ stray' = stray
    BY <1>2, ScopeAgain DEF ProbeCapability, Fallback, Polling
  <2>2. ~run.prepared /\ ~run.applied /\ ~run.injected /\ ~run.raised /\ run.status = "blocked"
    BY <1>1, <1>2 DEF CallInv, BeforeApply, GateCalls
  <2>3. ~run.absent /\ ~run.swept /\ ~run.settled
    BY <1>1, <1>2 DEF CleanInv
  <2>4. Known = {} /\ Known' = {}
    BY <1>1, <2>1, <2>2, <2>3, ExecutorsView DEF Flags, Blank
  <2>5. run'.status = "blocked"
    BY <2>1 DEF Blank
  <2>6. One!ObjectsOfOthers
    BY <1>1, <1>2, <2>1, <2>2, <2>4, <2>5, ExecutorsView
       DEF One!ObjectsOfOthers, One!callVars, StepAt, Calls, Objects
  <2> QED BY <2>6 DEF OneStep, One!OneCallNext
<1>3. CASE ~(pc = "capability" /\ pc' = "scope")
  <2>1. /\ pc \in GateCalls /\ pc' # "idle"
        /\ pc' \in GateCalls \cup {"prepare", "apply", "done"}
        /\ pc' = "prepare" => chaos = "absent"
        /\ pc' # "apply"
        /\ pc' = "done" => run'.status \in {"environment_blocked", "inapplicable"}
        /\ pc' # "done" => run'.status = run.status
        /\ Only({"targets", "suitable", "decision", "status"})
        /\ UNCHANGED <<targetVars, client, fixture, stray>>
    BY <1>1, <1>3, GateFields DEF CallInv
  <2>2. Known' = Known
    BY <2>1, KnownOf DEF Only, Fields, Flags
  <2>3. Objects' = Objects
    BY <2>1 DEF Objects, Executed, targetVars
  <2>4. CASE pc = "idle"
    <3>1. Start
      BY <2>4 DEF Gate, Start, CheckScope, CheckPlatform, ListTargets, CheckName, ProbeCapability, Go
    <3>2. pc' = "scope" /\ run = Blank(fault)
      BY <1>1, <2>4, <3>1 DEF Start, Go, CallInv
    <3>3. Known = {}
      BY <1>1, <2>1, <3>2, ExecutorsView DEF Flags, Blank
    <3>4. run'.status = "blocked" /\ run.status = "blocked"
      BY <2>1, <3>2 DEF Blank
    <3>5. One!Call("this")
      BY <1>1, <2>1, <2>2, <2>3, <2>4, <3>2, <3>3, <3>4, ExecutorsView
         DEF One!Call, One!Go, One!clusterVars, StepAt, Calls
    <3> QED BY <3>5 DEF OneStep, One!OneCallNext
  <2>5. CASE pc # "idle" /\ pc' \in GateCalls
    <3>1. Step' = Step
      BY <1>1, <2>1, <2>5, ExecutorsView DEF StepAt, Calls, GateCalls
    <3> QED BY <2>1, <2>2, <2>3, <2>5, <3>1, LeavesTheCallAlone DEF GateCalls
  <2>6. CASE pc # "idle" /\ pc' \in {"prepare", "done"}
    <3>1. Step = "gate" /\ Step' = (IF pc' = "prepare" THEN "prepare" ELSE "returned")
      BY <1>1, <2>1, <2>6, ExecutorsView DEF StepAt, Calls, GateCalls
    <3>2. pc' = "prepare" => "this" \notin Objects
      BY <2>1 DEF Objects
    <3>3. One!Gate
      BY <1>1, <2>1, <2>2, <2>3, <2>6, <3>1, <3>2, ExecutorsView DEF One!Gate, One!Go
    <3> QED BY <3>3 DEF OneStep, One!OneCallNext, One!LifecycleStep
  <2> QED BY <2>1, <2>4, <2>5, <2>6
<1> QED BY <1>2, <1>3

(* Applying is a step of the lifecycle, or none.                           *)
LEMMA MutationImplements ==
  ASSUME MInv, MInv', PrepareFixture \/ Baseline \/ Apply \/ Misconfigured, client = "executor"
  PROVE  OneStep
<1>1. /\ CallInv /\ CleanInv /\ run \in Runs /\ pc \in Calls /\ pc' \in Calls /\ client \in Clients
      /\ fixture \in BOOLEAN /\ fixture' \in BOOLEAN
  BY DEF MInv, MeasureTypeOK
<1>2. client' = "executor" /\ stray' = stray
  BY <1>1, MutationFields
<1> USE DEF Only, Fields, Flags
<1>3. CASE pc = "prepare"
  <2>1. /\ pc' \in {"baseline", "done"} /\ UNCHANGED targetVars
        /\ pc' = "baseline" => Only({"prepared"}) /\ run'.prepared = fixture'
        /\ pc' = "done" => Only({"status"}) /\ run'.status = "business_fixture_prepare_failed"
    BY <1>1, <1>3, MutationFields
  <2>2. ~run.prepared /\ fixture = FALSE
    BY <1>1, <1>3 DEF CallInv
  <2>3. Objects' = Objects
    BY <1>2, <2>1 DEF Objects, Executed, targetVars
  <2>4. Step = "prepare" /\ Step' = IF pc' = "baseline" THEN "baseline" ELSE "returned"
    BY <1>1, <1>2, <1>3, <2>1, ExecutorsView DEF StepAt, Calls
  <2>5. CASE pc' = "baseline"
    <3>1. CASE fixture' = TRUE
      <4>1. Known' = Known \cup {"prepared"} /\ run'.status = run.status
        BY <1>2, <2>1, <2>5, <3>1, KnownOf
      <4> QED BY <1>1, <1>2, <1>3, <2>1, <2>2, <2>3, <2>4, <2>5, <3>1, <4>1, ExecutorsView
              DEF One!PrepareFixture, One!Go, OneStep, One!OneCallNext, One!LifecycleStep
    <3>2. CASE fixture' = FALSE
      <4>1. Known' = Known /\ run'.status = run.status
        BY <1>1, <1>2, <2>1, <2>2, <2>5, <3>2, KnownOf DEF Runs
      <4> QED BY <1>1, <1>2, <1>3, <2>1, <2>2, <2>3, <2>4, <2>5, <3>2, <4>1, ExecutorsView
              DEF One!PrepareFixture, One!Go, OneStep, One!OneCallNext, One!LifecycleStep
    <3> QED BY <1>1, <3>1, <3>2
  <2>6. CASE pc' = "done"
    <3>1. Known' = Known
      BY <1>2, <2>1, <2>6, KnownOf
    <3>2. One!PrepareFixture
      BY <1>1, <1>2, <1>3, <2>1, <2>2, <2>3, <2>4, <2>6, <3>1, ExecutorsView
         DEF One!PrepareFixture, One!MayExist, One!Go
    <3> QED BY <3>2 DEF OneStep, One!OneCallNext, One!LifecycleStep
  <2> QED BY <2>1, <2>5, <2>6
<1>4. CASE pc = "baseline"
  <2>1. /\ pc' \in {"baseline", "apply", "settle", "done"} /\ UNCHANGED <<targetVars, fixture>>
        /\ pc' \in {"baseline", "apply"} => Only({"baseline"})
        /\ pc' = "settle" => Only({"baseline", "status"}) /\ run'.status = "business_not_reachable"
        /\ pc' = "done" => Only({"raised"}) /\ run'.raised
    BY <1>1, <1>4, MutationFields
  <2>2. Objects' = Objects
    BY <1>2, <2>1 DEF Objects, Executed, targetVars
  <2>3. Step = "baseline" /\ Step' = StepAt[pc'] /\ StepAt[pc'] # "idle"
    BY <1>1, <1>2, <1>4, <2>1, ExecutorsView DEF StepAt, Calls
  <2>4. CASE pc' # "done"
    <3>1. Known' = Known
      BY <1>2, <2>1, <2>4, KnownOf
    <3>2. CASE pc' = "baseline"
      <4>1. Step' = Step /\ run'.status = run.status
        BY <1>4, <2>1, <2>3, <3>2 DEF StepAt, Calls
      <4> QED BY <1>2, <2>1, <2>2, <3>1, <4>1, LeavesTheCallAlone
    <3>3. CASE pc' \in {"apply", "settle"}
      <4>1. Step' = pc' /\ (pc' = "apply" => run'.status = run.status)
        BY <2>1, <2>3, <3>3 DEF StepAt, Calls
      <4>2. One!Baseline
        BY <1>1, <1>2, <1>4, <2>1, <2>2, <2>3, <3>1, <3>3, <4>1, ExecutorsView
           DEF One!Baseline, One!Go
      <4> QED BY <4>2 DEF OneStep, One!OneCallNext, One!LifecycleStep
    <3> QED BY <2>1, <2>4, <3>2, <3>3
  <2>5. CASE pc' = "done"
    <3>1. Known' = Known \cup {"raised"} /\ run'.status = run.status
      BY <1>2, <2>1, <2>5, KnownOf
    <3>2. Step' = "returned"
      BY <2>3, <2>5 DEF StepAt, Calls
    <3>3. One!Baseline
      BY <1>1, <1>2, <1>4, <2>1, <2>2, <2>3, <2>5, <3>1, <3>2, ExecutorsView
         DEF One!Baseline, One!Go
    <3> QED BY <3>3 DEF OneStep, One!OneCallNext, One!LifecycleStep
  <2> QED BY <2>4, <2>5
<1>5. CASE pc = "apply"
  <2>1. /\ pc' \in {"inject", "done"} /\ fixture' = fixture
        /\ Created \/ (pc' = "done" /\ UNCHANGED chaos)
        /\ pc' = "inject" => Only({"applied"}) /\ run'.applied
        /\ pc' = "done" => Only({"status", "forced"}) /\ run'.status = "apply_failed"
    BY <1>1, <1>5, MutationFields
  <2>2. Step = "apply" /\ Step' = IF pc' = "inject" THEN "wait" ELSE "returned"
    BY <1>1, <1>2, <1>5, <2>1, ExecutorsView DEF StepAt, Calls
  <2>3. Objects' = Objects \cup {"this"} \/ (pc' = "done" /\ Objects' = Objects)
    BY <1>1, <1>2, <2>1, ExecutorsView DEF Created
  <2>4. CASE pc' = "inject"
    <3>1. Known' = Known \cup {"applied"} /\ run'.status = run.status
      BY <1>2, <2>1, <2>4, KnownOf
    <3>2. One!Apply
      BY <1>1, <1>2, <1>5, <2>1, <2>2, <2>3, <2>4, <3>1, ExecutorsView DEF One!Apply, One!Go
    <3> QED BY <3>2 DEF OneStep, One!OneCallNext, One!LifecycleStep
  <2>5. CASE pc' = "done"
    <3>1. Known' = Known
      BY <1>2, <2>1, <2>5, KnownOf
    <3>2. One!Apply
      BY <1>1, <1>2, <1>5, <2>1, <2>2, <2>3, <2>5, <3>1, ExecutorsView
         DEF One!Apply, One!MayExist, One!Go
    <3> QED BY <3>2 DEF OneStep, One!OneCallNext, One!LifecycleStep
  <2> QED BY <2>1, <2>4, <2>5
<1> QED BY <1>1, <1>3, <1>4, <1>5, MutationFields

(* Waiting is a step of the lifecycle, or none.                            *)
LEMMA WaitImplements ==
  ASSUME MInv, MInv', PollInjected \/ Probe \/ Request \/ Recover, client = "executor"
  PROVE  OneStep
<1>1. /\ run \in Runs /\ pc \in Calls /\ pc' \in Calls
      /\ fixture \in BOOLEAN /\ fixture' \in BOOLEAN
  BY DEF MInv, MeasureTypeOK
<1>2. UNCHANGED <<targetVars, client, fixture, stray>>
  BY <1>1, WaitFields, RecoverFields
<1>3. Objects' = Objects
  BY <1>2 DEF Objects, Executed, targetVars
<1> USE DEF Only, Fields, Flags
<1>4. CASE pc = "inject"
  <2>1. /\ pc' \in {"observe", "delete"}
        /\ pc' = "observe" => Only({"injected"}) /\ run'.injected
        /\ pc' = "delete" => Only({"status"}) /\ run'.status = "injection_not_confirmed"
    BY <1>1, <1>4, WaitFields, RecoverFields
  <2>2. Step = "wait" /\ Step' = pc'
    BY <1>1, <1>2, <1>4, <2>1, ExecutorsView DEF StepAt, Calls
  <2>3. /\ pc' = "observe" => Known' = Known \cup {"injected"} /\ run'.status = run.status
        /\ pc' = "delete" => Known' = Known
    BY <1>2, <2>1, KnownOf
  <2>4. One!WaitInjected
    BY <1>1, <1>2, <1>3, <1>4, <2>1, <2>2, <2>3, ExecutorsView DEF One!WaitInjected, One!Go
  <2> QED BY <2>4 DEF OneStep, One!OneCallNext, One!LifecycleStep
<1>5. CASE pc = "observe"
  <2>1. /\ pc' \in {"observe", "recover", "delete"} /\ run'.status = run.status
        /\ pc' # "delete" => Only({"observation", "samples", "forced"})
        /\ pc' = "delete" => Only({"raised"}) /\ run'.raised
    BY <1>1, <1>5, WaitFields, RecoverFields
  <2>2. Step = "observe" /\ Step' = pc'
    BY <1>1, <1>2, <1>5, <2>1, ExecutorsView DEF StepAt, Calls
  <2>3. /\ pc' # "delete" => Known' = Known
        /\ pc' = "delete" => Known' = Known \cup {"raised"}
    BY <1>2, <2>1, KnownOf
  <2>4. CASE pc' = "observe"
    BY <1>2, <1>3, <2>1, <2>2, <2>3, <2>4, LeavesTheCallAlone
  <2>5. CASE pc' # "observe"
    <3>1. One!Observe
      BY <1>1, <1>2, <1>3, <1>5, <2>1, <2>2, <2>3, <2>5, ExecutorsView DEF One!Observe, One!Go
    <3> QED BY <3>1 DEF OneStep, One!OneCallNext, One!LifecycleStep
  <2> QED BY <2>4, <2>5
<1>6. CASE pc = "recover"
  <2>1. /\ pc' = "recover" /\ UNCHANGED run
        \/ /\ pc' = "delete" /\ Only({"recovery", "status"})
           /\ run'.status \in {"executed", "recovery_timeout"}
    BY <1>1, <1>6, WaitFields, RecoverFields
  <2>2. Step = "recover" /\ Step' = pc'
    BY <1>1, <1>2, <1>6, <2>1, ExecutorsView DEF StepAt, Calls
  <2>3. Known' = Known
    BY <1>2, <2>1, KnownOf
  <2>4. CASE pc' = "recover"
    BY <1>2, <1>3, <2>1, <2>2, <2>3, <2>4, LeavesTheCallAlone
  <2>5. CASE pc' = "delete"
    <3>1. One!WaitRecovered
      BY <1>1, <1>2, <1>3, <1>6, <2>1, <2>2, <2>3, <2>5, ExecutorsView DEF One!WaitRecovered, One!Go
    <3> QED BY <3>1 DEF OneStep, One!OneCallNext, One!LifecycleStep
  <2> QED BY <2>1, <2>4, <2>5
<1> QED BY <1>1, <1>4, <1>5, <1>6, WaitFields, RecoverFields

(* Each step of the cleanup is that of the lifecycle.                      *)
LEMMA CleanupImplements ==
  ASSUME MInv, MInv', Delete \/ VerifyAbsent \/ Sweep \/ SettleFixture, client = "executor"
  PROVE  OneStep
<1>1. /\ CallInv /\ CleanInv /\ run \in Runs /\ pc \in Calls /\ pc' \in Calls /\ client \in Clients
      /\ fixture \in BOOLEAN /\ fixture' \in BOOLEAN
  BY DEF MInv, MeasureTypeOK
<1>2. client' = "executor"
  BY <1>1, CleanupFields
<1> USE DEF Only, Fields, Flags
<1>3. CASE pc = "delete"
  <2>1. /\ pc' = "verify" /\ UNCHANGED <<run, fixture, stray>>
        /\ chaos' = "absent" <=> chaos = "absent"
    BY <1>1, <1>3, CleanupFields
  <2>2. Step' = Step
    BY <1>1, <1>2, <1>3, <2>1, ExecutorsView DEF StepAt, Calls
  <2>3. Known' = Known
    BY <1>2, <2>1, KnownOf
  <2>4. Objects' = Objects
    BY <1>1, <1>2, <2>1, ExecutorsView
  <2> QED BY <1>2, <2>1, <2>2, <2>3, <2>4, LeavesTheCallAlone
<1>4. CASE pc = "verify"
  <2>1. /\ pc' = "sweep" /\ UNCHANGED <<targetVars, fixture, stray>>
        /\ Only({"absent"}) /\ run'.absent \in BOOLEAN
        /\ run'.absent => chaos = "absent"
    BY <1>1, <1>4, CleanupFields
  <2>2. Step = "delete" /\ Step' = "sweep"
    BY <1>1, <1>2, <1>4, <2>1, ExecutorsView DEF StepAt, Calls
  <2>3. Objects' = Objects
    BY <1>2, <2>1 DEF Objects, Executed, targetVars
  <2>4. CASE run'.absent = TRUE
    <3>1. Known' = Known \cup {"absent"} /\ run'.status = run.status
      BY <1>2, <2>1, <2>4, KnownOf
    <3>2. "this" \notin Objects
      BY <2>1, <2>4 DEF Objects
    <3>3. One!Delete
      BY <1>1, <1>2, <1>4, <2>1, <2>2, <2>3, <3>1, <3>2, ExecutorsView DEF One!Delete, One!Go
    <3> QED BY <3>3 DEF OneStep, One!OneCallNext, One!LifecycleStep
  <2>5. CASE run'.absent = FALSE
    <3>1. run.absent = FALSE
      BY <1>1, <1>4 DEF CleanInv, Runs
    <3>2. Known' = Known /\ run'.status = run.status
      BY <1>2, <2>1, <2>5, <3>1, KnownOf
    <3>3. One!Delete
      BY <1>1, <1>2, <1>4, <2>1, <2>2, <2>3, <3>2, ExecutorsView DEF One!Delete, One!MayBeGone, One!Go
    <3> QED BY <3>3 DEF OneStep, One!OneCallNext, One!LifecycleStep
  <2> QED BY <2>1, <2>4, <2>5
<1>5. CASE pc = "sweep"
  <2>1. /\ pc' = "settle" /\ UNCHANGED fixture
        /\ chaos = "absent" => chaos' = "absent"
        /\ stray' = "owned" => stray = "owned"
        /\ Only({"swept"}) /\ run'.swept \in BOOLEAN
        /\ run'.swept => chaos' = "absent" /\ stray' = "none"
    BY <1>1, <1>5, CleanupFields
  <2>2. Step = "sweep" /\ Step' = "settle"
    BY <1>1, <1>2, <1>5, <2>1, ExecutorsView DEF StepAt, Calls
  <2>3. Objects' \subseteq Objects /\ (run'.swept => Objects' = {})
    BY <1>1, <1>2, <2>1, ExecutorsView
  <2>4. Known' = Known \/ (run'.swept /\ Known' = Known \cup {"swept"})
    <3>1. run.swept = FALSE
      BY <1>1, <1>5 DEF CleanInv, Runs
    <3> QED BY <1>2, <2>1, <3>1, KnownOf
  <2>5. One!Sweep
    BY <1>1, <1>2, <1>5, <2>1, <2>2, <2>3, <2>4, ExecutorsView DEF One!Sweep, One!Go
  <2> QED BY <2>5 DEF OneStep, One!OneCallNext, One!LifecycleStep
<1>6. CASE pc = "settle"
  <2>1. /\ pc' = "done" /\ UNCHANGED <<targetVars, stray>>
        /\ Only({"settled", "status"}) /\ run'.settled \in BOOLEAN
        /\ ~run.prepared => run'.settled
        /\ fixture' \in IF run.prepared /\ ~run'.settled THEN {fixture, FALSE} ELSE {FALSE}
        /\ run'.status = IF run.applied /\ ~(run'.settled /\ run.absent /\ run.swept)
                         THEN "cleanup_failed" ELSE run.status
    BY <1>1, <1>6, CleanupFields
  <2>2. Step = "settle" /\ Step' = "returned"
    BY <1>1, <1>2, <1>6, <2>1, ExecutorsView DEF StepAt, Calls
  <2>3. Objects' = Objects
    BY <1>2, <2>1 DEF Objects, Executed, targetVars
  <2>4. run.settled = FALSE /\ fixture = run.prepared
    BY <1>1, <1>6 DEF CleanInv, CallInv, Runs
  <2>5. /\ run'.settled => Known' = Known \cup {"settled"}
        /\ ~run'.settled => Known' = Known
        /\ "prepared" \in Known <=> run.prepared
        /\ "applied" \in Known <=> run.applied
    <3>1. /\ run'.settled => Known' = Known \cup {"settled"}
          /\ ~run'.settled => Known' = Known
      BY <1>2, <2>1, <2>4, KnownOf
    <3>2. /\ "prepared" \in Known <=> run.prepared
          /\ "applied" \in Known <=> run.applied
      BY DEF Known, Executed
    <3> QED BY <3>1, <3>2
  <2>6. One!CleanupConfirmed(Known') \/ ~run.applied <=> ~run.applied \/ (run'.settled /\ run.absent /\ run.swept)
    <3>1. Known' = {f \in Flags : run'[f]}
      BY <1>1, <1>2, ExecutorsView
    <3>2. /\ "settled" \in Known' <=> run'.settled
          /\ "applied" \in Known' <=> run.applied
          /\ {"absent", "swept"} \subseteq Known' <=> run.absent /\ run.swept
      BY <2>1, <3>1
    <3> QED BY <3>2 DEF One!CleanupConfirmed
  <2>7. run'.status = IF "applied" \in Known /\ ~One!CleanupConfirmed(Known')
                      THEN "cleanup_failed" ELSE run.status
    BY <2>1, <2>5, <2>6
  <2>8. CASE ~run.prepared
    <3>1. fixture' = fixture
      BY <1>1, <2>1, <2>4, <2>8
    <3>2. One!SettleFixture
      BY <1>1, <1>2, <1>6, <2>1, <2>2, <2>3, <2>5, <2>7, <2>8, <3>1, ExecutorsView
         DEF One!SettleFixture, One!Go
    <3> QED BY <3>2 DEF OneStep, One!OneCallNext, One!LifecycleStep
  <2>9. CASE run.prepared
    <3>1. ASSUME run'.settled = TRUE PROVE One!SettleFixture
      <4>1. Known' = Known \cup {"settled"} /\ fixture' = FALSE
        BY <2>1, <2>5, <3>1
      <4> QED BY <1>1, <1>2, <1>6, <2>2, <2>3, <2>5, <2>7, <2>9, <4>1, ExecutorsView
              DEF One!SettleFixture, One!Go
    <3>2. ASSUME run'.settled = FALSE PROVE One!SettleFixture
      <4>1. Known' = Known /\ fixture' \in {fixture, FALSE}
        BY <2>1, <2>5, <2>9, <3>2
      <4>2. (IF fixture' THEN {"this"} ELSE {}) \in One!MayBeGone(IF fixture THEN {"this"} ELSE {})
        <5>1. CASE fixture = TRUE
          BY <1>1, <2>2, <4>1, <5>1 DEF One!MayBeGone
        <5>2. CASE fixture = FALSE
          <6>1. fixture' = FALSE
            BY <4>1, <5>2
          <6> QED BY <5>2, <6>1 DEF One!MayBeGone
        <5> QED BY <1>1, <5>1, <5>2
      <4> QED BY <1>1, <1>2, <1>6, <2>2, <2>3, <2>5, <2>7, <2>9, <4>1, <4>2, ExecutorsView
              DEF One!SettleFixture, One!Go
    <3>3. One!SettleFixture
      BY <2>1, <3>1, <3>2
    <3> QED BY <3>3 DEF OneStep, One!OneCallNext, One!LifecycleStep
  <2> QED BY <2>8, <2>9
<1> QED BY <1>1, <1>3, <1>4, <1>5, <1>6, CleanupFields

(* What others do, and the stand-alone runner, which is no call.           *)
LEMMA OthersImplement ==
  ASSUME MInv, MInv', Cluster \/ client = "script" \/ UNCHANGED measureVars, client' = client
  PROVE  OneStep
<1>1. /\ CallInv /\ CallInv' /\ pc \in Calls /\ TargetTypeOK /\ client \in {"executor", "script"}
      /\ fixture \in BOOLEAN /\ fixture' \in BOOLEAN
  BY DEF MInv, MeasureTypeOK, Clients
<1>2. CASE client = "script"
  <2>1. ~fixture /\ ~fixture'
    BY <1>1, <1>2 DEF CallInv
  <2>2. Step = "idle" /\ Step' = "idle"
    BY <1>2 DEF Step, Executed
  <2>3. Known' = Known /\ Objects' = Objects
    BY <1>2 DEF Known, Objects, Executed
  <2> QED BY <1>1, <1>2, <2>1, <2>2, <2>3
          DEF OneStep, One!lifecycleVars, One!callVars, One!clusterVars, Executed
<1>3. CASE client = "executor" /\ UNCHANGED measureVars
  <2>1. Step' = Step /\ Known' = Known /\ Objects' = Objects
    BY <1>3 DEF Step, Known, Objects, Executed, measureVars, clientVars, targetVars
  <2> QED BY <1>3, <2>1, LeavesTheCallAlone DEF measureVars, clientVars
<1>4. CASE client = "executor" /\ Cluster
  <2>1. UNCHANGED clientVars /\ (chaos = "absent" => chaos' = "absent")
    BY <1>1, <1>4, ClusterFacts DEF Cluster
  <2>2. Step' = Step /\ Known' = Known
    BY <2>1 DEF Step, Known, Executed, clientVars
  <2>3. Objects' \subseteq Objects /\ Objects \subseteq {"this", "stray"}
    BY <2>1 DEF Objects, Executed, clientVars
  <2>4. One!ObjectsOfOthers
    BY <1>4, <2>1, <2>2, <2>3 DEF One!ObjectsOfOthers, One!callVars, Executed, clientVars
  <2> QED BY <2>4 DEF OneStep, One!OneCallNext
<1> QED BY <1>1, <1>2, <1>3, <1>4

(* Call by call a measurement is one call of the lifecycle that a batch is *)
(* modelled with: every step of it is a step of LifecycleExecutor or       *)
(* changes nothing that module sees, so that what is proved of a batch's   *)
(* executor is kept by this one.                                           *)
THEOREM MeasurementImplementsLifecycle == MeasureSpec => ImplementsLifecycle
<1>1. MeasureInit => One!OneCallInit
  <2> SUFFICES ASSUME MeasureInit PROVE One!OneCallInit
    OBVIOUS
  <2>1. Step = "idle"
    BY DEF MeasureInit, Step
  <2>2. Known = {}
    BY DEF MeasureInit, Known, Blank
  <2>3. Objects \subseteq {"this", "stray"} /\ ~fixture
    BY DEF MeasureInit, Objects
  <2>4. (IF Executed THEN run.status ELSE "blocked") = "blocked"
    BY DEF MeasureInit, Blank
  <2> QED BY <2>1, <2>2, <2>3, <2>4 DEF One!OneCallInit
<1>2. MInv /\ MInv' /\ [MeasureNext]_measureVars => OneStep
  <2> SUFFICES ASSUME MInv, MInv', [MeasureNext]_measureVars PROVE OneStep
    OBVIOUS
  <2>1. client \in {"executor", "script"} /\ run \in Runs /\ client \in Clients
    BY DEF MInv, MeasureTypeOK, Clients
  <2>2. client' = client
    BY DEF measureVars, clientVars, MeasureNext, Cluster, Experiment, Gate, Start, CheckScope,
           CheckPlatform, ListTargets, CheckName, ProbeCapability, PrepareFixture, Baseline, Apply,
           Misconfigured, PollInjected, Probe, Request, Recover, Delete, VerifyAbsent, Sweep,
           SettleFixture, ReadOnly, Polling, Elsewhere
  <2> QED BY <2>1, <2>2, GateImplements, MutationImplements, WaitImplements, CleanupImplements,
             OthersImplement DEF MeasureNext, Experiment
<1> QED BY <1>1, <1>2, MeasureInvariant, PTL
        DEF MeasureSpec, ImplementsLifecycle, One!OneCall, OneStep
=============================================================================
