------------------------------- MODULE RcaLoop -------------------------------
(***************************************************************************)
(* The root-cause loop: every round executes one evidence action for each  *)
(* case, ingests its result, recomputes the status of the hypotheses, of   *)
(* the case and of its knowledge card, and writes a new round directory:   *)
(* cases, manifest, knowledge drafts, validation report.                   *)
(*                                                                         *)
(* Evidence is a record: who says it ("id"), what it says ("polarity"),    *)
(* about which hypothesis, at which scope, how severe a contradiction is,  *)
(* which requirements it satisfies, whether it is direct evidence.         *)
(* Paths, hashes, windows, interpretations, confidences are left out, and  *)
(* so is the rest of a schema-complete action: the families' own actions   *)
(* always pass _action_errors.  Every case built has a symptom.            *)
(***************************************************************************)
EXTENDS Integers, Sequences, FiniteSets

CONSTANTS
    CaseOrder,  \* the families of the case files, in the order of their names
    Settings,   \* the sets of preconditions a caller may declare available
    Results,    \* family -> results a live executor may return

    NoCase, NoAction

Families == {"single_replica_podkill", "catalogue_db_podkill", "http_abort_propagation",
             "native"}

\* What comes back from an executor that ran: its verdicts are Booleans.
ASSUME RcaAssumption ==
    /\ CaseOrder \in Seq(Families)
    /\ \A c \in Families : \A r \in Results[c] :
          r.status = "executed" /\ r.contradiction \in BOOLEAN

RCA_STATES == {"pending", "bounded", "confirmed", "rejected"}
KNOWLEDGE_STATES == {"none", "provisional", "local_reusable", "cross_project_pending",
                     "cross_project_reusable", "contested"}

Cases == {CaseOrder[i] : i \in DOMAIN CaseOrder}

-----------------------------------------------------------------------------
(* The case families: hypotheses, evidence actions, the first case.        *)

\* An item about AnyHyp names no hypothesis.
AnyHyp == "any"

\* A hypothesis: what it requires, and the evidence its template starts with.
HYPOTHESES == [
    single_replica_podkill |->
        [singleton |-> [needs |-> {"replica_facts", "ready_transition", "impact_in_window"},
                        status |-> "bounded",
                        for |-> {"SINGLETON-MANIFEST", "SINGLETON-READY"}]],
    catalogue_db_podkill |->
        [connection |-> [needs |-> {"catalogue_logs", "failure_to_error_link"},
                         status |-> "pending", for |-> {"CATDB-MANIFEST"}],
         propagation |-> [needs |-> {"source_mapping", "discriminating_replay"},
                          status |-> "pending", for |-> {}]],
    http_abort_propagation |->
        [transport |-> [needs |-> {"business_path", "downstream_mapping", "recovery"},
                        status |-> "pending", for |-> {"ABORT-DIRECT"}]],
    native |->
        [discovered |-> [needs |-> {"baseline_oracle", "injection_confirmation", "observation",
                                    "recovery", "cleanup", "mechanism_evidence"},
                         status |-> "pending", for |-> {}]]]

Hyps(c) == DOMAIN HYPOTHESES[c]
Needs(c, h) == HYPOTHESES[c][h].needs

Action(id, kind, gain, cost, pre, ord) ==
    [id |-> id, kind |-> kind, gain |-> gain, cost |-> cost, pre |-> pre, ord |-> ord]

\* gain: hypotheses separated plus evidence gain; cost: cost, risk and
\* uncertainty together; ord: the alphabetical order of the identifiers.
FROZEN_ACTIONS == [
    single_replica_podkill |->
        {Action("CONFIG", "config_lookup", 3, 0, {"frozen_manifest"}, 1),
         Action("READY", "log_lookup", 3, 1, {"captured_ready_samples"}, 3),
         Action("COUNTERFACTUAL", "isolated_counterfactual", 4, 4,
                {"runner_allows_replica_scaling"}, 2)},
    catalogue_db_podkill |->
        {Action("CONFIG", "config_lookup", 3, 0, {"frozen_manifest"}, 1),
         Action("LOGS", "log_lookup", 5, 2, {"captured_catalogue_logs"}, 2),
         Action("REPLAY", "business_replay", 5, 4,
                {"business_oracle_available", "runner_allows_bounded_kill"}, 3)},
    http_abort_propagation |->
        {Action("CONFIG", "config_lookup", 3, 0, {"frozen_manifest"}, 1),
         Action("LOGS", "log_lookup", 3, 1, {"captured_window"}, 2),
         Action("REALPATH", "business_replay", 4, 4, {"business_oracle_available"}, 3)}]

NATIVE_ACTIONS ==
    {Action("CONFIG", "config_lookup", 3, 0, {"frozen_manifest"}, 1),
     Action("LOGS", "log_lookup", 4, 2, {"captured_window"}, 4),
     Action("EVENTS", "event_lookup", 3, 2, {"captured_window"}, 2),
     Action("INJECT", "native_fault_injection", 5, 7,
            {"native_executor_ready", "business_oracle_available"}, 3)}

EvidenceActions(c) == IF c = "native" THEN NATIVE_ACTIONS ELSE FROZEN_ACTIONS[c]

\* The frozen evidence a case starts with, the unavailable items left out.
Frozen(id, scope, direct) ==
    [id |-> id, polarity |-> "supports", about |-> AnyHyp, scope |-> scope,
     high |-> FALSE, meets |-> {}, direct |-> direct]

FROZEN == [
    single_replica_podkill |-> {Frozen("SINGLETON-MANIFEST", "static", TRUE),
                                Frozen("SINGLETON-READY", "static", FALSE)},
    catalogue_db_podkill |-> {Frozen("CATDB-MANIFEST", "static", TRUE)},
    http_abort_propagation |-> {Frozen("ABORT-DIRECT", "edge", FALSE)},
    native |-> {}]

\* A discovered case is a candidate nobody has tested; the three frozen cases
\* are confirmed weaknesses whose boundary is known.
Weakness(c) == IF c = "native" THEN "candidate" ELSE "confirmed"

FirstCase(c) ==
    [rca |-> IF c = "native" THEN "pending" ELSE "bounded",
     knowledge |-> IF c = "native" THEN "none" ELSE "provisional",
     refs |-> FROZEN[c],
     status |-> [h \in Hyps(c) |-> HYPOTHESES[c][h].status],
     for |-> [h \in Hyps(c) |-> HYPOTHESES[c][h].for],
     against |-> [h \in Hyps(c) |-> {}],
     done |-> {},
     promoted |-> FALSE]

-----------------------------------------------------------------------------
(* The planner.                                                            *)

KIND_PREFERENCE == [
    config_lookup |-> 0, log_lookup |-> 1, event_lookup |-> 1, business_replay |-> 2,
    isolated_counterfactual |-> 4, native_fault_injection |-> 5]

RUNTIME_KINDS == {"business_replay", "isolated_counterfactual"}

\* Priority, then the kind that only reads, then the identifier.
Before(a, b) ==
    LET p == a.gain - a.cost
        q == b.gain - b.cost
        m == KIND_PREFERENCE[a.kind]
        n == KIND_PREFERENCE[b.kind] IN
    \/ p > q
    \/ p = q /\ m < n
    \/ p = q /\ m = n /\ a.ord < b.ord

\* plan_next_action(): the first action whose preconditions are available.
Plan(actions, available) ==
    LET safe == {a \in actions : a.pre \subseteq available} IN
    IF safe = {} THEN NoAction
    ELSE CHOOSE a \in safe : \A b \in safe \ {a} : Before(a, b)

\* Actions that were executed, or whose contract a dry run checked, are over.
Open(c, case) == {a \in EvidenceActions(c) : a.id \notin case.done}

\* _follow_up_plan(): a reusable card asks for a runtime test of what it learned.
FollowUp(c, case, available) ==
    LET runtime == {a \in Open(c, case) :
                       a.kind \in RUNTIME_KINDS /\ a.pre \subseteq available} IN
    IF case.knowledge = "local_reusable" /\ runtime # {}
    THEN Plan(runtime, available)
    ELSE Plan(Open(c, case), available)

-----------------------------------------------------------------------------
(* The gates.                                                              *)

RCA_TRANSITIONS == [
    pending   |-> {"pending", "bounded", "confirmed", "rejected"},
    bounded   |-> {"pending", "bounded", "confirmed", "rejected"},
    confirmed |-> {"bounded", "confirmed", "rejected"},
    rejected  |-> {"rejected", "pending"}]

\* evaluate_rca_transition(): the facts are the supporting evidence, the
\* completeness of the requirements, the discriminating action, the contradiction.
RcaAllowed(current, target, fact) ==
    /\ target \in RCA_TRANSITIONS[current]
    /\ \/ target \in {current, "pending"}
       \/ target = "bounded" /\ fact.support
       \/ target = "confirmed" /\ ~fact.contradiction /\ fact.complete /\ fact.discriminating
       \/ target = "rejected" /\ fact.contradiction

NextRca(current, target, fact) ==
    IF RcaAllowed(current, target, fact) THEN target ELSE current

\* The gates of a reusable card, short of the absence of a contradiction.
Reproduced(fact) ==
    /\ fact.weakness \in {"confirmed", "protected"}
    /\ fact.repeated /\ fact.direct /\ fact.operational
    /\ fact.rca \in {"bounded", "confirmed"}

\* Seeded fault: reproduction makes a card reusable whatever speaks against it.
NextKnowledgeOneSided(current, fact) ==
    CASE current = "none" -> "provisional"
      [] current \in {"provisional", "contested"} ->
            IF Reproduced(fact) THEN "local_reusable" ELSE current
      [] current = "local_reusable" ->
            IF fact.contradiction THEN "contested" ELSE "cross_project_pending"
      [] OTHER -> current

\* evaluate_knowledge_promotion(): the state the card is in afterwards.
NextKnowledge(current, fact) ==
    CASE current = "none" ->
            IF fact.weakness \in {"candidate", "confirmed", "protected"}
            THEN "provisional" ELSE current
      [] current = "local_reusable" ->
            IF fact.weakness \in {"unsupported", "environment_blocked", "rejected"} THEN current
            ELSE IF fact.contradiction THEN "contested"
            ELSE IF fact.rca = "rejected" THEN current ELSE "cross_project_pending"
      [] current = "cross_project_pending" ->
            IF Reproduced(fact) /\ ~fact.contradiction THEN "cross_project_reusable" ELSE current
      [] current = "cross_project_reusable" ->
            IF fact.contradiction THEN "contested" ELSE current
      [] current = "contested" ->
            IF fact.contradiction THEN "provisional" ELSE current
      [] current = "provisional" ->
            IF Reproduced(fact) /\ ~fact.contradiction THEN "local_reusable" ELSE current

-----------------------------------------------------------------------------
(* ingest_action_result()                                                  *)

\* _hypothesis_evidence(): at the edge of the case, and not about another hypothesis.
Relevant(h, evidence) == {e \in evidence : e.scope = "edge" /\ e.about \in {h, AnyHyp}}

Supporting(evidence) == {e \in evidence : e.polarity = "supports"}
Against(evidence) == {e \in evidence : e.polarity = "contradicts"}
Ids(evidence) == {e.id : e \in evidence}

Met(h, evidence) == UNION {e.meets : e \in Supporting(Relevant(h, evidence))}
Complete(c, h, evidence) == Needs(c, h) \subseteq Met(h, evidence)
Refuted(h, evidence) == \E e \in Against(Relevant(h, evidence)) : e.high

\* Seeded fault: the evidence of a round takes the place of the earlier one.
ReplaceItems(refs, evidence) == evidence

\* Evidence of an identity the case already has is not appended.
AddItems(refs, evidence) == refs \cup {e \in evidence : e.id \notin Ids(refs)}

\* Seeded fault: only the executor's own verdict counts as a contradiction.
NextHypothesisTrusting(c, h, case, refs, r) ==
    LET for == case.for[h] \cup Ids(Supporting(Relevant(h, r.evidence)))
        fact == [support |-> for # {},
                 complete |-> Complete(c, h, refs),
                 discriminating |-> r.discriminating,
                 contradiction |-> r.contradiction]
        target == IF fact.contradiction THEN "rejected"
                  ELSE IF fact.complete /\ fact.discriminating THEN "confirmed"
                  ELSE IF fact.support THEN "bounded"
                  ELSE case.status[h] IN
    NextRca(case.status[h], target, fact)

NextHypothesis(c, h, case, refs, r) ==
    LET for == case.for[h] \cup Ids(Supporting(Relevant(h, r.evidence)))
        fact == [support |-> for # {},
                 complete |-> Complete(c, h, refs),
                 discriminating |-> r.discriminating,
                 contradiction |-> r.contradiction \/ Refuted(h, refs)]
        target == IF fact.contradiction THEN "rejected"
                  ELSE IF fact.complete /\ fact.discriminating THEN "confirmed"
                  ELSE IF fact.support THEN "bounded"
                  ELSE case.status[h] IN
    NextRca(case.status[h], target, fact)

\* The case: the flag of the result rejects it, agreement of all hypotheses
\* confirms it; contradicting evidence alone is no rejection's falsifier.
NextCaseRca(c, case, status, r) ==
    LET target == IF r.contradiction THEN "rejected"
                  ELSE IF \A h \in Hyps(c) : status[h] = "confirmed" THEN "confirmed"
                  ELSE IF \A h \in Hyps(c) : status[h] = "rejected" THEN "rejected"
                  ELSE "bounded" IN
    NextRca(case.rca, target,
            [support |-> Supporting(r.evidence) # {}, complete |-> target = "confirmed",
             discriminating |-> r.discriminating, contradiction |-> r.contradiction])

\* The executor ran, the outcome says something of the system, and every item
\* is at a scope of this case.
Accepted(r) ==
    /\ r.status = "executed" /\ r.evident
    /\ \A e \in r.evidence : e.scope \in {"edge", "target"}

\* Only an attested result with evidence counts for promotion.
PromotionFact(c, rca, against, r) ==
    LET eligible == r.attested /\ r.evidence # {} IN
    [weakness |-> Weakness(c), rca |-> rca,
     repeated |-> eligible /\ r.repeated,
     operational |-> eligible /\ r.operational,
     direct |-> eligible /\ \E e \in Supporting(r.evidence) : e.direct,
     contradiction |-> r.contradiction \/ \E h \in Hyps(c) : against[h] # {}]

IngestAccepted(c, case, a, r) ==
    LET refs == AddItems(case.refs, r.evidence)
        against == [h \in Hyps(c) |->
                      case.against[h] \cup Ids(Against(Relevant(h, r.evidence)))]
        status == [h \in Hyps(c) |-> NextHypothesis(c, h, case, refs, r)]
        rca == NextCaseRca(c, case, status, r)
        knowledge == NextKnowledge(case.knowledge, PromotionFact(c, rca, against, r)) IN
    [rca |-> rca,
     knowledge |-> knowledge,
     refs |-> refs,
     status |-> status,
     for |-> [h \in Hyps(c) |-> case.for[h] \cup Ids(Supporting(Relevant(h, r.evidence)))],
     against |-> against,
     done |-> case.done \cup {a.id},
     promoted |-> knowledge = "local_reusable" /\ case.knowledge = "provisional"]

\* Whatever is not accepted leaves its trace in the history only.
Ignored(case, refs, done) ==
    [rca |-> case.rca, knowledge |-> case.knowledge, refs |-> refs, status |-> case.status,
     for |-> case.for, against |-> case.against, done |-> done, promoted |-> FALSE]

\* A dry run leaves one item that says nothing; a blocked action stays open.
Ingest(c, case, a, r) ==
    IF Accepted(r) THEN IngestAccepted(c, case, a, r)
    ELSE Ignored(case,
                 IF r.status = "dry_run" THEN AddItems(case.refs, r.evidence) ELSE case.refs,
                 IF r.status \in {"dry_run", "executed"} THEN case.done \cup {a.id}
                 ELSE case.done)

\* execute_selected_action() without an executor: the contract was checked.
DryRun(a) ==
    [status |-> "dry_run", evident |-> FALSE,
     evidence |-> {[id |-> a.id, polarity |-> "unavailable", about |-> AnyHyp,
                    scope |-> "target", high |-> FALSE, meets |-> {}, direct |-> FALSE]},
     discriminating |-> FALSE, contradiction |-> FALSE, attested |-> FALSE,
     repeated |-> FALSE, operational |-> FALSE]

\* No live approval, no executor, an executor that fails, or metadata of the wrong type.
Blocked ==
    [status |-> "blocked", evident |-> FALSE, evidence |-> {}, discriminating |-> FALSE,
     contradiction |-> FALSE, attested |-> FALSE, repeated |-> FALSE, operational |-> FALSE]

-----------------------------------------------------------------------------
(* advance_rca_loop(): one round directory written from another.           *)

VARIABLES
    base,       \* the round that is read: family -> case
    work,       \* the round being written: family -> case, or NoCase
    available,  \* preconditions declared for this round
    live,       \* executed live, or a dry run
    drafts,     \* knowledge drafts of the round being written
    stage       \* how far it is written

vars == <<base, work, available, live, drafts, stage>>

\* "raised" before the manifest is written, "unfinished" after.
Written == {"valid", "invalid", "unfinished"}
Resting == {"new", "raised"} \cup Written
Stages == {"cases", "manifest", "drafts"} \cup Resting

Init ==
    /\ base = [c \in Cases |-> FirstCase(c)]
    /\ work = [c \in Cases |-> NoCase]
    /\ available = {}
    /\ live = FALSE
    /\ drafts = [c \in Cases |-> "none"]
    /\ stage = "new"

\* execute_selected_action()
Outcomes(c, a) == IF live THEN Results[c] \cup {Blocked} ELSE {DryRun(a)}

\* The next round starts in an empty directory.  The caller names the round to
\* read: any directory with a manifest will do, validated or not.
Begin(setting, mode, again) ==
    /\ stage \in Resting
    /\ again \/ stage \in Written
    /\ base' = IF again THEN base ELSE work
    /\ work' = [c \in Cases |-> NoCase]
    /\ available' = setting
    /\ live' = mode
    /\ drafts' = [c \in Cases |-> "none"]
    /\ stage' = "cases"

\* The next case file: plan, execute, ingest, write.
AdvanceCase(i) ==
    LET c == CaseOrder[i]
        a == FollowUp(c, base[c], available) IN
    /\ stage = "cases"
    /\ work[c] = NoCase
    /\ \A j \in 1..(i - 1) : work[CaseOrder[j]] # NoCase
    /\ a # NoAction
    /\ \E r \in Outcomes(c, a) :
          work' = [work EXCEPT ![c] = Ingest(c, base[c], a, r)]
    /\ UNCHANGED <<base, available, live, drafts, stage>>

\* A case without a safe action ends the round, whatever was written before it.
\* So does a result with sensitive values, a full disk or a kill.
Raise ==
    /\ stage \notin Resting
    /\ stage' = IF stage = "cases" THEN "raised" ELSE "unfinished"
    /\ UNCHANGED <<base, work, available, live, drafts>>

WriteManifest ==
    /\ stage = "cases"
    /\ \A c \in Cases : work[c] # NoCase
    /\ stage' = "manifest"
    /\ UNCHANGED <<base, work, available, live, drafts>>

\* project_knowledge_draft(): reusable is what this very round promoted.
DraftStatus(case) ==
    IF case.promoted THEN "local_reusable"
    ELSE IF case.knowledge = "contested" THEN "contested" ELSE "provisional"

\* compile_regression_intents(): what the next rounds may do with a draft.
\* A provisional card always names evidence it lacks, so it asks for no reproduction.
Intents(status) ==
    CASE status = "local_reusable" -> {"reproduce", "guard"}
      [] status = "provisional" -> {"discriminate"}
      [] OTHER -> {}

WriteDrafts ==
    /\ stage = "manifest"
    /\ drafts' = [c \in Cases |-> DraftStatus(work[c])]
    /\ stage' = "drafts"
    /\ UNCHANGED <<base, work, available, live>>

\* validate_case(): a confirmed case has confirmed and complete hypotheses only.
ValidCase(c, case) ==
    /\ case.rca = "bounded" => Supporting(case.refs) # {}
    /\ case.rca = "confirmed" =>
          \A h \in Hyps(c) : case.status[h] = "confirmed" /\ Complete(c, h, case.refs)

\* validate_action_plan(): the planner is asked again, without the preference
\* a reusable card gave it.
ValidPlan(c, case) ==
    LET a == FollowUp(c, case, available) IN
    a = NoAction \/ a = Plan(Open(c, case), available)

Validate ==
    /\ stage = "drafts"
    /\ stage' = IF \A c \in Cases : ValidCase(c, work[c]) /\ ValidPlan(c, work[c])
                THEN "valid" ELSE "invalid"
    /\ UNCHANGED <<base, work, available, live, drafts>>

Next ==
    \/ \E setting \in Settings, mode \in BOOLEAN, again \in BOOLEAN :
          Begin(setting, mode, again)
    \/ \E i \in DOMAIN CaseOrder : AdvanceCase(i)
    \/ Raise \/ WriteManifest \/ WriteDrafts \/ Validate

Spec == Init /\ [][Next]_vars

-----------------------------------------------------------------------------
(* Properties.                                                             *)

CaseOK(c, case) ==
    /\ case.rca \in RCA_STATES
    /\ case.knowledge \in KNOWLEDGE_STATES
    /\ case.status \in [Hyps(c) -> RCA_STATES]
    /\ case.promoted \in BOOLEAN

\* Every case file and draft of the two rounds has the states of its contract.
TypeOK ==
    /\ stage \in Stages
    /\ live \in BOOLEAN
    /\ available \in Settings \cup {{}}
    /\ \A c \in Cases : CaseOK(c, base[c]) /\ (work[c] # NoCase => CaseOK(c, work[c]))
    /\ drafts \in [Cases -> {"none", "provisional", "local_reusable", "contested"}]

\* The case files on disk: of the round that is read and of the one being written.
OnDisk(c) == {base[c]} \cup ({work[c]} \ {NoCase})

\* A confirmed hypothesis is proved by the evidence of its own case file, over
\* all its rounds: its requirements are met and no severe contradiction to it
\* was ever collected.
ConfirmedIsEarned ==
    \A c \in Cases : \A case \in OnDisk(c) : \A h \in Hyps(c) :
        case.status[h] = "confirmed" =>
            Complete(c, h, case.refs) /\ ~Refuted(h, case.refs)

\* Knowledge offered for reuse rests on a root cause that stands and on a case no
\* evidence speaks against; only drafts of such knowledge guard the next rounds.
ReusableIsUncontradicted ==
    \A c \in Cases :
        /\ \A case \in OnDisk(c) :
              case.knowledge \in {"local_reusable", "cross_project_reusable"} =>
                  /\ case.rca \in {"bounded", "confirmed"}
                  /\ \A h \in Hyps(c) : case.against[h] = {}
        /\ "guard" \in Intents(drafts[c]) => work[c].knowledge = "local_reusable"

\* A round never unsays what the round it was made from had said: evidence is
\* kept, a finished action stays finished, a rejected hypothesis stays rejected.
RoundsKeepTheirParent ==
    \A c \in Cases : work[c] # NoCase =>
        /\ base[c].refs \subseteq work[c].refs
        /\ base[c].done \subseteq work[c].done
        /\ \A h \in Hyps(c) :
              /\ base[c].against[h] \subseteq work[c].against[h]
              /\ base[c].status[h] = "rejected" => work[c].status[h] = "rejected"

-----------------------------------------------------------------------------
(* Statements of docs and comments that the code does not keep (README,    *)
(* section 6).                                                             *)

\* The plan of the loop wants contradicting evidence to bring a confirmed root
\* cause down.
ContradictedIsDemoted ==
    \A c \in Cases : \A case \in OnDisk(c) :
        case.rca = "confirmed" => \A h \in Hyps(c) : case.status[h] # "rejected"

\* A round that planned a runtime test of reusable knowledge is a valid round.
ReusableRoundsComplete ==
    stage = "invalid" =>
        \A c \in Cases : work[c].knowledge = "local_reusable" => ~ValidCase(c, work[c])
=============================================================================
