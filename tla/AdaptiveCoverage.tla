-------------------------- MODULE AdaptiveCoverage --------------------------
(***************************************************************************)
(* The adaptive campaign: a driver that runs one trial at a time on the    *)
(* candidate the selector names, until the selector stops or the actions   *)
(* are used up.  Anomalies are reproduced three times, the variants of an  *)
(* anomalous baseline are tried, a reusable card may spare the rest of     *)
(* them after one clean variant, and a language model may choose, within   *)
(* the guard.  After every trial the driver publishes the weaknesses it    *)
(* confirmed and saves its state; it may die anywhere and be started again *)
(* on the same output directory.                                           *)
(*                                                                         *)
(* A candidate is its identity: target, fault family, parameter level, in  *)
(* numbers that sort as the names do; level 0 is the baseline.  The rows   *)
(* of a candidate are counted by outcome: nothing reads their order.       *)
(***************************************************************************)
EXTENDS Integers, FiniteSets

CONSTANTS
    Candidates,     \* [target, family, level]
    Histories,      \* rows of earlier campaigns a run may start from
    Budgets,        \* caps on unique hypotheses; 0 derives it from the work
    Guarded,        \* whether a model chooses; in shadow mode it does not
    AuditFloor,     \* variants of a clean cluster that must be tried
    MaxActions,
    MaxCrashes,     \* bound on the deaths of the driver
    NoCandidate

MIN_REPETITIONS == 3

\* What a finished trial says: a valid anomaly with or without a confirmed
\* root cause, a clean trial with or without a latency label, a completed run
\* that is not attested, any other end, and the ends of BLOCKING_STATUSES.
Outcomes == {"confirmed", "anomaly", "near", "clean", "unattested", "other", "blocked"}
Rows == [Candidates -> [Outcomes -> Nat]]

ASSUME CampaignAssumption ==
    /\ IsFiniteSet(Candidates)
    /\ Candidates \subseteq [target : Nat, family : Nat, level : Nat]
    /\ NoCandidate \notin Candidates
    /\ Histories \subseteq Rows
    /\ Budgets \subseteq Nat
    /\ {AuditFloor, MaxActions, MaxCrashes} \subseteq Nat

Cluster(c) == <<c.target, c.family>>
Baselines == {c \in Candidates : c.level = 0}
Variants(c) == {v \in Candidates \ Baselines : Cluster(v) = Cluster(c)}

VARIABLES
    budget,         \* max_unique_hypotheses, 0 for none
    phase,          \* "down", "select", "trial", "promote", "index", "save", "done", "refused"
    rows,           \* the history and the driver's own rows, in memory
    actions,        \* action_count
    chosen, stop,   \* the candidate on trial; why the loop ended
    made, saved,    \* the output directory: not empty; adaptive_state.json
    cards, index,   \* the knowledge root: a card per candidate, index.json
    completed, confirmed,  \* candidates that really ran, confirmed runs of each
    crashes         \* how often the driver died

root == <<cards, index>>
past == <<completed, confirmed>>
vars == <<budget, phase, rows, actions, chosen, stop, made, saved, root, past, crashes>>

-----------------------------------------------------------------------------
(* _candidate_states.                                                      *)

Anomalies(of, c) == of[c]["confirmed"] + of[c]["anomaly"]
Valid(of, c) == Anomalies(of, c) + of[c]["near"] + of[c]["clean"]
Blocked(c) == rows[c]["blocked"] > 0 /\ Valid(rows, c) = 0

\* Rows that are live_completed and cleaned up, attested or not.
Completed(of) == {c \in Candidates : Valid(of, c) + of[c]["unattested"] > 0}

\* A cap is not below what the history has used up already.
ASSUME HistoryAssumption ==
    \A of \in Histories, b \in Budgets : b > 0 => Cardinality(Completed(of)) <= b

Triggered(b) == Anomalies(rows, b) + rows[b]["near"] > 0

\* _experience_signal: a card of the same target and family, of any level.
ReusableWeakness(b) == \E c \in Candidates : Cluster(c) = Cluster(b) /\ cards[c] = "whole"

\* Seeded fault: the audit need not be clean, nor need there be one.
DeferredUnaudited(v) ==
    \E b \in Baselines :
        /\ Cluster(b) = Cluster(v) /\ Triggered(b) /\ ReusableWeakness(b)
        /\ Valid(rows, v) = 0

Deferred(v) ==
    \E b \in Baselines :
        /\ Cluster(b) = Cluster(v) /\ Triggered(b) /\ ReusableWeakness(b)
        /\ Valid(rows, v) = 0
        /\ \A w \in Variants(v) : Anomalies(rows, w) = 0
        /\ \E w \in Variants(v) : Valid(rows, w) > 0

Untested(c) == Valid(rows, c) = 0 /\ ~Blocked(c)

-----------------------------------------------------------------------------
(* The work that is left, and the budget: adaptive_budget_snapshot.        *)

Pending == {c \in Candidates : Anomalies(rows, c) \in 1..(MIN_REPETITIONS - 1)}
UntestedBaselines == {b \in Baselines : Untested(b)}
Escalations ==
    {v \in Candidates \ Baselines :
        /\ Untested(v) /\ ~Deferred(v)
        /\ \E b \in Baselines : Cluster(b) = Cluster(v) /\ Triggered(b)}

\* The levels in their preferred order: the first ones that are still needed.
Audits ==
    {v \in Candidates \ Baselines :
        LET uncovered == {w \in Variants(v) : Untested(w) /\ ~Deferred(w)}
            covered == Variants(v) \ uncovered
        IN /\ v \in uncovered \ Escalations
           /\ \E b \in Baselines : Cluster(b) = Cluster(v) /\ Valid(rows, b) > 0
           /\ Cardinality({w \in uncovered : w.level < v.level})
                < AuditFloor - Cardinality(covered)}

UniqueUsed == Cardinality(Completed(rows))
EffectiveBudget ==
    IF budget > 0 THEN budget
    ELSE UniqueUsed + Cardinality(UntestedBaselines \cup Escalations \cup Audits)
Room == UniqueUsed < EffectiveBudget

-----------------------------------------------------------------------------
(* The selector.                                                           *)

\* _level_key: level, target, family.
Before(c, d) ==
    \/ c.level < d.level
    \/ c.level = d.level /\ c.target < d.target
    \/ c.level = d.level /\ c.target = d.target /\ c.family < d.family
First(set) == CHOOSE c \in set : \A d \in set \ {c} : Before(c, d)

\* The least covered target first.
CoveredAt(target) == Cardinality({b \in Baselines : b.target = target /\ Valid(rows, b) > 0})
FirstTarget(set) ==
    CHOOSE t \in {c.target : c \in set} :
        \A u \in {c.target : c \in set} \ {t} :
            \/ CoveredAt(t) < CoveredAt(u)
            \/ CoveredAt(t) = CoveredAt(u) /\ t < u
NextBaseline == First({b \in UntestedBaselines : b.target = FirstTarget(UntestedBaselines)})

Decision(action, candidate, reason) ==
    [action |-> action, candidate |-> candidate, reason |-> reason]
Stop(reason) == Decision("stop", NoCandidate, reason)

Deterministic ==
    CASE Pending # {} -> Decision("confirm", First(Pending), "none")
      [] Pending = {} /\ Escalations # {} /\ Room ->
            Decision("escalate", First(Escalations), "none")
      [] Pending = {} /\ Escalations = {} /\ UntestedBaselines # {} /\ Room ->
            Decision("screen", NextBaseline, "none")
      [] Pending = {} /\ Escalations = {} /\ UntestedBaselines = {} /\ Audits # {} /\ Room ->
            Decision("escalate", First(Audits), "none")
      [] OTHER ->
            Stop(IF budget > 0 /\ ~Room THEN "budget_exhausted"
                 ELSE IF \E c \in Candidates : Blocked(c) THEN "environment_blocked"
                 ELSE "low_expected_value")

\* What a provider may answer that parse_policy_output lets through.
Answers ==
    {Decision(a, c, "none") : a \in {"screen", "confirm", "escalate"}, c \in Candidates}
        \cup {Stop("llm")}

\* Seeded fault: a fixed budget does not bind the model's choice.
GuardWithoutBudget(d) ==
    /\ Pending # {} => d.action = "confirm" /\ d.candidate \in Pending
    /\ d.action = "confirm" => d.candidate \in Pending
    /\ d.action = "screen" => d.candidate \in Baselines
    /\ d.action = "escalate" => d.candidate \notin Baselines
    /\ (d.action = "stop" /\ Room) => Escalations \cup UntestedBaselines \cup Audits = {}

\* guard_policy_decision
Guard(d) ==
    /\ IF Pending # {} THEN d.action = "confirm" /\ d.candidate \in Pending
       ELSE IF Escalations # {} /\ Room
            THEN d.action = "escalate" /\ d.candidate \in Escalations
       ELSE IF UntestedBaselines # {} /\ Room
            THEN d.action = "screen" /\ d.candidate \in UntestedBaselines
       ELSE (Audits # {} /\ Room) => d.action = "escalate" /\ d.candidate \in Audits
    /\ d.action \in {"screen", "escalate"} => Room
    /\ d.action = "confirm" => d.candidate \in Pending
    /\ d.action = "screen" => d.candidate \in Baselines
    /\ d.action = "escalate" => d.candidate \notin Baselines

\* A failed provider and a refused answer fall back on the deterministic one.
Decisions ==
    {Deterministic} \cup (IF Guarded THEN {d \in Answers : Guard(d)} ELSE {})

-----------------------------------------------------------------------------
(* The driver: _run_adaptive_live.                                         *)

State(kind, of, count) == [kind |-> kind, rows |-> of, actions |-> count]

Init ==
    /\ budget \in Budgets
    /\ phase = "down"
    /\ rows \in Histories
    /\ actions = 0
    /\ chosen = NoCandidate
    /\ stop = "none"
    /\ made = FALSE
    /\ saved = State("absent", rows, 0)
    /\ cards = [c \in Candidates |-> "absent"]
    /\ index = [whole |-> TRUE, cards |-> {}]
    /\ completed = Completed(rows)
    /\ confirmed = [c \in Candidates |-> rows[c]["confirmed"]]
    /\ crashes = 0

\* An output that is not empty is continued from its state, or refused.
Start ==
    /\ phase = "down"
    /\ IF saved.kind = "whole" \/ ~made
       THEN /\ phase' = "select"
            /\ rows' = saved.rows
            /\ actions' = saved.actions
       ELSE /\ phase' = "refused"
            /\ UNCHANGED <<rows, actions>>
    /\ UNCHANGED <<budget, chosen, stop, made, saved, root, past, crashes>>

Halt(reason) ==
    /\ phase' = "promote"
    /\ stop' = reason
    /\ UNCHANGED <<chosen, made>>

Select ==
    /\ phase = "select"
    /\ IF actions = MaxActions
       THEN Halt("max_actions")
       ELSE \E d \in Decisions :
               \/ /\ d.action = "stop"
                  /\ Halt(d.reason)
               \/ /\ d.action # "stop"
                  /\ phase' = "trial"
                  /\ chosen' = d.candidate
                  /\ made' = TRUE
                  /\ UNCHANGED stop
    /\ UNCHANGED <<budget, rows, actions, saved, root, past, crashes>>

Count(outcome) == rows' = [rows EXCEPT ![chosen][outcome] = @ + 1]

\* A trial has run, whether or not the driver lives to count it.
HasRun(outcome) ==
    /\ completed' = completed \cup
         {c \in {chosen} : outcome \in {"confirmed", "anomaly", "near", "clean", "unattested"}}
    /\ confirmed' = IF outcome = "confirmed"
                    THEN [confirmed EXCEPT ![chosen] = @ + 1] ELSE confirmed

\* _live_trial: its attempts are one step, for nothing is kept between them.
Trial ==
    /\ phase = "trial"
    /\ \E outcome \in Outcomes :
          /\ Count(outcome)
          /\ HasRun(outcome)
    /\ actions' = actions + 1
    /\ phase' = "promote"
    /\ UNCHANGED <<budget, chosen, stop, made, saved, root, crashes>>

\* Seeded fault: an anomaly whose root cause nobody confirmed counts.
PromotableAnomalies == {c \in Candidates : Anomalies(rows, c) >= MIN_REPETITIONS}

\* The candidates with three runs that _valid_confirmed_run lets through.
Promotable == {c \in Candidates : rows[c]["confirmed"] >= MIN_REPETITIONS}

\* promote_confirmed_experiences writes every card anew.
Promote ==
    /\ phase = "promote"
    /\ cards' = [c \in Candidates |-> IF c \in Promotable THEN "whole" ELSE cards[c]]
    /\ made' = TRUE
    /\ phase' = "index"
    /\ UNCHANGED <<budget, rows, actions, chosen, stop, saved, index, past, crashes>>

\* Seeded fault: the index is refreshed only for cards of this promotion.
RefreshPromoted ==
    /\ phase = "index"
    /\ index' = IF Promotable = {} THEN index ELSE
                   [whole |-> TRUE, cards |-> {c \in Candidates : cards[c] = "whole"}]
    /\ IF stop = "none" THEN phase' = "save" /\ UNCHANGED chosen
                        ELSE phase' = "done" /\ chosen' = NoCandidate
    /\ UNCHANGED <<budget, rows, actions, stop, made, saved, cards, past, crashes>>

\* _refresh_knowledge_index, and the reports behind it.
Refresh ==
    /\ phase = "index"
    /\ index' = [whole |-> TRUE, cards |-> {c \in Candidates : cards[c] = "whole"}]
    /\ IF stop = "none" THEN phase' = "save" /\ UNCHANGED chosen
                        ELSE phase' = "done" /\ chosen' = NoCandidate
    /\ UNCHANGED <<budget, rows, actions, stop, made, saved, cards, past, crashes>>

Save ==
    /\ phase = "save"
    /\ saved' = State("whole", rows, actions)
    /\ chosen' = NoCandidate
    /\ phase' = "select"
    /\ UNCHANGED <<budget, rows, actions, stop, made, root, past, crashes>>

\* The driver dies; the file it was writing is cut short, the cards before it
\* in the order of the candidates are written.  A trial it was in has run.
CutCards ==
    \/ UNCHANGED <<cards, made>>
    \/ \E cut \in Promotable :
          /\ cards' = [c \in Candidates |->
                         CASE c = cut -> "torn"
                           [] c # cut /\ c \in Promotable /\ Before(c, cut) -> "whole"
                           [] OTHER -> cards[c]]
          /\ made' = TRUE

Die ==
    /\ phase \in {"select", "trial", "promote", "index", "save"}
    /\ crashes < MaxCrashes
    /\ crashes' = crashes + 1
    /\ phase' = "down"
    /\ IF phase = "promote" THEN CutCards ELSE UNCHANGED <<cards, made>>
    /\ \/ UNCHANGED <<index, saved>>
       \/ /\ phase = "index"
          /\ index' = [whole |-> FALSE, cards |-> {}]
          /\ UNCHANGED saved
       \/ /\ phase = "save"
          /\ saved' = State("torn", rows, 0)
          /\ UNCHANGED index
    /\ \/ UNCHANGED past
       \/ /\ phase = "trial"
          /\ \E outcome \in Outcomes : HasRun(outcome)
    /\ chosen' = NoCandidate
    /\ stop' = "none"
    /\ rows' = saved.rows
    /\ actions' = saved.actions
    /\ UNCHANGED budget

Next == Start \/ Select \/ Trial \/ Promote \/ Refresh \/ Save \/ Die

Spec == Init /\ [][Next]_vars

-----------------------------------------------------------------------------
(* Properties.                                                             *)

TypeOK ==
    /\ budget \in Nat
    /\ phase \in {"down", "select", "trial", "promote", "index", "save", "done", "refused"}
    /\ rows \in Rows
    /\ saved \in [kind : {"absent", "torn", "whole"}, rows : Rows, actions : Nat]
    /\ actions \in Nat /\ crashes \in Nat
    /\ chosen \in Candidates \cup {NoCandidate}
    /\ stop \in {"none", "max_actions", "budget_exhausted", "environment_blocked",
                 "low_expected_value", "llm"}
    /\ made \in BOOLEAN
    /\ cards \in [Candidates -> {"absent", "torn", "whole"}]
    /\ index \in [whole : BOOLEAN, cards : SUBSET Candidates]
    /\ completed \subseteq Candidates
    /\ confirmed \in [Candidates -> Nat]

\* A fixed cap holds for what really ran, whoever chooses, up to the one trial
\* that each death of the driver makes it forget.
BudgetHolds ==
    budget > 0 => Cardinality(completed) <= budget + crashes

\* A campaign with budget left stops only on finished work: every baseline is
\* tested or blocked, every anomaly reproduced three times, and a variant of
\* an anomalous baseline is left out only if it is blocked, or if three real
\* confirmed runs of its cluster and one clean variant speak for that.
AnomalyIsSettled(c) == Anomalies(rows, c) \notin {1, 2}
SparedByExperience(v) ==
    LET siblings == {c \in Candidates : Cluster(c) = Cluster(v)} IN
    /\ \E c \in siblings : confirmed[c] >= 3
    /\ \E c \in siblings \ Baselines : rows[c]["clean"] + rows[c]["near"] > 0
    /\ \A c \in siblings \ Baselines : Anomalies(rows, c) = 0
Complete ==
    /\ \A c \in Candidates : AnomalyIsSettled(c)
    /\ \A b \in Baselines : Valid(rows, b) > 0 \/ rows[b]["blocked"] > 0
    /\ \A b \in Baselines : Triggered(b) =>
          \A v \in Variants(b) :
              Valid(rows, v) > 0 \/ rows[v]["blocked"] > 0 \/ SparedByExperience(v)
    /\ \A b \in Baselines : Valid(rows, b) > 0 /\ Cardinality(Variants(b)) >= AuditFloor =>
          Cardinality({v \in Variants(b) : \/ Valid(rows, v) > 0
                                           \/ rows[v]["blocked"] > 0
                                           \/ SparedByExperience(v)}) >= AuditFloor
StopIsComplete ==
    (phase = "promote" /\ stop \notin {"none", "max_actions"} /\ (budget = 0 \/ Room))
        => Complete

\* A card in the root stands on three confirmed runs of its candidate, also
\* when the driver died over the promotion and forgot one of them.
CardsAreEarned ==
    \A c \in Candidates : cards[c] = "whole" => confirmed[c] >= MIN_REPETITIONS

\* A campaign that ends has published what it knows, and the index lists every
\* card, whatever its deaths left in the root.
FinishedIsPublished ==
    phase = "done" =>
        /\ \A c \in Candidates : rows[c]["confirmed"] >= MIN_REPETITIONS => cards[c] = "whole"
        /\ index = [whole |-> TRUE, cards |-> {c \in Candidates : cards[c] = "whole"}]

-----------------------------------------------------------------------------
(* Statements of docs and comments that the code does not keep (README,    *)
(* section 6).                                                             *)

\* "Rotate through the least-covered targets first. This preserves service-wide
\* baseline coverage": no baseline is tried again while another has not been
\* tried at all.
Tried(c) == \E o \in Outcomes : rows[c][o] > 0
BaselinesRotate ==
    [][(phase = "select" /\ phase' = "trial" /\ chosen' \in Baselines
          /\ Anomalies(rows, chosen') = 0 /\ Tried(chosen'))
        => \A b \in Baselines : Tried(b)]_vars
=============================================================================
