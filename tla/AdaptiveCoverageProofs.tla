----------------------- MODULE AdaptiveCoverageProofs -----------------------
(***************************************************************************)
(* The campaign for every set of candidates, every history that fits the   *)
(* caps and any number of deaths: its cards stand on confirmed runs, what  *)
(* it knows is published, a cap holds up to one trial per death, and with  *)
(* room left it stops on finished work only.                               *)
(*                                                                         *)
(* The cap needs the two memories of the driver beside what really ran:    *)
(* the rows it counts by may lack one trial for each death, and those of   *)
(* its state file one more, the trial it is in.  Completeness needs that   *)
(* a non-empty set of candidates has a first one, which follows from the   *)
(* order on the sets of predecessors being well-founded.                   *)
(***************************************************************************)
EXTENDS AdaptiveCoverage, FiniteSetTheorems, TLAPS

Remembers(of) == \A c \in Candidates : of[c]["confirmed"] <= confirmed[c]

Published ==
    phase = "index" =>
        \A c \in Candidates : rows[c]["confirmed"] >= MIN_REPETITIONS => cards[c] = "whole"

\* What ran and was forgotten: a trial per death, and the one not yet saved.
Forgotten ==
    /\ Cardinality(completed) <= Cardinality(Completed(rows)) + crashes
    /\ Cardinality(completed) <= Cardinality(Completed(saved.rows)) + crashes + 1
    /\ phase = "down" =>
          Cardinality(completed) <= Cardinality(Completed(saved.rows)) + crashes

\* What ran is at least what is remembered.
Ran == Completed(rows) \cup Completed(saved.rows) \subseteq completed

Phases ==
    /\ phase \in {"select", "trial"} => rows = saved.rows
    /\ phase \in {"down", "select", "trial", "save"} => stop = "none"
    /\ phase = "trial" =>
          /\ chosen \in Candidates
          /\ budget > 0 => chosen \in Completed(rows) \/ UniqueUsed < budget

IInv ==
    /\ TypeOK
    /\ CardsAreEarned /\ Remembers(rows) /\ Remembers(saved.rows)
    /\ Published /\ FinishedIsPublished
    /\ Forgotten /\ Ran /\ BudgetHolds
    /\ Phases
    /\ StopIsComplete

-----------------------------------------------------------------------------
(* The selector's order.                                                   *)

LEMMA FirstExists ==
  ASSUME NEW S, IsFiniteSet(S), S # {}, NEW R,
         \A c \in S : <<c, c>> \notin R,
         \A c, d, e \in S : <<c, d>> \in R /\ <<d, e>> \in R => <<c, e>> \in R,
         \A c, d \in S : c = d \/ <<c, d>> \in R \/ <<d, c>> \in R
  PROVE  \E c \in S : \A d \in S \ {c} : <<c, d>> \in R
<1> DEFINE Below(c) == {d \in S : <<d, c>> \in R}
           T == {Below(c) : c \in S}
           O == StrictSubsetOrdering(S)
<1>1. IsWellFoundedOn(O, SUBSET S)
  BY FS_StrictSubsetOrderingWellFounded, FS_FiniteSubsetsOfFinite
<1>2. T \subseteq SUBSET S /\ T # {}
  <2>1. \A c \in S : Below(c) \in SUBSET S
    OBVIOUS
  <2>2. PICK c : c \in S
    OBVIOUS
  <2>3. Below(c) \in T
    BY <2>2
  <2> QED
    BY <2>1, <2>3
<1> HIDE DEF O, T
<1>3. PICK X \in T : \A Y \in T : <<Y, X>> \notin O
  BY <1>1, <1>2, WFMin
<1> USE DEF T
<1>4. PICK c \in S : X = Below(c)
  BY <1>3
<1>5. ASSUME NEW d \in S \ {c}, <<d, c>> \in R PROVE FALSE
  <2>1. Below(d) \subseteq Below(c)
    BY <1>5
  <2>2. Below(d) # Below(c)
    BY <1>5
  <2>3. <<Below(d), Below(c)>> \in O
    BY <2>1, <2>2 DEF O, StrictSubsetOrdering
  <2> QED
    BY <1>3, <1>4, <2>3
<1> QED
  BY <1>5

LEMMA FirstIsIn ==
  ASSUME NEW S, S \subseteq Candidates, S # {}
  PROVE  First(S) \in S /\ \A d \in S \ {First(S)} : Before(First(S), d)
<1> DEFINE R == {p \in S \X S : Before(p[1], p[2])}
<1>0. \A c \in Candidates : /\ c.level \in Nat /\ c.target \in Nat /\ c.family \in Nat
                           /\ c = [target |-> c.target, family |-> c.family, level |-> c.level]
  BY CampaignAssumption
<1>1. IsFiniteSet(S)
  BY FS_Subset, CampaignAssumption
<1>2. \A c, d \in S : <<c, d>> \in R <=> Before(c, d)
  OBVIOUS
<1> HIDE DEF R
<1>3. \A c \in S : <<c, c>> \notin R
  BY <1>0, <1>2 DEF Before
<1>4. \A c, d, e \in S : <<c, d>> \in R /\ <<d, e>> \in R => <<c, e>> \in R
  BY <1>0, <1>2 DEF Before
<1>5. ASSUME NEW c \in S, NEW d \in S PROVE c = d \/ <<c, d>> \in R \/ <<d, c>> \in R
  <2>1. c.level = d.level /\ c.target = d.target /\ c.family = d.family => c = d
    BY <1>0
  <2> QED
    BY <2>1, <1>0, <1>2 DEF Before
<1>6. \E c \in S : \A d \in S \ {c} : <<c, d>> \in R
  BY <1>1, <1>3, <1>4, <1>5, FirstExists
<1>7. \E c \in S : \A d \in S \ {c} : Before(c, d)
  BY <1>6, <1>2
<1> QED
  BY <1>7 DEF First

LEMMA CoverageIsCounted ==
  ASSUME NEW t
  PROVE  CoveredAt(t) \in Nat
BY FS_CardinalityType, FS_Subset, CampaignAssumption DEF CoveredAt, Baselines

LEMMA NextBaselineIsIn ==
  ASSUME UntestedBaselines # {}
  PROVE  NextBaseline \in UntestedBaselines
<1> DEFINE B == UntestedBaselines
           S == {c.target : c \in B}
           Less(t, u) == \/ CoveredAt(t) < CoveredAt(u)
                         \/ CoveredAt(t) = CoveredAt(u) /\ t < u
           R == {p \in S \X S : Less(p[1], p[2])}
<1>1. B \subseteq Candidates /\ B # {}
  BY DEF UntestedBaselines, Baselines
<1> HIDE DEF B
<1>2. IsFiniteSet(B)
  BY <1>1, FS_Subset, CampaignAssumption
<1>3. IsFiniteSet(S) /\ S # {} /\ S \subseteq Nat
  <2> DEFINE f == [c \in B |-> c.target]
  <2>1. f \in Surjection(B, S)
    BY DEF Surjection
  <2> QED
    BY <1>1, <1>2, <2>1, FS_Surjection, CampaignAssumption
<1>4. \A t, u \in S : <<t, u>> \in R <=> Less(t, u)
  OBVIOUS
<1> HIDE DEF R, S
<1>5. \A t \in S : t \in Nat /\ CoveredAt(t) \in Nat
  BY <1>3, CoverageIsCounted
<1>6. \A t \in S : <<t, t>> \notin R
  BY <1>4, <1>5
<1>7. \A t, u, v \in S : <<t, u>> \in R /\ <<u, v>> \in R => <<t, v>> \in R
  BY <1>4, <1>5
<1>8. ASSUME NEW t \in S, NEW u \in S PROVE t = u \/ <<t, u>> \in R \/ <<u, t>> \in R
  <2>1. t \in Nat /\ u \in Nat /\ CoveredAt(t) \in Nat /\ CoveredAt(u) \in Nat
    BY <1>5
  <2>2. t = u \/ Less(t, u) \/ Less(u, t)
    BY <2>1
  <2>3. <<t, u>> \in R <=> Less(t, u)
    BY <1>4
  <2>4. <<u, t>> \in R <=> Less(u, t)
    BY <1>4
  <2> HIDE DEF Less
  <2> QED
    BY <2>2, <2>3, <2>4
<1>9. \A t, u \in S : t = u \/ <<t, u>> \in R \/ <<u, t>> \in R
  BY <1>8
<1>10. IsFiniteSet(S) /\ S # {}
  BY <1>3
<1> HIDE DEF Less
<1>11. \E t \in S : \A u \in S \ {t} : <<t, u>> \in R
  BY <1>10, <1>6, <1>7, <1>9, FirstExists, SMT
<1>12. \E t \in S : \A u \in S \ {t} : Less(t, u)
  BY <1>11, <1>4
<1>13. FirstTarget(B) \in S
  BY <1>12 DEF FirstTarget, S
<1> DEFINE N == {b \in B : b.target = FirstTarget(B)}
<1>14. N # {} /\ N \subseteq Candidates
  BY <1>13, <1>1 DEF S
<1>15. First(N) \in N
  BY <1>14, FirstIsIn
<1> QED
  BY <1>15 DEF NextBaseline, B

-----------------------------------------------------------------------------
(* Counting rows and candidates.                                           *)

LEMMA CountsAreNumbers ==
  ASSUME NEW of \in Rows, NEW c \in Candidates
  PROVE  /\ \A o \in Outcomes : of[c][o] \in Nat
         /\ Anomalies(of, c) \in Nat /\ Valid(of, c) \in Nat
BY DEF Rows, Outcomes, Anomalies, Valid

LEMMA SizesAreNumbers ==
  ASSUME NEW S, S \subseteq Candidates
  PROVE  IsFiniteSet(S) /\ Cardinality(S) \in Nat
BY CampaignAssumption, FS_Subset, FS_CardinalityType

LEMMA CompletedIsFinite ==
  ASSUME NEW of
  PROVE  /\ Completed(of) \subseteq Candidates /\ IsFiniteSet(Completed(of))
         /\ Cardinality(Completed(of)) \in Nat
BY SizesAreNumbers DEF Completed

\* The rows after a trial, and the candidates that have one that completed.
LEMMA RowsAfterTrial ==
  ASSUME rows \in Rows, chosen \in Candidates, NEW outcome \in Outcomes, Count(outcome)
  PROVE  /\ rows' \in Rows
         /\ \A c \in Candidates, o \in Outcomes :
               rows'[c][o] = IF c = chosen /\ o = outcome THEN rows[c][o] + 1 ELSE rows[c][o]
         /\ Completed(rows') = Completed(rows) \cup
              {c \in {chosen} : outcome \in {"confirmed", "anomaly", "near", "clean", "unattested"}}
<1> DEFINE row == [rows[chosen] EXCEPT ![outcome] = @ + 1]
<1>a. /\ row \in [Outcomes -> Nat]
      /\ \A o \in Outcomes : row[o] = IF o = outcome THEN rows[chosen][o] + 1 ELSE rows[chosen][o]
  <2>1. rows[chosen] \in [Outcomes -> Nat]
    BY DEF Rows
  <2> HIDE DEF Outcomes
  <2> QED
    BY <2>1
<1>b. rows' = [rows EXCEPT ![chosen] = row]
  BY DEF Count
<1> HIDE DEF row
<1>1. rows' \in Rows
  BY <1>a, <1>b DEF Rows
<1>2. \A c \in Candidates, o \in Outcomes :
         rows'[c][o] = IF c = chosen /\ o = outcome THEN rows[c][o] + 1 ELSE rows[c][o]
  BY <1>a, <1>b DEF Rows
<1>3. ASSUME NEW c \in Candidates
      PROVE  c \in Completed(rows') <=>
               \/ c \in Completed(rows)
               \/ /\ c = chosen
                  /\ outcome \in {"confirmed", "anomaly", "near", "clean", "unattested"}
  <2>1. \A o \in Outcomes : rows[c][o] \in Nat /\ rows'[c][o] \in Nat
    BY <1>1, CountsAreNumbers
  <2>2. {"confirmed", "anomaly", "near", "clean", "unattested"} \subseteq Outcomes
    BY DEF Outcomes
  <2>3. CASE c # chosen
    BY <2>3, <2>1, <2>2, <1>2 DEF Completed, Valid, Anomalies
  <2>4. CASE c = chosen
    BY <2>4, <2>1, <2>2, <1>2 DEF Completed, Valid, Anomalies, Outcomes
  <2> QED
    BY <2>3, <2>4
<1>4. Completed(rows) \subseteq Candidates /\ Completed(rows') \subseteq Candidates
  BY DEF Completed
<1> QED
  BY <1>1, <1>2, <1>3, <1>4

-----------------------------------------------------------------------------
(* What the selector may decide.                                           *)

\* A derived budget has room for whatever is left.
LEMMA RoomForWork ==
  ASSUME TypeOK, budget = 0, UntestedBaselines \cup Escalations \cup Audits # {}
  PROVE  Room
<1> DEFINE W == UntestedBaselines \cup Escalations \cup Audits
<1>1. W \subseteq Candidates
  BY DEF UntestedBaselines, Escalations, Audits, Baselines
<1> HIDE DEF W
<1>2. IsFiniteSet(W) /\ Cardinality(W) \in Nat
  BY <1>1, SizesAreNumbers
<1>3. W # {}
  BY DEF W
<1>4. Cardinality(W) # 0
  BY <1>2, <1>3, FS_EmptySet
<1>5. UniqueUsed \in Nat
  BY CompletedIsFinite DEF UniqueUsed
<1>6. EffectiveBudget = UniqueUsed + Cardinality(W)
  BY DEF EffectiveBudget, W
<1> QED
  BY <1>2, <1>4, <1>5, <1>6 DEF Room

LEMMA PendingHasRun ==
  ASSUME rows \in Rows, NEW c \in Pending
  PROVE  c \in Candidates /\ c \in Completed(rows)
<1>1. c \in Candidates /\ Anomalies(rows, c) \in 1 .. 2
  BY DEF Pending, MIN_REPETITIONS
<1> QED
  BY <1>1, CountsAreNumbers DEF Completed, Valid, Outcomes

\* A trial is of a candidate that has completed one, or there is room.
LEMMA TrialsHaveRoom ==
  ASSUME TypeOK, NEW d \in Decisions, d.action # "stop"
  PROVE  /\ d.candidate \in Candidates
         /\ d.candidate \in Completed(rows) \/ Room
<1>0. rows \in Rows
  BY DEF TypeOK
<1>1. Pending \subseteq Candidates /\ Escalations \subseteq Candidates
      /\ UntestedBaselines \subseteq Candidates /\ Audits \subseteq Candidates
  BY DEF Pending, Escalations, UntestedBaselines, Audits, Baselines
<1>2. CASE d = Deterministic
  <2>1. CASE Pending # {}
    <3>1. d = Decision("confirm", First(Pending), "none")
      BY <1>2, <2>1 DEF Deterministic
    <3>2. First(Pending) \in Pending
      BY <1>1, <2>1, FirstIsIn
    <3> QED
      BY <3>1, <3>2, <1>0, PendingHasRun DEF Decision
  <2>2. CASE Pending = {} /\ Escalations # {} /\ Room
    <3>1. d = Decision("escalate", First(Escalations), "none")
      BY <1>2, <2>2 DEF Deterministic
    <3>2. First(Escalations) \in Escalations
      BY <1>1, <2>2, FirstIsIn
    <3> QED
      BY <3>1, <3>2, <1>1, <2>2 DEF Decision
  <2>3. CASE Pending = {} /\ Escalations = {} /\ UntestedBaselines # {} /\ Room
    <3>1. d = Decision("screen", NextBaseline, "none")
      BY <1>2, <2>3 DEF Deterministic
    <3>2. NextBaseline \in UntestedBaselines
      BY <2>3, NextBaselineIsIn
    <3> QED
      BY <3>1, <3>2, <1>1, <2>3 DEF Decision
  <2>4. CASE Pending = {} /\ Escalations = {} /\ UntestedBaselines = {} /\ Audits # {} /\ Room
    <3>1. d = Decision("escalate", First(Audits), "none")
      BY <1>2, <2>4 DEF Deterministic
    <3>2. First(Audits) \in Audits
      BY <1>1, <2>4, FirstIsIn
    <3> QED
      BY <3>1, <3>2, <1>1, <2>4 DEF Decision
  <2>5. CASE /\ ~(Pending # {})
             /\ ~(Pending = {} /\ Escalations # {} /\ Room)
             /\ ~(Pending = {} /\ Escalations = {} /\ UntestedBaselines # {} /\ Room)
             /\ ~(Pending = {} /\ Escalations = {} /\ UntestedBaselines = {}
                  /\ Audits # {} /\ Room)
    <3>1. \E r : d = Stop(r)
      BY <1>2, <2>5 DEF Deterministic
    <3> QED
      BY <3>1 DEF Stop, Decision
  <2> QED
    BY <2>1, <2>2, <2>3, <2>4, <2>5
<1>3. CASE d \in Answers /\ Guard(d)
  <2>1. PICK a \in {"screen", "confirm", "escalate"}, c \in Candidates : d = Decision(a, c, "none")
    BY <1>3 DEF Answers, Stop, Decision
  <2>2. CASE a = "confirm"
    BY <2>1, <2>2, <1>0, <1>3, PendingHasRun DEF Guard, Decision
  <2>3. CASE a # "confirm"
    BY <2>1, <2>3, <1>3 DEF Guard, Decision
  <2> QED
    BY <2>2, <2>3
<1> QED
  BY <1>2, <1>3 DEF Decisions

\* With room left nothing is left to do where the selector stops.
LEMMA StopsAreDone ==
  ASSUME TypeOK, NEW d \in Decisions, d.action = "stop"
  PROVE  /\ d.reason \in {"budget_exhausted", "environment_blocked", "low_expected_value", "llm"}
         /\ budget = 0 \/ Room =>
              Pending = {} /\ UntestedBaselines = {} /\ Escalations = {} /\ Audits = {}
<1>1. CASE d = Deterministic
  <2>1. CASE Pending # {}
    BY <1>1, <2>1 DEF Deterministic, Decision
  <2>2. CASE Pending = {} /\ Escalations # {} /\ Room
    BY <1>1, <2>2 DEF Deterministic, Decision
  <2>3. CASE Pending = {} /\ Escalations = {} /\ UntestedBaselines # {} /\ Room
    BY <1>1, <2>3 DEF Deterministic, Decision
  <2>4. CASE Pending = {} /\ Escalations = {} /\ UntestedBaselines = {} /\ Audits # {} /\ Room
    BY <1>1, <2>4 DEF Deterministic, Decision
  <2>5. CASE /\ ~(Pending # {})
             /\ ~(Pending = {} /\ Escalations # {} /\ Room)
             /\ ~(Pending = {} /\ Escalations = {} /\ UntestedBaselines # {} /\ Room)
             /\ ~(Pending = {} /\ Escalations = {} /\ UntestedBaselines = {}
                  /\ Audits # {} /\ Room)
    <3>1. d.reason \in {"budget_exhausted", "environment_blocked", "low_expected_value"}
      BY <1>1, <2>5 DEF Deterministic, Stop, Decision
    <3>2. budget = 0 \/ Room =>
             UntestedBaselines = {} /\ Escalations = {} /\ Audits = {}
      BY <2>5, RoomForWork
    <3> QED
      BY <2>5, <3>1, <3>2
  <2> QED
    BY <2>1, <2>2, <2>3, <2>4, <2>5
<1>2. CASE d \in Answers /\ Guard(d)
  <2>1. d = Stop("llm")
    BY <1>2 DEF Answers, Decision
  <2>2. /\ Pending = {}
        /\ Escalations # {} => ~Room
        /\ UntestedBaselines # {} => ~Room
        /\ Audits # {} => ~Room
    BY <1>2, <2>1 DEF Guard, Stop, Decision
  <2>3. budget = 0 \/ Room =>
           UntestedBaselines = {} /\ Escalations = {} /\ Audits = {}
    BY <2>2, RoomForWork
  <2> QED
    BY <2>1, <2>2, <2>3 DEF Stop, Decision
<1> QED
  BY <1>1, <1>2 DEF Decisions

-----------------------------------------------------------------------------
(* Where nothing is left to do, the campaign is complete.                  *)

\* The cards that defer a variant, and its siblings, speak for leaving it out.
LEMMA DeferredIsSpared ==
  ASSUME TypeOK, CardsAreEarned, NEW v \in Candidates \ Baselines, Deferred(v)
  PROVE  SparedByExperience(v)
<1>1. rows \in Rows
  BY DEF TypeOK
<1>2. PICK b \in Baselines :
         /\ Cluster(b) = Cluster(v) /\ Triggered(b) /\ ReusableWeakness(b)
         /\ Valid(rows, v) = 0
         /\ \A w \in Variants(v) : Anomalies(rows, w) = 0
         /\ \E w \in Variants(v) : Valid(rows, w) > 0
  BY DEF Deferred
<1>3. PICK c \in Candidates : Cluster(c) = Cluster(b) /\ cards[c] = "whole"
  BY <1>2 DEF ReusableWeakness
<1>4. confirmed[c] >= 3
  BY <1>3 DEF CardsAreEarned, MIN_REPETITIONS
<1>5. PICK w \in Variants(v) : Valid(rows, w) > 0
  BY <1>2
<1>6. w \in Candidates \ Baselines /\ Cluster(w) = Cluster(v)
  BY <1>5 DEF Variants
<1>7. rows[w]["clean"] + rows[w]["near"] > 0
  <2>1. Anomalies(rows, w) = 0
    BY <1>2, <1>5
  <2>2. rows[w]["clean"] \in Nat /\ rows[w]["near"] \in Nat
    BY <1>1, <1>6, CountsAreNumbers DEF Outcomes
  <2> QED
    BY <1>5, <2>1, <2>2 DEF Valid
<1>8. \A u \in {x \in Candidates : Cluster(x) = Cluster(v)} \ Baselines : u \in Variants(v)
  BY DEF Variants
<1> QED
  BY <1>2, <1>3, <1>4, <1>6, <1>7, <1>8 DEF SparedByExperience

LEMMA DoneIsComplete ==
  ASSUME TypeOK, CardsAreEarned,
         Pending = {}, UntestedBaselines = {}, Escalations = {}, Audits = {}
  PROVE  Complete
<1>1. rows \in Rows
  BY DEF TypeOK
<1>2. \A c \in Candidates : AnomalyIsSettled(c)
  BY <1>1, CountsAreNumbers DEF AnomalyIsSettled, Pending, MIN_REPETITIONS
<1>3. ASSUME NEW c \in Candidates, ~Untested(c)
      PROVE  Valid(rows, c) > 0 \/ rows[c]["blocked"] > 0
  BY <1>1, <1>3, CountsAreNumbers DEF Untested, Blocked
<1>4. \A b \in Baselines : Valid(rows, b) > 0 \/ rows[b]["blocked"] > 0
  BY <1>3 DEF UntestedBaselines, Baselines
<1>5. ASSUME NEW v \in Candidates \ Baselines, ~(Untested(v) /\ ~Deferred(v))
      PROVE  Valid(rows, v) > 0 \/ rows[v]["blocked"] > 0 \/ SparedByExperience(v)
  BY <1>3, <1>5, DeferredIsSpared
<1>6. ASSUME NEW b \in Baselines, Triggered(b), NEW v \in Variants(b)
      PROVE  Valid(rows, v) > 0 \/ rows[v]["blocked"] > 0 \/ SparedByExperience(v)
  <2>1. v \in Candidates \ Baselines /\ Cluster(b) = Cluster(v)
    BY DEF Variants
  <2> QED
    BY <1>5, <1>6, <2>1 DEF Escalations
<1>7. ASSUME NEW b \in Baselines,
             Valid(rows, b) > 0, Cardinality(Variants(b)) >= AuditFloor
      PROVE  Cardinality({v \in Variants(b) : \/ Valid(rows, v) > 0
                                              \/ rows[v]["blocked"] > 0
                                              \/ SparedByExperience(v)}) >= AuditFloor
  <2> DEFINE V == Variants(b)
             U == {w \in V : Untested(w) /\ ~Deferred(w)}
             C == V \ U
             K == {v \in V : \/ Valid(rows, v) > 0
                             \/ rows[v]["blocked"] > 0
                             \/ SparedByExperience(v)}
  <2>1. V \subseteq Candidates \ Baselines /\ b \in Candidates
    BY DEF Variants, Baselines
  <2>2. C \subseteq K
    BY <1>5, <2>1
  <2>3. /\ IsFiniteSet(K) /\ Cardinality(K) \in Nat
        /\ Cardinality(C) \in Nat /\ Cardinality(C) <= Cardinality(K)
    BY <2>1, <2>2, SizesAreNumbers, FS_Subset
  <2>4. Cardinality(C) >= AuditFloor
    <3>1. CASE U = {}
      BY <1>7, <3>1
    <3>2. CASE U # {}
      <4>1. PICK v \in U : \A w \in U \ {v} : Before(v, w)
        BY <2>1, <3>2, FirstIsIn
      <4>2. v \in V /\ v \in Candidates \ Baselines /\ Cluster(b) = Cluster(v)
        BY <2>1 DEF Variants
      <4>3. Variants(v) = V
        BY <4>2 DEF Variants
      <4>4. {w \in U : w.level < v.level} = {}
        <5>1. \A w \in U : w.level \in Nat
          BY <2>1, CampaignAssumption
        <5> QED
          BY <4>1, <5>1 DEF Before
      <4>5. Cardinality({w \in U : w.level < v.level}) = 0
        BY <4>4, FS_EmptySet
      <4>6. \/ v \notin Candidates \ Baselines
            \/ v \notin U \ Escalations
            \/ ~(\E x \in Baselines : Cluster(x) = Cluster(v) /\ Valid(rows, x) > 0)
            \/ ~(Cardinality({w \in U : w.level < v.level}) < AuditFloor - Cardinality(C))
        BY <4>3 DEF Audits
      <4>7. ~(0 < AuditFloor - Cardinality(C))
        BY <1>7, <4>2, <4>5, <4>6
      <4> QED
        BY <4>7, <2>3, CampaignAssumption
    <3> QED
      BY <3>1, <3>2
  <2> HIDE DEF C, K
  <2>5. Cardinality(K) >= AuditFloor
    BY <2>3, <2>4, CampaignAssumption
  <2> QED
    BY <2>5 DEF K
<1> QED
  BY <1>2, <1>4, <1>6, <1>7 DEF Complete

-----------------------------------------------------------------------------
(* The invariant holds at first, and every step keeps it.                  *)

LEMMA InitInv ==
  ASSUME Init
  PROVE  IInv
<1>1. rows \in Rows /\ budget \in Nat
  BY CampaignAssumption DEF Init
<1>2. TypeOK
  <2>1. saved \in [kind : {"absent", "torn", "whole"}, rows : Rows, actions : Nat]
    BY <1>1 DEF Init, State
  <2>2. confirmed \in [Candidates -> Nat]
    BY <1>1, CountsAreNumbers DEF Init, past, Outcomes
  <2> QED
    BY <1>1, <2>1, <2>2, CompletedIsFinite DEF Init, TypeOK, root, past
<1>3. saved.rows = rows /\ completed = Completed(rows) /\ crashes = 0
  BY DEF Init, State
<1>4. Remembers(rows) /\ Remembers(saved.rows)
  <2>1. \A c \in Candidates : rows[c]["confirmed"] \in Nat
    BY <1>1, CountsAreNumbers DEF Outcomes
  <2> QED
    BY <1>3, <2>1 DEF Init, Remembers
<1>5. Cardinality(Completed(rows)) \in Nat
  BY CompletedIsFinite
<1>6. Forgotten /\ Ran
  BY <1>3, <1>5 DEF Forgotten, Ran
<1>7. BudgetHolds
  <2>1. budget > 0 => Cardinality(Completed(rows)) <= budget
    BY HistoryAssumption DEF Init
  <2> QED
    BY <1>3, <2>1, <1>1, <1>5 DEF BudgetHolds
<1>8. phase = "down" /\ stop = "none" /\ cards = [c \in Candidates |-> "absent"]
  BY DEF Init
<1>9. Published /\ FinishedIsPublished /\ Phases /\ StopIsComplete /\ CardsAreEarned
  BY <1>8 DEF Published, FinishedIsPublished, Phases, StopIsComplete, CardsAreEarned
<1> QED
  BY <1>2, <1>4, <1>6, <1>7, <1>9 DEF IInv

LEMMA StartInv ==
  ASSUME IInv, Start
  PROVE  IInv'
<1>1. phase = "down" /\ phase' \in {"select", "refused"}
  BY DEF Start
<1>2. /\ UNCHANGED <<budget, chosen, stop, made, saved, cards, index, completed, confirmed, crashes>>
      /\ \/ rows' = saved.rows /\ actions' = saved.actions
         \/ UNCHANGED <<rows, actions>> /\ phase' = "refused"
  BY DEF Start, root, past
<1>3. TypeOK /\ CardsAreEarned /\ Remembers(rows) /\ Remembers(saved.rows)
      /\ Forgotten /\ Ran /\ BudgetHolds /\ Phases
  BY DEF IInv
<1>4. TypeOK'
  BY <1>1, <1>2, <1>3 DEF TypeOK
<1>5. CardsAreEarned' /\ Remembers(rows)' /\ Remembers(saved.rows)'
  BY <1>2, <1>3 DEF CardsAreEarned, Remembers
<1>6. Forgotten' /\ Ran'
  BY <1>1, <1>2, <1>3 DEF Forgotten, Ran
<1>7. BudgetHolds'
  BY <1>2, <1>3 DEF BudgetHolds
<1>8. Published' /\ FinishedIsPublished' /\ StopIsComplete'
  BY <1>1 DEF Published, FinishedIsPublished, StopIsComplete
<1>9. Phases'
  BY <1>1, <1>2, <1>3 DEF Phases
<1> QED
  BY <1>4, <1>5, <1>6, <1>7, <1>8, <1>9 DEF IInv

LEMMA SelectInv ==
  ASSUME IInv, Select
  PROVE  IInv'
<1>1. phase = "select" /\ phase' \in {"promote", "trial"}
  BY DEF Select, Halt
<1>2. UNCHANGED <<budget, rows, actions, saved, cards, index, completed, confirmed, crashes>>
  BY DEF Select, root, past
<1>3. TypeOK /\ CardsAreEarned /\ Remembers(rows) /\ Remembers(saved.rows)
      /\ Forgotten /\ Ran /\ BudgetHolds /\ Phases
  BY DEF IInv
<1>4. \/ /\ phase' = "promote" /\ stop' = "max_actions" /\ UNCHANGED <<chosen, made>>
      \/ \E d \in Decisions :
            /\ d.action = "stop"
            /\ phase' = "promote" /\ stop' = d.reason /\ UNCHANGED <<chosen, made>>
      \/ \E d \in Decisions :
            /\ d.action # "stop"
            /\ phase' = "trial" /\ chosen' = d.candidate /\ made' = TRUE /\ stop' = stop
  BY DEF Select, Halt
<1>5. TypeOK' /\ Phases' /\ StopIsComplete'
  <2>1. CASE phase' = "promote" /\ stop' = "max_actions" /\ UNCHANGED <<chosen, made>>
    BY <2>1, <1>2, <1>3 DEF TypeOK, Phases, StopIsComplete
  <2>2. ASSUME NEW d \in Decisions, d.action = "stop",
               phase' = "promote", stop' = d.reason, UNCHANGED <<chosen, made>>
        PROVE  TypeOK' /\ Phases' /\ StopIsComplete'
    <3>1. /\ d.reason \in {"budget_exhausted", "environment_blocked", "low_expected_value", "llm"}
          /\ budget = 0 \/ Room =>
               Pending = {} /\ UntestedBaselines = {} /\ Escalations = {} /\ Audits = {}
      BY <1>3, <2>2, StopsAreDone
    <3>2. budget = 0 \/ Room => Complete
      BY <1>3, <3>1, DoneIsComplete
    <3>3. Room' = Room
      BY <1>2 DEF Room, UniqueUsed, EffectiveBudget, UntestedBaselines, Escalations, Audits,
         Untested, Deferred, Blocked, Triggered, ReusableWeakness
    <3>4. Complete' = Complete
      BY <1>2 DEF Complete, AnomalyIsSettled, SparedByExperience, Triggered
    <3>5. StopIsComplete'
      BY <1>2, <3>2, <3>3, <3>4 DEF StopIsComplete
    <3> QED
      BY <1>2, <1>3, <2>2, <3>1, <3>5 DEF TypeOK, Phases
  <2>3. ASSUME NEW d \in Decisions, d.action # "stop",
               phase' = "trial", chosen' = d.candidate, made' = TRUE, stop' = stop
        PROVE  TypeOK' /\ Phases' /\ StopIsComplete'
    <3>1. d.candidate \in Candidates /\ (d.candidate \in Completed(rows) \/ Room)
      BY <1>3, <2>3, TrialsHaveRoom
    <3>2. budget > 0 => d.candidate \in Completed(rows) \/ UniqueUsed < budget
      BY <3>1 DEF Room, EffectiveBudget
    <3>3. UniqueUsed' = UniqueUsed /\ Completed(rows)' = Completed(rows)
      BY <1>2 DEF UniqueUsed
    <3>4. Phases'
      BY <1>1, <1>2, <1>3, <2>3, <3>1, <3>2, <3>3 DEF Phases
    <3> QED
      BY <1>2, <1>3, <2>3, <3>1, <3>4 DEF TypeOK, StopIsComplete
  <2> QED
    BY <1>4, <2>1, <2>2, <2>3
<1>6. CardsAreEarned' /\ Remembers(rows)' /\ Remembers(saved.rows)'
  BY <1>2, <1>3 DEF CardsAreEarned, Remembers
<1>7. Forgotten' /\ Ran'
  BY <1>1, <1>2, <1>3 DEF Forgotten, Ran
<1>8. BudgetHolds'
  BY <1>2, <1>3 DEF BudgetHolds
<1>9. Published' /\ FinishedIsPublished'
  BY <1>1 DEF Published, FinishedIsPublished
<1> QED
  BY <1>5, <1>6, <1>7, <1>8, <1>9 DEF IInv

\* What a trial adds to what really ran.
LEMMA RunsAfterTrial ==
  ASSUME TypeOK, chosen \in Candidates, NEW outcome \in Outcomes, HasRun(outcome)
  PROVE  /\ completed' \subseteq Candidates /\ completed \subseteq completed'
         /\ chosen \in completed => completed' = completed
         /\ Cardinality(completed) \in Nat /\ Cardinality(completed') \in Nat
         /\ Cardinality(completed') <= Cardinality(completed) + 1
         /\ confirmed' \in [Candidates -> Nat]
         /\ \A c \in Candidates :
               confirmed'[c] = IF c = chosen /\ outcome = "confirmed"
                               THEN confirmed[c] + 1 ELSE confirmed[c]
<1>1. completed \subseteq Candidates /\ confirmed \in [Candidates -> Nat]
  BY DEF TypeOK
<1>2. completed' = completed \/ completed' = completed \cup {chosen}
  BY DEF HasRun
<1>3. completed' \subseteq Candidates /\ completed \subseteq completed'
      /\ (chosen \in completed => completed' = completed)
  BY <1>1, <1>2
<1>4. /\ IsFiniteSet(completed) /\ Cardinality(completed) \in Nat
      /\ Cardinality(completed') \in Nat
  BY <1>1, <1>3, SizesAreNumbers
<1>5. Cardinality(completed') <= Cardinality(completed) + 1
  BY <1>2, <1>4, FS_AddElement
<1>6. /\ confirmed' \in [Candidates -> Nat]
      /\ \A c \in Candidates :
            confirmed'[c] = IF c = chosen /\ outcome = "confirmed"
                            THEN confirmed[c] + 1 ELSE confirmed[c]
  BY <1>1 DEF HasRun
<1> QED
  BY <1>3, <1>4, <1>5, <1>6

LEMMA TrialInv ==
  ASSUME IInv, Trial
  PROVE  IInv'
<1>1. phase = "trial" /\ phase' = "promote" /\ actions' = actions + 1
  BY DEF Trial
<1>2. UNCHANGED <<budget, chosen, stop, made, saved, cards, index, crashes>>
  BY DEF Trial, root
<1>3. TypeOK /\ CardsAreEarned /\ Remembers(rows) /\ Remembers(saved.rows)
      /\ Forgotten /\ Ran /\ BudgetHolds /\ Phases
  BY DEF IInv
<1>4. PICK outcome \in Outcomes : Count(outcome) /\ HasRun(outcome)
  BY DEF Trial
<1>5. /\ rows \in Rows /\ rows = saved.rows /\ stop = "none" /\ chosen \in Candidates
      /\ budget > 0 => chosen \in Completed(rows) \/ UniqueUsed < budget
  BY <1>1, <1>3 DEF Phases, TypeOK
<1> DEFINE X == {c \in {chosen} :
                   outcome \in {"confirmed", "anomaly", "near", "clean", "unattested"}}
<1>6. /\ rows' \in Rows
      /\ \A c \in Candidates, o \in Outcomes :
            rows'[c][o] = IF c = chosen /\ o = outcome THEN rows[c][o] + 1 ELSE rows[c][o]
      /\ Completed(rows') = Completed(rows) \cup X
  BY <1>4, <1>5, RowsAfterTrial
<1>7. completed' = completed \cup X
  BY <1>4 DEF HasRun
<1>8. /\ completed' \subseteq Candidates /\ completed \subseteq completed'
      /\ chosen \in completed => completed' = completed
      /\ Cardinality(completed) \in Nat /\ Cardinality(completed') \in Nat
      /\ Cardinality(completed') <= Cardinality(completed) + 1
      /\ confirmed' \in [Candidates -> Nat]
      /\ \A c \in Candidates :
            confirmed'[c] = IF c = chosen /\ outcome = "confirmed"
                            THEN confirmed[c] + 1 ELSE confirmed[c]
  BY <1>3, <1>4, <1>5, RunsAfterTrial
<1>9. TypeOK'
  BY <1>1, <1>2, <1>3, <1>6, <1>8 DEF TypeOK
<1>10. CardsAreEarned' /\ Remembers(rows)' /\ Remembers(saved.rows)'
  <2>1. \A c \in Candidates : /\ rows[c]["confirmed"] \in Nat /\ confirmed[c] \in Nat
                              /\ rows[c]["confirmed"] <= confirmed[c]
    BY <1>3, <1>5, CountsAreNumbers DEF Remembers, TypeOK, Outcomes
  <2>2. \A c \in Candidates : confirmed[c] <= confirmed'[c]
    BY <1>8, <2>1
  <2>3. \A c \in Candidates : rows'[c]["confirmed"] <= confirmed'[c]
    BY <1>6, <1>8, <2>1 DEF Outcomes
  <2>4. \A c \in Candidates : confirmed'[c] \in Nat
    BY <1>8
  <2> QED
    BY <1>2, <1>3, <1>5, <2>1, <2>2, <2>3, <2>4 DEF CardsAreEarned, Remembers, MIN_REPETITIONS
<1>11. Ran'
  BY <1>2, <1>3, <1>6, <1>7 DEF Ran
<1> HIDE DEF X
<1>12. Completed(rows) \subseteq completed
  BY <1>3 DEF Ran
<1>13. /\ Cardinality(Completed(rows)) \in Nat /\ IsFiniteSet(Completed(rows'))
       /\ Cardinality(Completed(rows')) \in Nat
  BY CompletedIsFinite
<1>14. Cardinality(Completed(rows)) <= Cardinality(Completed(rows'))
  BY <1>6, <1>13, FS_Subset
<1>15. crashes \in Nat /\ budget \in Nat
  BY <1>3 DEF TypeOK
<1>16. Cardinality(completed) <= Cardinality(Completed(rows)) + crashes
  BY <1>3 DEF Forgotten
<1>17. Cardinality(completed') <= Cardinality(Completed(rows')) + crashes
  <2>1. CASE completed' = completed
    BY <2>1, <1>8, <1>13, <1>14, <1>15, <1>16
  <2>2. CASE completed' # completed
    <3>1. X = {chosen} /\ chosen \notin completed
      BY <1>7, <1>8, <2>2 DEF X
    <3>2. Completed(rows') = Completed(rows) \cup {chosen} /\ chosen \notin Completed(rows)
      BY <1>6, <1>12, <3>1
    <3>3. Cardinality(Completed(rows')) = Cardinality(Completed(rows)) + 1
      BY <3>2, CompletedIsFinite, FS_AddElement
    <3> QED
      BY <3>3, <1>8, <1>13, <1>15, <1>16
  <2> QED
    BY <2>1, <2>2
<1>18. Cardinality(completed') <= Cardinality(Completed(saved.rows)) + crashes + 1
  BY <1>5, <1>8, <1>13, <1>15, <1>16
<1>19. Forgotten'
  BY <1>1, <1>2, <1>17, <1>18 DEF Forgotten
<1>20. BudgetHolds'
  <2>1. SUFFICES ASSUME budget > 0 PROVE Cardinality(completed') <= budget + crashes
    BY <1>2 DEF BudgetHolds
  <2>2. CASE chosen \in Completed(rows)
    <3>1. completed' = completed
      BY <1>8, <1>12, <2>2
    <3> QED
      BY <1>3, <2>1, <3>1 DEF BudgetHolds
  <2>3. CASE UniqueUsed < budget
    BY <2>3, <1>8, <1>13, <1>15, <1>16 DEF UniqueUsed
  <2> QED
    BY <1>5, <2>1, <2>2, <2>3
<1>21. Published' /\ FinishedIsPublished' /\ StopIsComplete' /\ Phases'
  BY <1>1, <1>2, <1>5 DEF Published, FinishedIsPublished, StopIsComplete, Phases
<1> QED
  BY <1>9, <1>10, <1>11, <1>19, <1>20, <1>21 DEF IInv

LEMMA PromoteInv ==
  ASSUME IInv, Promote
  PROVE  IInv'
<1>1. phase = "promote" /\ phase' = "index" /\ made' = TRUE
      /\ cards' = [c \in Candidates |-> IF c \in Promotable THEN "whole" ELSE cards[c]]
  BY DEF Promote
<1>2. UNCHANGED <<budget, rows, actions, chosen, stop, saved, index, completed, confirmed, crashes>>
  BY DEF Promote, past
<1>3. TypeOK /\ CardsAreEarned /\ Remembers(rows) /\ Remembers(saved.rows)
      /\ Forgotten /\ Ran /\ BudgetHolds /\ Phases
  BY DEF IInv
<1>4. TypeOK'
  BY <1>1, <1>2, <1>3 DEF TypeOK
<1>5. CardsAreEarned' /\ Remembers(rows)' /\ Remembers(saved.rows)'
  <2>1. \A c \in Candidates : rows[c]["confirmed"] \in Nat /\ confirmed[c] \in Nat
    BY <1>3, CountsAreNumbers DEF TypeOK, Outcomes
  <2>2. \A c \in Promotable : confirmed[c] >= MIN_REPETITIONS
    BY <1>3, <2>1 DEF Promotable, Remembers, MIN_REPETITIONS
  <2> QED
    BY <1>1, <1>2, <1>3, <2>2 DEF CardsAreEarned, Remembers
<1>6. Forgotten' /\ Ran' /\ BudgetHolds'
  BY <1>1, <1>2, <1>3 DEF Forgotten, Ran, BudgetHolds
<1>7. Published'
  BY <1>1, <1>2 DEF Published, Promotable
<1>8. FinishedIsPublished' /\ StopIsComplete' /\ Phases'
  BY <1>1 DEF FinishedIsPublished, StopIsComplete, Phases
<1> QED
  BY <1>4, <1>5, <1>6, <1>7, <1>8 DEF IInv

LEMMA RefreshInv ==
  ASSUME IInv, Refresh
  PROVE  IInv'
<1>1. /\ phase = "index"
      /\ index' = [whole |-> TRUE, cards |-> {c \in Candidates : cards[c] = "whole"}]
      /\ \/ stop = "none" /\ phase' = "save" /\ UNCHANGED chosen
         \/ phase' = "done" /\ chosen' = NoCandidate
  BY DEF Refresh
<1>2. UNCHANGED <<budget, rows, actions, stop, made, saved, cards, completed, confirmed, crashes>>
  BY DEF Refresh, past
<1>3. TypeOK /\ CardsAreEarned /\ Remembers(rows) /\ Remembers(saved.rows)
      /\ Forgotten /\ Ran /\ BudgetHolds /\ Phases /\ Published
  BY DEF IInv
<1>4. TypeOK'
  <2>1. index' \in [whole : BOOLEAN, cards : SUBSET Candidates]
    BY <1>1
  <2> QED
    BY <1>1, <1>2, <1>3, <2>1 DEF TypeOK
<1>5. CardsAreEarned' /\ Remembers(rows)' /\ Remembers(saved.rows)'
  BY <1>2, <1>3 DEF CardsAreEarned, Remembers
<1>6. Forgotten' /\ Ran' /\ BudgetHolds'
  BY <1>1, <1>2, <1>3 DEF Forgotten, Ran, BudgetHolds
<1>7. FinishedIsPublished'
  BY <1>1, <1>2, <1>3 DEF FinishedIsPublished, Published
<1>8. Published' /\ StopIsComplete' /\ Phases'
  BY <1>1, <1>2 DEF Published, StopIsComplete, Phases
<1> QED
  BY <1>4, <1>5, <1>6, <1>7, <1>8 DEF IInv

LEMMA SaveInv ==
  ASSUME IInv, Save
  PROVE  IInv'
<1>1. /\ phase = "save" /\ phase' = "select" /\ chosen' = NoCandidate
      /\ saved' = [kind |-> "whole", rows |-> rows, actions |-> actions]
  BY DEF Save, State
<1>2. UNCHANGED <<budget, rows, actions, stop, made, cards, index, completed, confirmed, crashes>>
  BY DEF Save, root, past
<1>3. TypeOK /\ CardsAreEarned /\ Remembers(rows) /\ Forgotten /\ Ran /\ BudgetHolds /\ Phases
  BY DEF IInv
<1>4. TypeOK'
  BY <1>1, <1>2, <1>3 DEF TypeOK
<1>5. CardsAreEarned' /\ Remembers(rows)' /\ Remembers(saved.rows)'
  BY <1>1, <1>2, <1>3 DEF CardsAreEarned, Remembers
<1>6. Forgotten'
  <2>1. crashes \in Nat /\ Cardinality(completed) \in Nat /\ Cardinality(Completed(rows)) \in Nat
    BY <1>3, SizesAreNumbers, CompletedIsFinite DEF TypeOK
  <2> QED
    BY <1>1, <1>2, <1>3, <2>1 DEF Forgotten
<1>7. Ran' /\ BudgetHolds'
  BY <1>1, <1>2, <1>3 DEF Ran, BudgetHolds
<1>8. Published' /\ FinishedIsPublished' /\ StopIsComplete' /\ Phases'
  BY <1>1, <1>2, <1>3 DEF Published, FinishedIsPublished, StopIsComplete, Phases
<1> QED
  BY <1>4, <1>5, <1>6, <1>7, <1>8 DEF IInv

\* What is on disk and what really ran, behind a death.
LEMMA DeathsLeave ==
  ASSUME IInv, Die
  PROVE  /\ cards' \in [Candidates -> {"absent", "torn", "whole"}] /\ made' \in BOOLEAN
         /\ \A c \in Candidates : cards'[c] = "whole" => confirmed[c] >= MIN_REPETITIONS
         /\ \/ UNCHANGED saved
            \/ phase = "save" /\ saved' = [kind |-> "torn", rows |-> rows, actions |-> 0]
         /\ index' \in [whole : BOOLEAN, cards : SUBSET Candidates]
         /\ \/ UNCHANGED <<completed, confirmed>>
            \/ phase = "trial" /\ \E outcome \in Outcomes : HasRun(outcome)
<1>1. TypeOK /\ CardsAreEarned /\ Remembers(rows)
  BY DEF IInv
<1>2. \A c \in Candidates : rows[c]["confirmed"] \in Nat /\ confirmed[c] \in Nat
  BY <1>1, CountsAreNumbers DEF TypeOK, Outcomes
<1>3. \A c \in Promotable : confirmed[c] >= MIN_REPETITIONS
  BY <1>1, <1>2 DEF Promotable, Remembers, MIN_REPETITIONS
<1>4. UNCHANGED <<cards, made>> \/ CutCards
  BY DEF Die
<1>5. /\ cards' \in [Candidates -> {"absent", "torn", "whole"}] /\ made' \in BOOLEAN
      /\ \A c \in Candidates : cards'[c] = "whole" => confirmed[c] >= MIN_REPETITIONS
  <2>1. CASE UNCHANGED <<cards, made>>
    BY <2>1, <1>1 DEF TypeOK, CardsAreEarned
  <2>2. ASSUME NEW cut \in Promotable, made' = TRUE,
               cards' = [c \in Candidates |->
                           CASE c = cut -> "torn"
                             [] c # cut /\ c \in Promotable /\ Before(c, cut) -> "whole"
                             [] OTHER -> cards[c]]
        PROVE  /\ cards' \in [Candidates -> {"absent", "torn", "whole"}] /\ made' \in BOOLEAN
               /\ \A c \in Candidates : cards'[c] = "whole" => confirmed[c] >= MIN_REPETITIONS
    <3>1. \A c \in Candidates : \/ cards'[c] = "torn"
                                \/ cards'[c] = "whole" /\ c \in Promotable
                                \/ cards'[c] = cards[c]
      BY <2>2
    <3>2. cards' \in [Candidates -> {"absent", "torn", "whole"}]
      BY <2>2, <1>1 DEF TypeOK
    <3> QED
      BY <3>1, <3>2, <2>2, <1>1, <1>3 DEF CardsAreEarned
  <2> QED
    BY <1>4, <2>1, <2>2 DEF CutCards
<1>6. \/ UNCHANGED saved
      \/ phase = "save" /\ saved' = [kind |-> "torn", rows |-> rows, actions |-> 0]
  BY DEF Die, State
<1>7. index' \in [whole : BOOLEAN, cards : SUBSET Candidates]
  <2>1. index' = index \/ index' = [whole |-> FALSE, cards |-> {}]
    BY DEF Die
  <2>2. index \in [whole : BOOLEAN, cards : SUBSET Candidates]
    BY <1>1 DEF TypeOK
  <2>3. [whole |-> FALSE, cards |-> {}] \in [whole : BOOLEAN, cards : SUBSET Candidates]
    OBVIOUS
  <2> QED
    BY <2>1, <2>2, <2>3
<1>8. \/ UNCHANGED <<completed, confirmed>>
      \/ phase = "trial" /\ \E outcome \in Outcomes : HasRun(outcome)
  BY DEF Die, past
<1> QED
  BY <1>5, <1>6, <1>7, <1>8

LEMMA DieInv ==
  ASSUME IInv, Die
  PROVE  IInv'
<1>1. /\ phase' = "down" /\ chosen' = NoCandidate /\ stop' = "none" /\ budget' = budget
      /\ rows' = saved.rows /\ actions' = saved.actions /\ crashes' = crashes + 1
  BY DEF Die
<1>2. /\ cards' \in [Candidates -> {"absent", "torn", "whole"}] /\ made' \in BOOLEAN
      /\ \A c \in Candidates : cards'[c] = "whole" => confirmed[c] >= MIN_REPETITIONS
      /\ \/ UNCHANGED saved
         \/ phase = "save" /\ saved' = [kind |-> "torn", rows |-> rows, actions |-> 0]
      /\ index' \in [whole : BOOLEAN, cards : SUBSET Candidates]
      /\ \/ UNCHANGED <<completed, confirmed>>
         \/ phase = "trial" /\ \E outcome \in Outcomes : HasRun(outcome)
  BY DeathsLeave
<1>3. TypeOK /\ CardsAreEarned /\ Remembers(rows) /\ Remembers(saved.rows)
      /\ Forgotten /\ Ran /\ BudgetHolds /\ Phases
  BY DEF IInv
<1>4. saved'.rows = saved.rows \/ (saved'.rows = rows /\ phase = "save")
  BY <1>2
<1>5. /\ completed' \subseteq Candidates /\ completed \subseteq completed'
      /\ confirmed' \in [Candidates -> Nat]
      /\ \A c \in Candidates : confirmed[c] <= confirmed'[c]
      /\ Cardinality(completed) \in Nat /\ Cardinality(completed') \in Nat
      /\ \/ completed' = completed
         \/ phase = "trial" /\ Cardinality(completed') <= Cardinality(completed) + 1
  <2>1. /\ completed \subseteq Candidates /\ confirmed \in [Candidates -> Nat]
        /\ Cardinality(completed) \in Nat
    BY <1>3, SizesAreNumbers DEF TypeOK
  <2>2. CASE UNCHANGED <<completed, confirmed>>
    BY <2>1, <2>2
  <2>3. ASSUME phase = "trial", NEW outcome \in Outcomes, HasRun(outcome)
        PROVE  /\ completed' \subseteq Candidates /\ completed \subseteq completed'
               /\ confirmed' \in [Candidates -> Nat]
               /\ \A c \in Candidates : confirmed[c] <= confirmed'[c]
               /\ Cardinality(completed') \in Nat
               /\ Cardinality(completed') <= Cardinality(completed) + 1
    <3>1. chosen \in Candidates
      BY <1>3, <2>3 DEF Phases
    <3> QED
      BY <1>3, <2>1, <2>3, <3>1, RunsAfterTrial
  <2> QED
    BY <1>2, <2>1, <2>2, <2>3
<1>6. /\ rows \in Rows /\ saved.rows \in Rows /\ saved.actions \in Nat
      /\ crashes \in Nat /\ budget \in Nat
  BY <1>3 DEF TypeOK
<1>7. TypeOK'
  <2>1. saved' \in [kind : {"absent", "torn", "whole"}, rows : Rows, actions : Nat]
    BY <1>2, <1>3, <1>6 DEF TypeOK
  <2> QED
    BY <1>1, <1>2, <1>5, <1>6, <2>1 DEF TypeOK
<1>8. CardsAreEarned' /\ Remembers(rows)' /\ Remembers(saved.rows)'
  <2>1. \A c \in Candidates : /\ rows[c]["confirmed"] \in Nat /\ saved.rows[c]["confirmed"] \in Nat
                              /\ confirmed[c] \in Nat /\ confirmed'[c] \in Nat
    BY <1>3, <1>5, <1>6, CountsAreNumbers DEF TypeOK, Outcomes
  <2>2. \A c \in Candidates : /\ rows[c]["confirmed"] <= confirmed'[c]
                              /\ saved.rows[c]["confirmed"] <= confirmed'[c]
    BY <1>3, <1>5, <2>1 DEF Remembers
  <2> QED
    BY <1>1, <1>2, <1>4, <1>5, <2>1, <2>2 DEF CardsAreEarned, Remembers, MIN_REPETITIONS
<1>9. Cardinality(Completed(rows)) \in Nat /\ Cardinality(Completed(saved.rows)) \in Nat
  BY CompletedIsFinite
<1>10. /\ Cardinality(completed') <= Cardinality(Completed(saved.rows)) + crashes + 1
       /\ Cardinality(completed') <= Cardinality(Completed(saved'.rows)) + crashes + 1
  <2>1. CASE completed' = completed
    BY <2>1, <1>3, <1>4, <1>5, <1>6, <1>9 DEF Forgotten
  <2>2. CASE phase = "trial" /\ Cardinality(completed') <= Cardinality(completed) + 1
    <3>1. saved.rows = rows /\ saved'.rows = saved.rows
      BY <1>3, <1>4, <2>2 DEF Phases
    <3> QED
      BY <2>2, <3>1, <1>3, <1>5, <1>6, <1>9 DEF Forgotten
  <2> QED
    BY <1>5, <2>1, <2>2
<1>11. Forgotten'
  <2>1. Cardinality(Completed(saved'.rows)) \in Nat
    BY CompletedIsFinite
  <2> QED
    BY <1>1, <1>5, <1>6, <1>9, <1>10, <2>1 DEF Forgotten
<1>12. Ran'
  BY <1>1, <1>3, <1>4, <1>5 DEF Ran
<1>13. BudgetHolds'
  <2>1. CASE completed' = completed
    BY <2>1, <1>1, <1>3, <1>5, <1>6 DEF BudgetHolds
  <2>2. CASE Cardinality(completed') <= Cardinality(completed) + 1
    BY <2>2, <1>1, <1>3, <1>5, <1>6 DEF BudgetHolds
  <2> QED
    BY <1>5, <2>1, <2>2
<1>14. Published' /\ FinishedIsPublished' /\ StopIsComplete' /\ Phases'
  BY <1>1 DEF Published, FinishedIsPublished, StopIsComplete, Phases
<1> QED
  BY <1>7, <1>8, <1>11, <1>12, <1>13, <1>14 DEF IInv

LEMMA StutterInv ==
  ASSUME IInv, UNCHANGED vars
  PROVE  IInv'
<1>1. /\ UNCHANGED <<budget, phase, rows, actions, chosen, stop, made, saved, crashes>>
      /\ UNCHANGED <<cards, index, completed, confirmed>>
  BY DEF vars, root, past
<1>2. /\ TypeOK' /\ CardsAreEarned' /\ Remembers(rows)' /\ Remembers(saved.rows)'
      /\ Published' /\ FinishedIsPublished' /\ Forgotten' /\ Ran' /\ BudgetHolds' /\ Phases'
  BY <1>1 DEF IInv, TypeOK, CardsAreEarned, Remembers, Published, FinishedIsPublished,
     Forgotten, Ran, BudgetHolds, Phases, UniqueUsed
<1>3. Room' = Room /\ Complete' = Complete
  BY <1>1 DEF Room, UniqueUsed, EffectiveBudget, UntestedBaselines, Escalations, Audits,
     Untested, Deferred, Blocked, Triggered, ReusableWeakness, Complete, AnomalyIsSettled,
     SparedByExperience
<1>4. StopIsComplete'
  BY <1>1, <1>3 DEF IInv, StopIsComplete
<1> QED
  BY <1>2, <1>4 DEF IInv

LEMMA NextInv ==
  ASSUME IInv, [Next]_vars
  PROVE  IInv'
BY StartInv, SelectInv, TrialInv, PromoteInv, RefreshInv, SaveInv, DieInv, StutterInv DEF Next

-----------------------------------------------------------------------------
(* The theorems.                                                           *)

\* The invariant of the campaign, for every set of candidates and histories.
THEOREM CampaignInvariant == Spec => []IInv
<1> HIDE DEF IInv
<1>1. Init => IInv
  BY InitInv
<1>2. IInv /\ [Next]_vars => IInv'
  BY NextInv
<1> QED
  BY <1>1, <1>2, PTL DEF Spec

\* Every variable keeps its type, the counts of the rows and the files included.
THEOREM CampaignTypes == Spec => []TypeOK
<1> HIDE DEF IInv
<1>1. IInv => TypeOK
  BY DEF IInv
<1> QED
  BY <1>1, CampaignInvariant, PTL

\* A fixed cap holds for what really ran, up to one trial per death: what
\* select_next_action lets through and adaptive_state.json remembers.
THEOREM CapsHold == Spec => []BudgetHolds
<1> HIDE DEF IInv
<1>1. IInv => BudgetHolds
  BY DEF IInv
<1> QED
  BY <1>1, CampaignInvariant, PTL

\* Stops of select_next_action leave no work that a reader would ask for.
THEOREM StopsAreComplete == Spec => []StopIsComplete
<1> HIDE DEF IInv
<1>1. IInv => StopIsComplete
  BY DEF IInv
<1> QED
  BY <1>1, CampaignInvariant, PTL

\* Cards of promote_confirmed_experiences stand on three confirmed runs.
THEOREM CardsStandOnRuns == Spec => []CardsAreEarned
<1> HIDE DEF IInv
<1>1. IInv => CardsAreEarned
  BY DEF IInv
<1> QED
  BY <1>1, CampaignInvariant, PTL

\* The end of _run_adaptive_live finds cards and index complete.
THEOREM EndsArePublished == Spec => []FinishedIsPublished
<1> HIDE DEF IInv
<1>1. IInv => FinishedIsPublished
  BY DEF IInv
<1> QED
  BY <1>1, CampaignInvariant, PTL

=============================================================================
