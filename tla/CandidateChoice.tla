--------------------------- MODULE CandidateChoice ---------------------------
(***************************************************************************)
(* How a run of the closed loop comes to the one candidate it executes:    *)
(* mapping, retrieval from the knowledge root, ranking, evidence plan,     *)
(* selection, and for a live run the checks before its scenario.           *)
(*                                                                         *)
(* A run reads the root once, at retrieval; everything after that is a     *)
(* function of what it read, so the module has no state of its own.  What  *)
(* a run would choose is asked in every state of the root (KnowledgeStore).*)
(*                                                                         *)
(* A candidate's id is its workload, family and parameter level.  Workload *)
(* ids begin with a hash, so their order is given: the field place.        *)
(* The workloads here confirm no capability of an extension, so that the   *)
(* space has no extension candidates.  The advisory text and the oracle's  *)
(* parameters are left out: they choose nothing.                           *)
(***************************************************************************)
EXTENDS KnowledgeStore, SequencesExt, TLC

CONSTANTS
    Inventories,  \* [project, live, workloads, families, ladders, routes]
    Requests,     \* what --candidate-id may say: [exact, place, target, family, level]
    NoRequest,    \* nothing
    Oracles,      \* the profile's business oracle: [service, flaws, businessPath]
    Alphabet,     \* families and levels in the order of their names
    Baseline      \* the level of a candidate without a ladder

-----------------------------------------------------------------------------
(* Mapping.                                                                *)

NewCandidate(inv, w, family, level) ==
    [project |-> inv.project, place |-> w.place, target |-> w.name, service |-> w.service,
     kind |-> IF inv.live THEN w.kind ELSE "deployment",
     family |-> family, level |-> level, singleton |-> w.singleton]

\* expand_candidate: the levels of the profile's ladder, in its order.
Levels(inv, family) ==
    IF family \in DOMAIN inv.ladders THEN inv.ladders[family] ELSE <<Baseline>>

Expanded(inv, w, family) ==
    LET levels == Levels(inv, family)
    IN [i \in DOMAIN levels |-> NewCandidate(inv, w, family, levels[i])]

\* The live adapter goes through the workloads in the order of their ids.
LiveSpace(inv) ==
    LET nodes == SortSeq(inv.workloads, LAMBDA v, w : v.place < w.place)
        Offered(w) == SelectSeq(inv.families, LAMBDA f : f # "container_kill" \/ w.containers)
        Of(w) == FlattenSeq([j \in DOMAIN Offered(w) |-> Expanded(inv, w, Offered(w)[j])])
    IN FlattenSeq([i \in DOMAIN nodes |-> Of(nodes[i])])

\* The offline one in the order of the facts; it knows no ladders.
DetectedOffline(inv) == SelectSeq(inv.workloads, LAMBDA w : w.selector)
OfflineSpace(inv) ==
    LET nodes == DetectedOffline(inv)
        Of(w) == [j \in DOMAIN inv.families |-> NewCandidate(inv, w, inv.families[j], Baseline)]
    IN FlattenSeq([i \in DOMAIN nodes |-> Of(nodes[i])])

\* candidate_space.json of each inventory.
Space == [inv \in Inventories |-> IF inv.live THEN LiveSpace(inv) ELSE OfflineSpace(inv)]

\* A space is a list of candidates of the project, and no two have one id:
\* expand_candidates and the evidence plan refuse a space where they do.
ASSUME SpaceAssumption ==
    /\ Alphabet \in Seq(Range(Alphabet))
    /\ \A inv \in Inventories :
          LET space == Space[inv] IN
          /\ space \in Seq(Range(space))
          /\ \A i \in DOMAIN space :
                /\ space[i].project = inv.project
                /\ space[i].place \in Nat /\ space[i].singleton \in BOOLEAN
                /\ {space[i].family, space[i].level} \subseteq Range(Alphabet)
          /\ \A i, j \in DOMAIN space :
                (/\ space[i].place = space[j].place
                 /\ space[i].family = space[j].family
                 /\ space[i].level = space[j].level) => i = j

-----------------------------------------------------------------------------
(* Ranking.                                                                *)

BASE == 10
RCA_REUSABLE_BONUS == 20

\* A defence card always says pod_kill, whatever claim it is about.
FamilyOf(c) == IF c.kind = "defense" THEN "pod_kill" ELSE c.family

\* _rca_card_matches: of the candidate's target and family.  A defence card is
\* not held to the family itself: it need only be part of the candidate's id.
Matches(c, candidate) ==
    /\ c.target = candidate.target
    /\ \/ FamilyOf(c) = candidate.family
       \/ c.kind = "defense" /\ candidate.family = "backend_pod_kill"

\* _rca_influence: every reusable card that matches; all cards here are.
Bonus(candidate, cards) ==
    RCA_REUSABLE_BONUS * Cardinality({c \in cards : Matches(c, candidate)})

NativeScore(candidate, cards) == BASE + Bonus(candidate, cards)

\* Candidates of another kind need the legacy registries, which are not there.
Native(space) ==
    \A i \in DOMAIN space : space[i].kind \in {"dependency_edge", "deployment", "scenario"}

\* fallback_rank looks at the family alone; a card's operation is its family.
FallbackScore(candidate, cards) ==
    (IF candidate.singleton THEN 1 ELSE 0)
        + 125 * Cardinality({c \in cards : FamilyOf(c) = candidate.family})

Score(space, cards) ==
    [i \in DOMAIN space |->
        IF Native(space) THEN NativeScore(space[i], cards) ELSE FallbackScore(space[i], cards)]

Letter(name) == CHOOSE i \in DOMAIN Alphabet : Alphabet[i] = name
IdBefore(c, d) ==
    \/ c.place < d.place
    \/ c.place = d.place /\ Letter(c.family) < Letter(d.family)
    \/ c.place = d.place /\ c.family = d.family /\ Letter(c.level) < Letter(d.level)

\* rank_candidates: by score, then by id; the first has none ahead of it.
Scored(space, cards) ==
    {[candidate |-> space[i], score |-> Score(space, cards)[i]] : i \in DOMAIN space}
Ahead(s, t) ==
    \/ s.score > t.score
    \/ s.score = t.score /\ IdBefore(s.candidate, t.candidate)

Ranked(space, cards) ==
    LET scored == Scored(space, cards)
        ranked == {<<1 + Cardinality({s \in scored : Ahead(s, t)}), t.candidate>> : t \in scored}
    IN [k \in DOMAIN space |-> (CHOOSE r \in ranked : r[1] = k)[2]]

-----------------------------------------------------------------------------
(* Selecting.  A choice is the set of what is chosen: one, or none.        *)

First(order) == IF order = <<>> THEN {} ELSE {Head(order)}
Or(choice, other) == IF choice # {} THEN choice ELSE other

\* _find_candidate: an exact id, or an alias if only one candidate has it.
Find(space, request) ==
    LET Named == {c \in Range(space) : c.target = request.target /\ c.family = request.family}
    IN IF request.exact
       THEN {c \in Named : c.place = request.place /\ c.level = request.level}
       ELSE {c \in Named : Cardinality(Named) = 1}

\* Of a list, the one at the first of these places.
FirstOf(order, places) ==
    IF places = {} THEN {} ELSE {order[CHOOSE i \in places : \A j \in places : i <= j]}

\* _find_oracle_candidate: the first that kills the service's Pod, or the first.
FindOracle(order, service) ==
    LET matching == {i \in DOMAIN order : service \in {order[i].target, order[i].service}}
        killing == {i \in matching : order[i].family = "pod_kill"}
    IN Or(FirstOf(order, killing), FirstOf(order, matching))

\* The checks of _runtime_oracle: kind, service, port, contract, client.
Valid(oracle) == oracle.flaws = {}

ByOracle(order, oracle) == IF Valid(oracle) THEN FindOracle(order, oracle.service) ELSE {}

\* What the evidence plan is asked to put first: without the candidate that was
\* asked for, another one.
Preferred(space, order, request, oracle) ==
    Or(IF request = NoRequest THEN ByOracle(order, oracle) ELSE Find(space, request),
       First(order))

\* build_evidence_plan: as many as the budget allows, the preferred one first.
Planned(space, order, request, oracle, budget) ==
    LET preferred == Preferred(space, order, request, oracle)
        rest == SelectSeq(order, LAMBDA c : c \notin preferred)
    IN preferred \cup {rest[i] : i \in 1 .. (budget - 1) \cap DOMAIN rest}

\* candidate_selection.json; with none the run ends in an exception.
Selection(space, order, request, oracle) ==
    IF request = NoRequest THEN Or(ByOracle(order, oracle), First(order))
    ELSE Find(space, request)

-----------------------------------------------------------------------------
(* A live run.                                                             *)

\* The families _live_scenario can express, and the action of each.
LiveAction ==
    [pod_kill |-> "pod-kill", backend_pod_kill |-> "pod-kill",
     container_kill |-> "container-kill",
     stress_cpu |-> "stress-cpu", stress_memory |-> "stress-memory",
     network_loss |-> "network-loss", network_delay |-> "network-delay",
     network_bandwidth |-> "bandwidth", network_duplicate |-> "duplicate",
     network_corrupt |-> "corrupt", network_partition |-> "network-partition",
     dns_failure |-> "dns-error", dns_delay |-> "dns-delay",
     http_delay |-> "http-delay", http_abort |-> "http-abort",
     http_status_error |-> "http-status-error",
     http_response_corrupt |-> "http-response-corrupt",
     dependency_error |-> "dependency-error", connection_reset |-> "connection-reset",
     http_rate_limit |-> "http-rate-limit",
     business_dependency_unreachable |-> "business-dependency-unreachable",
     replica_reduction |-> "replica-reduction", config_reload |-> "config-reload",
     config_drift |-> "config-drift", env_misconfiguration |-> "env-misconfiguration",
     secret_rotation |-> "secret-rotation", rollout_pause |-> "rollout-pause",
     image_pull_failure |-> "image-pull-failure", pod_unschedulable |-> "pod-unschedulable",
     api_server_delay |-> "api-server-delay", disk_pressure |-> "disk-pressure",
     file_descriptor_exhaustion |-> "file-descriptor-exhaustion",
     process_exhaustion |-> "process-exhaustion"]

\* The scenario is made of a Deployment of the inventory.
Expressible(c) == c.kind = "deployment" /\ c.family \in DOMAIN LiveAction

\* A requested candidate must be the oracle's, or a backend behind an ingress.
FitsOracle(c, oracle) == oracle.service \in {c.target, c.service} \/ oracle.businessPath
BehindIngress(c, inv) == c.family = "backend_pod_kill" /\ c.service \in inv.routes

\* What a live run takes: the oracle's candidate in the order of the mapping.
LiveChoice(inv, order, request, oracle) ==
    LET space == Space[inv]
        here == FindOracle(space, oracle.service)
    IN {c \in IF request = NoRequest THEN Or(here, First(order)) ELSE Find(space, request) :
          /\ Valid(oracle)
          /\ here # {} \/ oracle.businessPath
          /\ request # NoRequest => FitsOracle(c, oracle) \/ BehindIngress(c, inv)}

\* Seeded fault: the choice is not compared with the evidence plan.
AdmittedAnyway(c, space, order, request, oracle, budget) == TRUE

\* "selected live candidate is outside the evidence plan"
Admitted(c, space, order, request, oracle, budget) ==
    c \in Planned(space, order, request, oracle, budget)

Executed(inv, order, request, oracle, budget) ==
    {c \in LiveChoice(inv, order, request, oracle) :
        /\ Selection(Space[inv], order, request, oracle) # {}
        /\ Admitted(c, Space[inv], order, request, oracle, budget)
        /\ Expressible(c)}

-----------------------------------------------------------------------------
(* Properties.                                                             *)

\* A candidate goes ahead of its place in the order of ids only if three sound
\* runs of its own project say so, of its own target too while every workload
\* is a Deployment, or for the static prior of a singleton.
Speaks(runs, candidate, own) ==
    /\ \A r \in runs : r.project = candidate.project
    /\ own => \E r \in runs : r.target = candidate.target
    /\ Sound(runs, WEAKNESS_CHECKS) \/ Sound(runs, DEFENSE_CHECKS)
    /\ Cardinality({r.print : r \in runs}) >= 3

RankIsEarned ==
    \A inv \in Inventories :
        LET space == Space[inv]
            order == Ranked(space, Retrieved(inv.project))
        IN \A i, j \in DOMAIN order :
             i < j /\ IdBefore(order[j], order[i]) =>
                \/ ~Native(space) /\ order[i].singleton /\ ~order[j].singleton
                \/ \E runs \in {c.runs : c \in Retrieved(inv.project)} :
                      Speaks(runs, order[i], Native(space))

\* What a live run with a budget of one executes is what its selection record
\* names and its evidence plan was made for, and it is a candidate its oracle
\* can judge: though plan, record and execution each choose for themselves, two
\* of them by rank, one by the order of the mapping, and whatever the root said.
ExecutedIsRecorded ==
    \A inv \in {i \in Inventories : i.live} :
        LET space == Space[inv]
            order == Ranked(space, Retrieved(inv.project))
        IN \A request \in Requests \cup {NoRequest}, oracle \in Oracles :
             \A c \in Executed(inv, order, request, oracle, 1) :
                /\ Selection(space, order, request, oracle) = {c}
                /\ Preferred(space, order, request, oracle) = {c}
                /\ FitsOracle(c, oracle) \/ BehindIngress(c, inv)

-----------------------------------------------------------------------------
(* Statements that the code does not keep (README, section 6).             *)

\* Knowledge about one target raises no other: false beside a StatefulSet.
RankIsOwn ==
    \A inv \in Inventories :
        LET order == Ranked(Space[inv], Retrieved(inv.project))
        IN \A i, j \in DOMAIN order :
             i < j /\ IdBefore(order[j], order[i]) /\ order[i].singleton = order[j].singleton =>
                \E c \in Retrieved(inv.project) : Matches(c, order[i])

\* A dry run that is resumed behind its hypotheses has no ranked candidates and
\* takes them in the order of the mapping: it may select another one.
ResumeKeepsSelection ==
    \A inv \in {i \in Inventories : ~i.live},
       request \in Requests \cup {NoRequest}, oracle \in Oracles :
        LET space == Space[inv]
            order == Ranked(space, Retrieved(inv.project))
        IN Selection(space, space, request, oracle) = Selection(space, order, request, oracle)

\* What the mapping offers a live run can execute: false for a StatefulSet.
OfferedIsExpressible ==
    \A inv \in {i \in Inventories : i.live} : \A c \in Range(Space[inv]) : Expressible(c)
=============================================================================
