--------------------------- MODULE KnowledgeStore ---------------------------
(***************************************************************************)
(* The knowledge root: a directory of cards that campaigns publish into    *)
(* and that every later run ranks its candidates by.                       *)
(*                                                                         *)
(* A batch promotes the weakness its history reproduces, file by file and  *)
(* never over a different file; a run with a defence history promotes the  *)
(* defence it repeats, over whatever is there.  Neither holds a lock, and  *)
(* a copy is not atomic: the destination is first truncated, then filled.  *)
(* A process may die, and a copy may fail, at every step.                  *)
(*                                                                         *)
(* A recorded run is a record: its run id and fingerprint, the identity it *)
(* is evidence about (project revision, target, family), and its flaws,    *)
(* the checks of _validate_run it would fail.  A card is its identity and  *)
(* its runs; the three files of a promotion are functions of these two, so *)
(* a file holds the card it was made from.  A card id is the hash of an    *)
(* identity: here the identity itself.                                     *)
(***************************************************************************)
EXTENDS Integers, Sequences, FiniteSets

CONSTANTS
    Batches, Defenses,  \* processes that promote weaknesses, and defences
    Evidence,           \* the recorded runs: [id, print, project, target, family, flaws]
    Histories,          \* the history roots a promotion may be pointed at
    Absent, Torn        \* a file that is not there, one cut short

ASSUME KnowledgeAssumption ==
    /\ IsFiniteSet(Evidence)
    /\ Histories \subseteq SUBSET Evidence
    /\ Batches \cap Defenses = {}

MIN_STABLE_REPRODUCTIONS == 3

Writers == Batches \cup Defenses

-----------------------------------------------------------------------------
(* Files of the knowledge root.                                            *)

WEAKNESS_CARD == <<"weakness_card">>
DEFENSE_CARD == <<"defense_card">>
INTENTS == <<"regression_intents">>

\* KB-WEAK-<hash>.json and KB-DEF-<hash>.json
CardFile(card) == <<card.kind, card.project, card.target, card.family>>
KBFiles == {<<kind, run.project, run.target, run.family>> :
               kind \in {"weakness", "defense"}, run \in Evidence}
Names == {WEAKNESS_CARD, DEFENSE_CARD, INTENTS} \cup KBFiles

-----------------------------------------------------------------------------
(* Validating a history.                                                   *)

WEAKNESS_CHECKS == {"result", "attestation", "rca", "contradiction", "observation",
                    "references", "cleanup"}
DEFENSE_CHECKS == {"defended", "claim", "attestation", "observation", "cleanup"}

Distinct(runs, Key(_)) == Cardinality({Key(r) : r \in runs}) = Cardinality(runs)

\* A weakness needs artefacts a defence does not: RCA report, knowledge draft.
Selected(history) == {run \in history : "no_rca_report" \notin run.flaws}

\* evaluate_knowledge_promotion, from "provisional", with nothing else missing.
ReusableAfter(runs) == Cardinality(runs) >= MIN_STABLE_REPRODUCTIONS

\* Seeded fault: a copied run with an id of its own counts.
IndependentById(runs) == LET Id(r) == r.id IN Distinct(runs, Id)

\* No two of the runs have one run id or one fingerprint.
Independent(runs) ==
    LET Id(r) == r.id
        Digest(r) == r.print
    IN Distinct(runs, Id) /\ Distinct(runs, Digest)

\* The cards a promotion of these runs builds: one, or none.
WeaknessCards(runs) ==
    {[kind |-> "weakness", project |-> r.project, target |-> r.target,
      family |-> r.family, runs |-> runs] :
        r \in {run \in runs :
                 /\ \A s \in runs : s.flaws \cap WEAKNESS_CHECKS = {}
                 /\ Independent(runs)
                 /\ \A s \in runs : /\ s.project = run.project
                                    /\ s.target = run.target
                                    /\ s.family = run.family
                 /\ ReusableAfter(runs)}}

\* The target is that of the first run: no check compares the targets.
DefenseCards(runs) ==
    {[kind |-> "defense", project |-> r.project, target |-> r.target,
      family |-> r.family, runs |-> runs] :
        r \in {run \in runs :
                 /\ \A s \in runs : s.flaws \cap DEFENSE_CHECKS = {}
                 /\ LET Digest(s) == s.print IN Distinct(runs, Digest)
                 /\ \A s \in runs : s.family = run.family
                 /\ \A s \in runs : s.project = run.project
                 /\ ReusableAfter(runs)}}

CardType ==
    [kind : {"weakness", "defense"}, project : {r.project : r \in Evidence},
     target : {r.target : r \in Evidence}, family : {r.family : r \in Evidence},
     runs : SUBSET Evidence]

ASSUME MarkerAssumption ==
    /\ Absent \notin CardType /\ Torn \notin CardType
    /\ Absent # Torn

-----------------------------------------------------------------------------
VARIABLES
    files,    \* the knowledge root: name -> Absent, Torn or a card
    stage,    \* what a promotion does next: "idle", "look", "open", "fill"
    card,     \* the card it is installing
    todo,     \* the files it has left to copy
    report    \* its last knowledge_promotion.json

storeVars == <<files, stage, card, todo, report>>

Whole(name) == files[name] \notin {Absent, Torn}

Report(status, of) == [status |-> status, card |-> of]
NoReport == Report("none", Absent)
NotRun == Report("not_run", Absent)
Promoted(c) == Report("promoted", c)

StoreInit ==
    /\ files = [n \in Names |-> Absent]
    /\ stage = [w \in Writers |-> "idle"]
    /\ card = [w \in Writers |-> Absent]
    /\ todo = [w \in Writers |-> <<>>]
    /\ report = [w \in Writers |-> NoReport]

-----------------------------------------------------------------------------
(* Both promotions end the same way: idle, with a report.                  *)

End(w, rep) ==
    /\ stage' = [stage EXCEPT ![w] = "idle"]
    /\ card' = [card EXCEPT ![w] = Absent]
    /\ todo' = [todo EXCEPT ![w] = <<>>]
    /\ report' = [report EXCEPT ![w] = rep]

Contest(w) == End(w, Report("contested", Absent))

StartWeakness(w) ==
    /\ w \in Batches
    /\ stage[w] = "idle"
    /\ \E history \in Histories :
          LET runs == Selected(history) IN
          \/ /\ Cardinality(runs) < MIN_STABLE_REPRODUCTIONS
             /\ End(w, NotRun)
          \/ /\ Cardinality(runs) >= MIN_STABLE_REPRODUCTIONS
             /\ WeaknessCards(runs) = {}
             /\ Contest(w)
          \/ /\ Cardinality(runs) >= MIN_STABLE_REPRODUCTIONS
             /\ \E new \in WeaknessCards(runs) :
                   /\ card' = [card EXCEPT ![w] = new]
                   /\ todo' = [todo EXCEPT ![w] = <<WEAKNESS_CARD, CardFile(new), INTENTS>>]
             /\ stage' = [stage EXCEPT ![w] = "look"]
             /\ report' = [report EXCEPT ![w] = NoReport]
    /\ UNCHANGED files

\* The report is written before the copies, which go in directory order.
StartDefense(w) ==
    /\ w \in Defenses
    /\ stage[w] = "idle"
    /\ \E history \in Histories :
          \/ /\ Cardinality(history) < 2
             /\ End(w, NotRun)
          \/ /\ Cardinality(history) >= 2
             /\ DefenseCards(history) = {}
             /\ Contest(w)
          \/ /\ Cardinality(history) >= 2
             /\ \E new \in DefenseCards(history) :
                   LET copied == {DEFENSE_CARD, CardFile(new), INTENTS} IN
                   /\ \E order \in [1..3 -> copied] :
                         /\ {order[i] : i \in 1..3} = copied
                         /\ todo' = [todo EXCEPT ![w] = order]
                   /\ card' = [card EXCEPT ![w] = new]
                   /\ report' = [report EXCEPT ![w] = Promoted(new)]
             /\ stage' = [stage EXCEPT ![w] = "open"]
    /\ UNCHANGED files

-----------------------------------------------------------------------------
(* Copying.                                                                *)

\* The next file, or the end of the copy.
Advance(w) ==
    IF Len(todo[w]) = 1
    THEN End(w, Promoted(card[w]))
    ELSE /\ todo' = [todo EXCEPT ![w] = Tail(todo[w])]
         /\ stage' = [stage EXCEPT ![w] = IF w \in Batches THEN "look" ELSE "open"]
         /\ UNCHANGED <<card, report>>

\* Seeded fault: a different card is replaced.
LookAway(w) ==
    /\ stage[w] = "look"
    /\ stage' = [stage EXCEPT ![w] = "open"]
    /\ UNCHANGED <<files, card, todo, report>>

\* _copy_knowledge_artifact_without_overwrite compares before it copies.
Look(w) ==
    /\ stage[w] = "look"
    /\ LET name == Head(todo[w]) IN
       \/ /\ files[name] = Absent
          /\ stage' = [stage EXCEPT ![w] = "open"]
          /\ UNCHANGED <<card, todo, report>>
       \/ /\ files[name] = card[w]
          /\ Advance(w)
       \/ /\ files[name] \notin {Absent, card[w]}
          /\ Contest(w)
    /\ UNCHANGED files

OpenFile(w) ==
    /\ stage[w] = "open"
    /\ files' = [files EXCEPT ![Head(todo[w])] = Torn]
    /\ stage' = [stage EXCEPT ![w] = "fill"]
    /\ UNCHANGED <<card, todo, report>>

\* Seeded fault: the weakness is announced when its first file is written.
FillAndReport(w) ==
    /\ stage[w] = "fill"
    /\ files' = [files EXCEPT ![Head(todo[w])] = card[w]]
    /\ IF w \in Batches THEN End(w, Promoted(card[w])) ELSE Advance(w)

FillFile(w) ==
    /\ stage[w] = "fill"
    /\ files' = [files EXCEPT ![Head(todo[w])] = card[w]]
    /\ Advance(w)

\* An OSError: a weakness is contested, a defence raises through its run.
CopyFails(w) ==
    /\ stage[w] \in {"look", "open", "fill"}
    /\ IF w \in Batches THEN Contest(w) ELSE End(w, report[w])
    /\ UNCHANGED files

\* The process dies: nothing more is copied, nothing is reported.
Die(w) ==
    /\ stage[w] # "idle"
    /\ End(w, report[w])
    /\ UNCHANGED files

StoreNext ==
    \E w \in Writers :
        \/ StartWeakness(w)
        \/ StartDefense(w)
        \/ Look(w)
        \/ OpenFile(w)
        \/ FillFile(w)
        \/ CopyFails(w)
        \/ Die(w)

StoreSpec == StoreInit /\ [][StoreNext]_storeVars

-----------------------------------------------------------------------------
(* The readers of the root: later runs (module CandidateChoice), and the   *)
(* validator.                                                              *)

\* Seeded fault: the card's project is not compared.
RetrievedAnywhere(project) ==
    {files[n] : n \in {name \in KBFiles : Whole(name)}}

\* KnowledgeProvider.retrieve: the readable KB-*.json of this revision.
Retrieved(project) ==
    {files[n] : n \in {name \in KBFiles : Whole(name) /\ files[name].project = project}}

\* _validate_flat_weakness_root: every KB-*.json is a whole weakness card with
\* three independent runs.
ValidCard(name) ==
    /\ Whole(name)
    /\ files[name].kind = "weakness"
    /\ LET runs == files[name].runs
           Id(r) == r.id
           Digest(r) == r.print
       IN /\ Cardinality(runs) >= 3
          /\ Distinct(runs, Id) /\ Distinct(runs, Digest)
ValidRoot ==
    LET present == {name \in KBFiles : files[name] # Absent}
    IN present # {} /\ \A name \in present : ValidCard(name)

-----------------------------------------------------------------------------
(* Properties.                                                             *)

StoreTypeOK ==
    /\ files \in [Names -> CardType \cup {Absent, Torn}]
    /\ stage \in [Writers -> {"idle", "look", "open", "fill"}]
    /\ card \in [Writers -> CardType \cup {Absent}]
    /\ todo \in [Writers -> Seq(Names)]
    /\ report \in [Writers -> [status : {"none", "not_run", "contested", "promoted"},
                               card : CardType \cup {Absent}]]

Sound(runs, checks) == \A r \in runs : r.flaws \cap checks = {}

\* A weakness card on disk is never changed, torn or removed again, while one
\* batch at a time promotes into the root: its own next promotion is refused,
\* a dying copy leaves it, and no defence writes its files.
WeaknessFiles == {WEAKNESS_CARD} \cup {name \in KBFiles : name[1] = "weakness"}
WeaknessIsKept ==
    [][\A name \in WeaknessFiles : Whole(name) => files'[name] = files[name]]_storeVars

\* A batch that says promoted has its card in both files, until it promotes
\* again: also if the promotion took several attempts, some of them cut short.
PromotedIsInstalled ==
    \A w \in Batches :
        report[w].status = "promoted" =>
            /\ files[WEAKNESS_CARD] = report[w].card
            /\ files[CardFile(report[w].card)] = report[w].card

\* What the promotion writes the validator accepts: a root that holds weakness
\* cards and no torn file is valid.
ValidatorAgrees ==
    LET present == {name \in KBFiles : files[name] # Absent} IN
    (present # {} /\ \A name \in present : Whole(name) /\ name[1] = "weakness")
        => ValidRoot

-----------------------------------------------------------------------------
(* Statements of docs and comments that the code does not keep (README,    *)
(* section 6).                                                             *)

\* "Promote two independent defended runs to a local reusable card": two runs
\* that pass every check of the defence contract, of one claim and one project
\* and with different artefacts, are not contested.
TwoDefendedRunsPromote ==
    \A runs \in Histories :
        LET Digest(r) == r.print
            Claim(r) == <<r.project, r.family>>
        IN (/\ Cardinality(runs) >= 2
            /\ Sound(runs, DEFENSE_CHECKS)
            /\ Distinct(runs, Digest)
            /\ Cardinality({Claim(r) : r \in runs}) = 1)
           => DefenseCards(runs) # {}
=============================================================================
