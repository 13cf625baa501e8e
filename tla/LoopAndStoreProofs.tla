------------------------- MODULE LoopAndStoreProofs -------------------------
(***************************************************************************)
(* Proofs about what a project keeps on disk, for any values of the        *)
(* constants: the output directory of a closed loop (profiles, crashes,    *)
(* failures) and the knowledge root that its batches and defence           *)
(* promotions share (evidence, names, writers). The two have no state in   *)
(* common.                                                                 *)
(*                                                                         *)
(* The directory: the manifest says from which profile every artifact was  *)
(* made, and an invocation writes stages only behind its manifest and only *)
(* behind the checkpoint it began from. A live run has a live manifest     *)
(* before it executes, and nothing is begun behind one.                    *)
(*                                                                         *)
(* The root: a promotion has an earned card in hand from its start, and it *)
(* writes only this card, only under the card's own names, so that what is *)
(* whole under such a name was earned. A batch that is alone copies its    *)
(* two cards in one order and never over a whole one.                      *)
(***************************************************************************)
EXTENDS ClosedLoop, CandidateChoice, SequenceTheorems, FiniteSetTheorems, WellFoundedInduction,
        TLAPS

(* What the files of the directory say of each other.                      *)
DirectoryInv ==
  /\ CheckpointIsBacked
  /\ OneProfile
  /\ ~torn => \A i \in 1 .. LastStage : artifact[i] \in {NoProfile, manifest.profile}
  /\ executions > 0 =>
       executions = 1 /\ ~torn /\ manifest.mode = "live" /\ manifest.profile # NoProfile

(* What an invocation that is under way knows of the directory.            *)
RunInv ==
  pc # "idle" =>
    /\ completed >= checkpoint
    /\ pc = "checkpoint" => completed > checkpoint
    /\ \A i \in 1 .. completed : artifact[i] # NoProfile
    /\ executions = IF executed THEN 1 ELSE 0
    /\ pc = "manifest" => /\ ~executed
                          /\ \A i \in 1 .. LastStage : artifact[i] \in {NoProfile, profile}
    /\ pc # "manifest" => ~torn /\ manifest = Snapshot(mode)

IInv == TypeOK /\ DirectoryInv /\ RunInv

USE LoopAssumption

LEMMA LastIsNatural == LastStage \in Nat /\ LastStage = 15
BY DEF LastStage, STAGES

LEMMA InitStep == Init => IInv
<1> SUFFICES ASSUME Init PROVE IInv
  OBVIOUS
<1> USE DEF Init
<1>1. TypeOK
  <2>1. artifact \in [1 .. LastStage -> Profiles \cup {NoProfile}]
    OBVIOUS
  <2>2. side \in [SideFiles -> {"none", "torn", "whole", "blocked"}]
    OBVIOUS
  <2>3. /\ completed \in 0 .. LastStage /\ checkpoint \in NoCheckpoint .. LastStage
        /\ crashes \in 0 .. MaxCrashes /\ failures \in 0 .. MaxFailures
    BY LastIsNatural DEF NoCheckpoint
  <2>4. manifest \in [mode : Modes, profile : Profiles \cup {NoProfile}]
    BY DEF NoManifest, Modes
  <2> QED BY <2>1, <2>2, <2>3, <2>4 DEF TypeOK, Modes, Statuses
<1>2. DirectoryInv
  BY LastIsNatural DEF DirectoryInv, CheckpointIsBacked, OneProfile, NoManifest, NoCheckpoint
<1>3. RunInv
  BY DEF RunInv
<1> QED BY <1>1, <1>2, <1>3 DEF IInv

(* A step that writes neither manifest nor stage nor checkpoint, and goes  *)
(* on with its stages or ends.                                             *)
LEMMA QuietStep ==
  ASSUME IInv, TypeOK',
         UNCHANGED <<manifest, torn, checkpoint, artifact, mode, completed, executed, executions>>,
         \/ pc' = "idle"
         \/ /\ pc \in {"work", "side"} /\ pc' \in {"work", "side"}
            /\ profile' = profile
  PROVE  IInv'
<1>1. DirectoryInv'
  BY DEF IInv, DirectoryInv, CheckpointIsBacked, OneProfile
<1>2. RunInv'
  BY DEF IInv, RunInv, Snapshot
<1> QED BY <1>1, <1>2 DEF IInv

LEMMA BeginStep ==
  ASSUME IInv, NEW m \in Modes, Start(m) \/ Resume(m)
  PROVE  IInv'
<1> USE DEF IInv, TypeOK
<1>1. \E stages \in 0 .. LastStage :
        /\ Begin(m, stages)
        /\ stages >= checkpoint
        /\ \A i \in 1 .. stages : artifact[i] # NoProfile
        /\ \A i \in 1 .. LastStage : artifact[i] \in {NoProfile, profile}
        /\ executions = 0
  <2>1. CASE Start(m)
    <3>1. /\ Begin(m, 0)
          /\ \A i \in 1 .. LastStage : artifact[i] = NoProfile
          /\ executions = 0
      BY <2>1 DEF Start, DirectoryIsEmpty, NoManifest, DirectoryInv
    <3>2. checkpoint <= 0
      BY <3>1, LastIsNatural DEF DirectoryInv, CheckpointIsBacked, NoCheckpoint
    <3> QED BY <3>1, <3>2, LastIsNatural DEF NoCheckpoint
  <2>2. CASE Resume(m)
    <3>1. /\ Begin(m, checkpoint) /\ checkpoint \in 0 .. LastStage
          /\ \A i \in 1 .. checkpoint : artifact[i] # NoProfile
          /\ ~torn /\ manifest.mode = "dry-run" /\ manifest.profile = profile
      BY <2>2, LastIsNatural DEF Resume, ResumeAllowed, SameInput, Snapshot, Checkpointed, NoCheckpoint
    <3>2. /\ \A i \in 1 .. LastStage : artifact[i] \in {NoProfile, profile}
          /\ executions = 0
      BY <3>1 DEF DirectoryInv
    <3> QED BY <3>1, <3>2
  <2> QED BY <2>1, <2>2
<1>2. TypeOK'
  BY <1>1 DEF Begin, counters
<1>3. DirectoryInv'
  BY <1>1 DEF Begin, counters, DirectoryInv, CheckpointIsBacked, OneProfile
<1>4. RunInv'
  BY <1>1 DEF Begin, counters, RunInv
<1> QED BY <1>2, <1>3, <1>4

LEMMA WriteManifestStep ==
  ASSUME IInv, WriteManifest
  PROVE  IInv'
<1> USE DEF IInv, WriteManifest, Snapshot, processVars, counters
<1>1. TypeOK'
  BY DEF TypeOK
<1>2. DirectoryInv'
  BY DEF TypeOK, DirectoryInv, RunInv, CheckpointIsBacked, OneProfile
<1>3. RunInv'
  BY DEF TypeOK, RunInv
<1> QED BY <1>1, <1>2, <1>3

LEMMA WriteArtifactStep ==
  ASSUME IInv, WriteArtifact
  PROVE  IInv'
<1> USE DEF IInv
<1>1. /\ pc = "work" /\ pc' = "checkpoint" /\ completed \in 0 .. LastStage - 1
      /\ completed' = completed + 1
      /\ artifact' = [artifact EXCEPT ![completed + 1] = profile]
      /\ UNCHANGED <<profile, manifest, torn, checkpoint, side, summary, mode, ready, executed,
                    executions, crashes, failures>>
  BY LastIsNatural DEF WriteArtifact, StageIsDue, NextStage, counters, TypeOK
<1>2. /\ profile \in Profiles /\ ~torn /\ manifest.profile = profile
      /\ artifact \in [1 .. LastStage -> Profiles \cup {NoProfile}]
      /\ checkpoint \in NoCheckpoint .. LastStage
  BY <1>1 DEF TypeOK, RunInv, Snapshot
<1>3. \A i \in 1 .. LastStage : artifact'[i] = IF i = completed + 1 THEN profile ELSE artifact[i]
  BY <1>1, <1>2
<1> USE <1>1, <1>2, <1>3, LastIsNatural
<1>4. TypeOK'
  BY DEF TypeOK
<1>5. \A i \in 1 .. LastStage : artifact'[i] \in {NoProfile, profile}
  BY DEF DirectoryInv
<1>6. DirectoryInv'
  BY <1>5 DEF DirectoryInv, CheckpointIsBacked, OneProfile, NoCheckpoint
<1>7. RunInv'
  BY DEF RunInv, Snapshot, NoCheckpoint
<1> QED BY <1>4, <1>6, <1>7

LEMMA WriteCheckpointStep ==
  ASSUME IInv, WriteCheckpoint
  PROVE  IInv'
<1> USE DEF IInv
<1>1. /\ pc = "checkpoint" /\ pc' \in {"idle", "work"} /\ checkpoint' = completed
      /\ summary' \in {summary, "method_invalid"}
      /\ UNCHANGED <<profile, manifest, torn, artifact, side, mode, completed, ready, executed,
                    executions, crashes, failures>>
  BY DEF WriteCheckpoint, processVars, counters
<1> USE <1>1
<1>2. TypeOK'
  BY LastIsNatural DEF TypeOK, Statuses, NoCheckpoint
<1>3. DirectoryInv'
  BY DEF DirectoryInv, RunInv, CheckpointIsBacked, OneProfile
<1>4. RunInv'
  BY LastIsNatural DEF TypeOK, RunInv, Snapshot
<1> QED BY <1>2, <1>3, <1>4

LEMMA ExecuteStep ==
  ASSUME IInv, Execute
  PROVE  IInv'
<1> USE DEF IInv, Execute, diskVars
<1>1. TypeOK'
  BY DEF TypeOK
<1>2. executions = 0 /\ ~torn /\ manifest.mode = "live" /\ manifest.profile # NoProfile
  BY DEF TypeOK, RunInv, Snapshot
<1>3. DirectoryInv'
  BY <1>2 DEF DirectoryInv, CheckpointIsBacked, OneProfile
<1>4. RunInv'
  BY <1>2 DEF TypeOK, RunInv, Snapshot
<1> QED BY <1>1, <1>3, <1>4

LEMMA AbortStep ==
  ASSUME IInv, Abort, pc # "idle", failures' \in 0 .. MaxFailures
  PROVE  IInv'
<1> USE DEF IInv, Abort, StagesBefore, processVars
<1>1. TypeOK'
  BY LastIsNatural DEF TypeOK, Statuses, NoCheckpoint
<1>2. DirectoryInv'
  BY LastIsNatural DEF TypeOK, DirectoryInv, RunInv, CheckpointIsBacked, OneProfile
<1>3. RunInv'
  BY DEF RunInv
<1> QED BY <1>1, <1>2, <1>3

---------------------------------------------------------------------------
LEMMA NextStep == IInv /\ [Next]_vars => IInv'
<1> SUFFICES ASSUME IInv, [Next]_vars PROVE IInv'
  OBVIOUS
<1> USE DEF IInv
<1>1. CASE \E m \in Modes : Start(m) \/ Resume(m)
  BY <1>1, BeginStep
<1>2. CASE Refuse
  BY <1>2, QuietStep DEF Refuse, TypeOK, Statuses, diskVars, processVars, counters
<1>3. CASE Work
  <2>1. CASE WriteManifest
    BY <2>1, WriteManifestStep
  <2>2. CASE WriteArtifact
    BY <2>2, WriteArtifactStep
  <2>3. CASE WriteCheckpoint
    BY <2>3, WriteCheckpointStep
  <2>4. ASSUME NEW f \in SideFiles, OpenSide(f) \/ FillSide(f) \/ ReadSide(f)
        PROVE  IInv'
    <3>1. /\ pc \in {"work", "side"} /\ pc' \in {"work", "side"}
          /\ UNCHANGED <<profile, manifest, torn, checkpoint, artifact, summary, mode, completed,
                        executed, counters>>
      BY <2>4 DEF OpenSide, FillSide, ReadSide, SideIsDue, processVars, diskVars
    <3>2. /\ side' \in [SideFiles -> {"none", "torn", "whole", "blocked"}]
          /\ ready' \subseteq SideFiles
      BY <2>4 DEF OpenSide, FillSide, ReadSide, processVars, diskVars, TypeOK
    <3>3. TypeOK'
      BY <3>1, <3>2 DEF TypeOK, counters
    <3> QED BY <3>1, <3>3, QuietStep DEF counters
  <2>5. ASSUME NEW f \in SideFiles, ReadTorn(f)
        PROVE  IInv'
    BY <2>5, AbortStep DEF ReadTorn, SideIsDue, TypeOK
  <2>6. CASE PlanBlocks \/ LiveBlocks \/ Finish
    <3>1. /\ pc' = "idle" /\ summary' \in Statuses
          /\ UNCHANGED <<profile, diskVars, processVars, counters>>
      BY <2>6 DEF PlanBlocks, BlockedStatus, LiveBlocks, Finish, Statuses
    <3>2. TypeOK'
      BY <3>1 DEF TypeOK, diskVars, processVars, counters
    <3> QED BY <3>1, <3>2, QuietStep DEF diskVars, processVars, counters
  <2>7. CASE Execute
    BY <2>7, ExecuteStep
  <2> QED BY <1>3, <2>1, <2>2, <2>3, <2>4, <2>5, <2>6, <2>7 DEF Work
<1>4. CASE Raise
  BY <1>4, AbortStep DEF Raise, TypeOK
<1>5. CASE Crash
  BY <1>5, QuietStep DEF Crash, TypeOK, diskVars, processVars
<1>6. CASE EditProfile
  BY <1>6, QuietStep DEF EditProfile, TypeOK, diskVars, processVars, counters
<1>7. CASE UNCHANGED vars
  <2> USE <1>7 DEF vars, diskVars, processVars, counters
  <2>1. TypeOK'
    BY DEF TypeOK
  <2>2. DirectoryInv' /\ RunInv'
    BY DEF DirectoryInv, RunInv, CheckpointIsBacked, OneProfile, Snapshot
  <2> QED BY <2>1, <2>2
<1> QED BY <1>1, <1>2, <1>3, <1>4, <1>5, <1>6, <1>7 DEF Next

(* The directory's invariant, whatever is interrupted and resumed.         *)
THEOREM LoopInvariant == Spec => []IInv
BY InitStep, NextStep, PTL DEF Spec

(* The variables keep their types (TypeOK of run_closed_loop's directory). *)
THEOREM LoopTypes == Spec => []TypeOK
<1>1. IInv => TypeOK
  BY DEF IInv
<1> QED BY <1>1, LoopInvariant, PTL

(* Every stage that checkpoint.json lists has its artifact.                *)
THEOREM CheckpointsAreBacked == Spec => []CheckpointIsBacked
<1>1. IInv => CheckpointIsBacked
  BY DEF IInv, DirectoryInv
<1> QED BY <1>1, LoopInvariant, PTL

(* All artifacts of a directory were made from one version of the profile. *)
THEOREM ProfilesAreNotMixed == Spec => []OneProfile
<1>1. IInv => OneProfile
  BY DEF IInv, DirectoryInv
<1> QED BY <1>1, LoopInvariant, PTL

(* A directory sees at most one live execution.                            *)
THEOREM LiveRunsAreAppendOnly == Spec => []LiveIsAppendOnly
<1>1. IInv => LiveIsAppendOnly
  BY DEF IInv, DirectoryInv, TypeOK, LiveIsAppendOnly
<1> QED BY <1>1, LoopInvariant, PTL

(* One step keeps the progress of the directory.                           *)
LEMMA ProgressStep ==
  ASSUME IInv, [Next]_vars
  PROVE  checkpoint' >= checkpoint /\ (artifact' # artifact => completed' > checkpoint)
<1> USE DEF IInv
<1>1. checkpoint \in NoCheckpoint .. LastStage /\ completed \in 0 .. LastStage /\ LastStage \in Nat
  BY LastIsNatural DEF TypeOK
<1>2. CASE WriteArtifact
  BY <1>1, <1>2 DEF WriteArtifact, StageIsDue, NextStage, RunInv, NoCheckpoint
<1>3. CASE WriteCheckpoint
  BY <1>1, <1>3 DEF WriteCheckpoint, RunInv, NoCheckpoint
<1>4. CASE Raise \/ \E f \in SideFiles : ReadTorn(f)
  BY <1>1, <1>4 DEF Raise, ReadTorn, Abort, StagesBefore, NoCheckpoint
<1>5. CASE UNCHANGED <<checkpoint, artifact>>
  BY <1>1, <1>5 DEF NoCheckpoint
<1>6. \/ WriteArtifact \/ WriteCheckpoint \/ Raise \/ \E f \in SideFiles : ReadTorn(f)
      \/ UNCHANGED <<checkpoint, artifact>>
  BY DEF Next, Work, Start, Resume, Begin, Refuse, WriteManifest, OpenSide, FillSide, ReadSide,
         PlanBlocks, LiveBlocks, Execute, Finish, Crash, EditProfile, vars, diskVars
<1> QED BY <1>2, <1>3, <1>4, <1>5, <1>6

(* Progress is kept: the checkpoint never falls behind, and no stage it    *)
(* lists is written again.                                                 *)
THEOREM ProgressStays == Spec => ProgressIsKept
<1>1. IInv /\ [Next]_vars =>
        [checkpoint' >= checkpoint /\ (artifact' # artifact => completed' > checkpoint)]_vars
  BY ProgressStep
<1> QED BY <1>1, LoopInvariant, PTL DEF Spec, ProgressIsKept

-----------------------------------------------------------------------------
(* The knowledge root.                                                     *)


(* The cards that were earned: three sound runs of one claim, none of them *)
(* a copy of another, under a name of the root.                            *)
EarnedCards ==
  {c \in CardType :
    /\ CardFile(c) \in KBFiles
    /\ Cardinality(c.runs) >= MIN_STABLE_REPRODUCTIONS
    /\ LET Digest(r) == r.print IN Distinct(c.runs, Digest)
    /\ \A r \in c.runs : r.project = c.project /\ r.family = c.family
    /\ \E r \in c.runs : r.target = c.target
    /\ c.kind = "weakness" => Independent(c.runs) /\ Sound(c.runs, WEAKNESS_CHECKS)
    /\ c.kind = "defense" => Sound(c.runs, DEFENSE_CHECKS)}

(* What lies whole under the name of a card is this card, and it was earned. *)
RootIsEarned ==
  \A name \in KBFiles : Whole(name) => files[name] \in EarnedCards /\ CardFile(files[name]) = name

KindOf(w) == IF w \in Batches THEN "weakness" ELSE "defense"
NamesOf(w, c) == {IF w \in Batches THEN WEAKNESS_CARD ELSE DEFENSE_CARD, CardFile(c), INTENTS}

(* A promotion that is under way has an earned card of its kind in hand,   *)
(* and names of this card's files to copy it to.                           *)
PromotionInv ==
  \A w \in Writers : stage[w] # "idle" =>
    /\ card[w] \in EarnedCards /\ card[w].kind = KindOf(w)
    /\ todo[w] # << >>
    /\ \A i \in DOMAIN todo[w] : todo[w][i] \in NamesOf(w, card[w])
    /\ stage[w] = "look" => w \in Batches

RootInv == StoreTypeOK /\ RootIsEarned /\ PromotionInv

(* The copies of a weakness go in one order; those behind it are made.     *)
Left(w) ==
  {<<WEAKNESS_CARD, CardFile(card[w]), INTENTS>>, <<CardFile(card[w]), INTENTS>>, <<INTENTS>>}

CopiedInv ==
  \A w \in Batches : stage[w] # "idle" =>
    /\ report[w] = NoReport
    /\ todo[w] \in Left(w)
    /\ Len(todo[w]) <= 2 => files[WEAKNESS_CARD] = card[w]
    /\ Len(todo[w]) <= 1 => files[CardFile(card[w])] = card[w]
    /\ stage[w] \in {"open", "fill"} /\ Head(todo[w]) \in WeaknessFiles => ~Whole(Head(todo[w]))

PromotedInv ==
  \A w \in Batches : report[w].status = "promoted" =>
    /\ report[w].card \in EarnedCards /\ report[w].card.kind = "weakness"
    /\ files[WEAKNESS_CARD] = report[w].card
    /\ files[CardFile(report[w].card)] = report[w].card

BatchInv == RootInv /\ CopiedInv /\ PromotedInv

(* What is left of a list without its first.                               *)
LEMMA TailOfNames ==
  ASSUME NEW S, NEW s \in Seq(S), s # << >>, Len(s) # 1
  PROVE  /\ Tail(s) \in Seq(S) /\ Tail(s) # << >> /\ Len(Tail(s)) = Len(s) - 1
         /\ \A i \in DOMAIN Tail(s) : i + 1 \in DOMAIN s /\ Tail(s)[i] = s[i + 1]
<1>1. /\ Tail(s) \in Seq(S) /\ Len(Tail(s)) = Len(s) - 1
      /\ \A i \in 1 .. Len(Tail(s)) : Tail(s)[i] = s[i + 1]
  BY HeadTailProperties
<1>2. Len(s) \in Nat \ {0, 1} /\ DOMAIN s = 1 .. Len(s)
  OBVIOUS
<1>3. DOMAIN Tail(s) = 1 .. Len(Tail(s)) /\ Len(Tail(s)) # 0
  BY <1>1, <1>2
<1>4. Tail(s) # << >>
  BY <1>3, Len(<< >>) = 0
<1>5. \A i \in DOMAIN Tail(s) : i + 1 \in DOMAIN s
  BY <1>1, <1>2, <1>3
<1> QED BY <1>1, <1>3, <1>4, <1>5

(* The names of cards begin with their kind, the other names do not.       *)
LEMMA NamesDiffer ==
  /\ \A name \in KBFiles : name[1] \in {"weakness", "defense"}
  /\ \A name \in KBFiles : name \notin {WEAKNESS_CARD, DEFENSE_CARD, INTENTS}
  /\ WEAKNESS_CARD # DEFENSE_CARD /\ WEAKNESS_CARD # INTENTS /\ DEFENSE_CARD # INTENTS
<1>1. \A name \in KBFiles : name[1] \in {"weakness", "defense"}
  BY DEF KBFiles
<1>2. /\ WEAKNESS_CARD[1] = "weakness_card" /\ DEFENSE_CARD[1] = "defense_card"
      /\ INTENTS[1] = "regression_intents"
  BY DEF WEAKNESS_CARD, DEFENSE_CARD, INTENTS
<1> QED BY <1>1, <1>2

LEMMA KindIsInTheName == \A c : CardFile(c)[1] = c.kind
BY DEF CardFile

LEMMA CardFileIsKBFile ==
  ASSUME NEW kind \in {"weakness", "defense"}, NEW run \in Evidence, NEW c,
         c.kind = kind, c.project = run.project, c.target = run.target, c.family = run.family
  PROVE  CardFile(c) \in KBFiles
BY DEF CardFile, KBFiles

(* A weakness card that a promotion builds was earned.                     *)
LEMMA WeaknessIsEarned ==
  ASSUME NEW runs \in SUBSET Evidence, NEW c \in WeaknessCards(runs)
  PROVE  c \in EarnedCards /\ c.kind = "weakness"
<1>1. PICK r \in runs :
        /\ c = [kind |-> "weakness", project |-> r.project, target |-> r.target,
                family |-> r.family, runs |-> runs]
        /\ \A s \in runs : s.flaws \cap WEAKNESS_CHECKS = {}
        /\ Independent(runs)
        /\ \A s \in runs : /\ s.project = r.project
                           /\ s.target = r.target
                           /\ s.family = r.family
        /\ ReusableAfter(runs)
  BY DEF WeaknessCards
<1>2. /\ c.kind = "weakness" /\ c.project = r.project /\ c.target = r.target
      /\ c.family = r.family /\ c.runs = runs
  BY <1>1
<1>3. CardFile(c) \in KBFiles
  BY <1>2, CardFileIsKBFile
<1>4. c \in CardType
  BY <1>1 DEF CardType
<1>5. LET Digest(s) == s.print IN Distinct(c.runs, Digest)
  BY <1>1, <1>2 DEF Independent
<1>6. Sound(c.runs, WEAKNESS_CHECKS)
  BY <1>1, <1>2 DEF Sound
<1>7. Cardinality(c.runs) >= MIN_STABLE_REPRODUCTIONS
  BY <1>1, <1>2 DEF ReusableAfter
<1> QED BY <1>1, <1>2, <1>3, <1>4, <1>5, <1>6, <1>7 DEF EarnedCards

(* A defence card that a promotion builds was earned.                      *)
LEMMA DefenseIsEarned ==
  ASSUME NEW runs \in SUBSET Evidence, NEW c \in DefenseCards(runs)
  PROVE  c \in EarnedCards /\ c.kind = "defense"
<1>1. PICK r \in runs :
        /\ c = [kind |-> "defense", project |-> r.project, target |-> r.target,
                family |-> r.family, runs |-> runs]
        /\ \A s \in runs : s.flaws \cap DEFENSE_CHECKS = {}
        /\ LET Digest(s) == s.print IN Distinct(runs, Digest)
        /\ \A s \in runs : s.family = r.family
        /\ \A s \in runs : s.project = r.project
        /\ ReusableAfter(runs)
  BY DEF DefenseCards
<1>2. /\ c.kind = "defense" /\ c.project = r.project /\ c.target = r.target
      /\ c.family = r.family /\ c.runs = runs
  BY <1>1
<1>3. CardFile(c) \in KBFiles
  BY <1>2, CardFileIsKBFile
<1>4. c \in CardType
  BY <1>1 DEF CardType
<1>5. LET Digest(s) == s.print IN Distinct(c.runs, Digest)
  BY <1>1, <1>2
<1>6. Sound(c.runs, DEFENSE_CHECKS)
  BY <1>1, <1>2 DEF Sound
<1>7. Cardinality(c.runs) >= MIN_STABLE_REPRODUCTIONS
  BY <1>1, <1>2 DEF ReusableAfter
<1> QED BY <1>1, <1>2, <1>3, <1>4, <1>5, <1>6, <1>7 DEF EarnedCards

Reports == [status : {"none", "not_run", "contested", "promoted"}, card : CardType \cup {Absent}]

LEMMA ReportTypes ==
  /\ NoReport \in Reports /\ NotRun \in Reports /\ Report("contested", Absent) \in Reports
  /\ \A c \in CardType : Promoted(c) \in Reports
BY DEF Reports, NoReport, NotRun, Report, Promoted

(* A promotion that ends leaves the others as they are.                    *)
LEMMA EndStep ==
  ASSUME RootInv, NEW w \in Writers, NEW rep \in Reports, End(w, rep),
         files' \in [Names -> CardType \cup {Absent, Torn}], RootIsEarned'
  PROVE  RootInv'
<1> USE DEF RootInv
<1>1. StoreTypeOK'
  BY DEF StoreTypeOK, End, Reports
<1>2. ASSUME NEW v \in Writers, stage'[v] # "idle"
      PROVE  v # w /\ stage'[v] = stage[v] /\ card'[v] = card[v] /\ todo'[v] = todo[v]
  BY <1>2 DEF StoreTypeOK, End
<1>3. PromotionInv'
  BY <1>2 DEF PromotionInv, NamesOf, CardFile
<1> QED BY <1>1, <1>3

LEMMA AdvanceStep ==
  ASSUME RootInv, NEW w \in Writers, stage[w] # "idle", Advance(w),
         files' \in [Names -> CardType \cup {Absent, Torn}], RootIsEarned'
  PROVE  RootInv'
<1> USE DEF RootInv
<1>0. /\ card[w] \in CardType /\ todo[w] \in Seq(Names) /\ todo[w] # << >>
      /\ card[w] \in EarnedCards /\ card[w].kind = KindOf(w)
      /\ \A i \in DOMAIN todo[w] : todo[w][i] \in NamesOf(w, card[w])
  BY DEF StoreTypeOK, PromotionInv, EarnedCards
<1>1. CASE Len(todo[w]) = 1
  BY <1>0, <1>1, EndStep, ReportTypes DEF Advance
<1>2. CASE Len(todo[w]) # 1
  <2>1. /\ todo' = [todo EXCEPT ![w] = Tail(todo[w])]
        /\ stage' = [stage EXCEPT ![w] = IF w \in Batches THEN "look" ELSE "open"]
        /\ UNCHANGED <<card, report>>
    BY <1>2 DEF Advance
  <2>2. /\ Tail(todo[w]) \in Seq(Names) /\ Tail(todo[w]) # << >>
        /\ \A i \in DOMAIN Tail(todo[w]) : Tail(todo[w])[i] \in NamesOf(w, card[w])
    BY <1>0, <1>2, TailOfNames
  <2>3. StoreTypeOK'
    BY <2>1, <2>2 DEF StoreTypeOK
  <2>4. ASSUME NEW v \in Writers, v # w
        PROVE  stage'[v] = stage[v] /\ todo'[v] = todo[v]
    BY <2>1, <2>4 DEF StoreTypeOK
  <2>5. stage'[w] \in {"look", "open"} /\ (stage'[w] = "look" => w \in Batches)
        /\ todo'[w] = Tail(todo[w])
    BY <2>1 DEF StoreTypeOK
  <2>6. PromotionInv'
    BY <1>0, <2>1, <2>2, <2>4, <2>5 DEF PromotionInv
  <2> QED BY <2>3, <2>6
<1> QED BY <1>1, <1>2

USE KnowledgeAssumption, MarkerAssumption

LEMMA StartWeaknessStep ==
  ASSUME RootInv, NEW w \in Writers, StartWeakness(w)
  PROVE  RootInv'
<1> USE DEF RootInv
<1>1. /\ w \in Batches /\ stage[w] = "idle" /\ files' = files
      /\ files' \in [Names -> CardType \cup {Absent, Torn}]
  BY DEF StartWeakness, StoreTypeOK
<1>2. RootIsEarned'
  BY <1>1 DEF RootIsEarned, Whole, CardFile
<1>3. PICK history \in Histories :
          LET runs == Selected(history) IN
          \/ /\ Cardinality(runs) < MIN_STABLE_REPRODUCTIONS
             /\ End(w, NotRun)
          \/ /\ Cardinality(runs) >= MIN_STABLE_REPRODUCTIONS
             /\ WeaknessCards(runs) = {}
             /\ Contest(w)
          \/ /\ Cardinality(runs) >= MIN_STABLE_REPRODUCTIONS
             /\ \E new \in WeaknessCards(runs) :
                   /\ card' = [card EXCEPT ![w] = new]
                   /\ todo' = [todo EXCEPT ![w] = <<WEAKNESS_CARD, CardFile(new), INTENTS>>]
             /\ stage' = [stage EXCEPT ![w] = "look"]
             /\ report' = [report EXCEPT ![w] = NoReport]
  BY DEF StartWeakness
<1>4. CASE End(w, NotRun) \/ Contest(w)
  BY <1>1, <1>2, <1>4, EndStep, ReportTypes DEF Contest
<1>5. CASE /\ \E new \in WeaknessCards(Selected(history)) :
                 /\ card' = [card EXCEPT ![w] = new]
                 /\ todo' = [todo EXCEPT ![w] = <<WEAKNESS_CARD, CardFile(new), INTENTS>>]
           /\ stage' = [stage EXCEPT ![w] = "look"]
           /\ report' = [report EXCEPT ![w] = NoReport]
  <2>1. Selected(history) \in SUBSET Evidence
    BY DEF Selected
  <2>2. PICK new \in WeaknessCards(Selected(history)) :
          /\ card' = [card EXCEPT ![w] = new]
          /\ todo' = [todo EXCEPT ![w] = <<WEAKNESS_CARD, CardFile(new), INTENTS>>]
    BY <1>5
  <2>3. new \in EarnedCards /\ new.kind = "weakness" /\ new \in CardType
    BY <2>1, WeaknessIsEarned DEF EarnedCards
  <2>4. <<WEAKNESS_CARD, CardFile(new), INTENTS>> \in Seq(Names)
    BY <2>3 DEF EarnedCards, Names
  <2>5. StoreTypeOK'
    BY <1>1, <1>5, <2>2, <2>3, <2>4, ReportTypes DEF StoreTypeOK, Reports
  <2>6. /\ card'[w] = new /\ stage'[w] = "look"
        /\ todo'[w] = <<WEAKNESS_CARD, CardFile(new), INTENTS>>
    BY <1>5, <2>2 DEF StoreTypeOK
  <2>7. ASSUME NEW v \in Writers, v # w
        PROVE  stage'[v] = stage[v] /\ card'[v] = card[v] /\ todo'[v] = todo[v]
    BY <1>5, <2>2, <2>7 DEF StoreTypeOK
  <2>8. /\ todo'[w] # << >>
        /\ \A i \in DOMAIN todo'[w] : todo'[w][i] \in NamesOf(w, new)
    BY <1>1, <2>6 DEF NamesOf
  <2>9. PromotionInv'
    BY <1>1, <2>3, <2>6, <2>7, <2>8 DEF PromotionInv, KindOf
  <2> QED BY <1>2, <2>5, <2>9
<1> QED BY <1>3, <1>4, <1>5

LEMMA StartDefenseStep ==
  ASSUME RootInv, NEW w \in Writers, StartDefense(w)
  PROVE  RootInv'
<1> USE DEF RootInv
<1>1. /\ w \in Defenses /\ w \notin Batches /\ stage[w] = "idle" /\ files' = files
      /\ files' \in [Names -> CardType \cup {Absent, Torn}]
  BY DEF StartDefense, StoreTypeOK
<1>2. RootIsEarned'
  BY <1>1 DEF RootIsEarned, Whole, CardFile
<1>3. PICK history \in Histories :
          \/ /\ Cardinality(history) < 2
             /\ End(w, NotRun)
          \/ /\ Cardinality(history) >= 2
             /\ DefenseCards(history) = {}
             /\ Contest(w)
          \/ /\ Cardinality(history) >= 2
             /\ \E new \in DefenseCards(history) :
                   LET copied == {DEFENSE_CARD, CardFile(new), INTENTS} IN
                   /\ \E order \in [1..3 -> copied] :
                         /\ {order[i] : i \in 1..3} = copied
                         /\ todo' = [todo EXCEPT ![w] = order]
                   /\ card' = [card EXCEPT ![w] = new]
                   /\ report' = [report EXCEPT ![w] = Promoted(new)]
             /\ stage' = [stage EXCEPT ![w] = "open"]
  BY DEF StartDefense
<1>4. CASE End(w, NotRun) \/ Contest(w)
  BY <1>1, <1>2, <1>4, EndStep, ReportTypes DEF Contest
<1>5. CASE /\ \E new \in DefenseCards(history) :
                 /\ \E order \in [1..3 -> {DEFENSE_CARD, CardFile(new), INTENTS}] :
                       todo' = [todo EXCEPT ![w] = order]
                 /\ card' = [card EXCEPT ![w] = new]
                 /\ report' = [report EXCEPT ![w] = Promoted(new)]
           /\ stage' = [stage EXCEPT ![w] = "open"]
  <2>1. PICK new \in DefenseCards(history) :
          /\ \E order \in [1..3 -> {DEFENSE_CARD, CardFile(new), INTENTS}] :
                todo' = [todo EXCEPT ![w] = order]
          /\ card' = [card EXCEPT ![w] = new]
          /\ report' = [report EXCEPT ![w] = Promoted(new)]
    BY <1>5
  <2>2. PICK order \in [1..3 -> {DEFENSE_CARD, CardFile(new), INTENTS}] :
          todo' = [todo EXCEPT ![w] = order]
    BY <2>1
  <2>3. new \in EarnedCards /\ new.kind = "defense" /\ new \in CardType
    BY DefenseIsEarned DEF EarnedCards
  <2>4. order \in Seq(Names) /\ order # << >> /\ DOMAIN order = 1..3
    <3>1. {DEFENSE_CARD, CardFile(new), INTENTS} \subseteq Names
      BY <2>3 DEF EarnedCards, Names
    <3>2. order \in [1..3 -> Names]
      BY <3>1
    <3>3. order \in Seq(Names)
      <4>1. \E n \in Nat : order \in [1..n -> Names]
        BY <3>2
      <4> QED BY <4>1, SeqDef
    <3>4. DOMAIN order = 1..3 /\ DOMAIN << >> = {}
      BY <3>2
    <3> QED BY <3>3, <3>4, 1 \in 1..3
  <2>5. StoreTypeOK'
    BY <1>1, <1>5, <2>1, <2>2, <2>3, <2>4, ReportTypes DEF StoreTypeOK, Reports
  <2>6. card'[w] = new /\ stage'[w] = "open" /\ todo'[w] = order
    BY <1>5, <2>1, <2>2 DEF StoreTypeOK
  <2>7. ASSUME NEW v \in Writers, v # w
        PROVE  stage'[v] = stage[v] /\ card'[v] = card[v] /\ todo'[v] = todo[v]
    BY <1>5, <2>1, <2>2, <2>7 DEF StoreTypeOK
  <2>8. \A i \in DOMAIN todo'[w] : todo'[w][i] \in NamesOf(w, new)
    BY <1>1, <2>4, <2>6 DEF NamesOf
  <2>9. PromotionInv'
    BY <1>1, <2>3, <2>4, <2>6, <2>7, <2>8 DEF PromotionInv, KindOf
  <2> QED BY <1>2, <2>5, <2>9
<1> QED BY <1>3, <1>4, <1>5

(* The names a promotion copies to.                                        *)
LEMMA HeadIsOwnName ==
  ASSUME RootInv, NEW w \in Writers, stage[w] # "idle"
  PROVE  /\ Head(todo[w]) \in NamesOf(w, card[w]) /\ Head(todo[w]) \in Names
         /\ Head(todo[w]) \in KBFiles => Head(todo[w]) = CardFile(card[w])
<1>1. /\ todo[w] \in Seq(Names) /\ todo[w] # << >>
      /\ \A i \in DOMAIN todo[w] : todo[w][i] \in NamesOf(w, card[w])
  BY DEF RootInv, StoreTypeOK, PromotionInv
<1>2. Head(todo[w]) = todo[w][1] /\ 1 \in DOMAIN todo[w] /\ Head(todo[w]) \in Names
  BY <1>1
<1> QED BY <1>1, <1>2, NamesDiffer DEF NamesOf

LEMMA LookStep ==
  ASSUME RootInv, NEW w \in Writers, Look(w)
  PROVE  RootInv'
<1> USE DEF RootInv
<1>1. /\ stage[w] = "look" /\ files' = files
      /\ files' \in [Names -> CardType \cup {Absent, Torn}]
  BY DEF Look, StoreTypeOK
<1>2. RootIsEarned'
  BY <1>1 DEF RootIsEarned, Whole, CardFile
<1>3. CASE stage' = [stage EXCEPT ![w] = "open"] /\ UNCHANGED <<card, todo, report>>
  <2>1. StoreTypeOK'
    BY <1>1, <1>3 DEF StoreTypeOK
  <2>2. \A v \in Writers : stage'[v] = IF v = w THEN "open" ELSE stage[v]
    BY <1>3 DEF StoreTypeOK
  <2>3. PromotionInv'
    BY <1>1, <1>3, <2>2 DEF PromotionInv, NamesOf, CardFile
  <2> QED BY <1>2, <2>1, <2>3
<1>4. CASE Advance(w)
  BY <1>1, <1>2, <1>4, AdvanceStep
<1>5. CASE Contest(w)
  BY <1>1, <1>2, <1>5, EndStep, ReportTypes DEF Contest
<1> QED BY <1>3, <1>4, <1>5 DEF Look

LEMMA OpenStep ==
  ASSUME RootInv, NEW w \in Writers, OpenFile(w)
  PROVE  RootInv'
<1> USE DEF RootInv
<1>1. /\ stage[w] = "open" /\ files' = [files EXCEPT ![Head(todo[w])] = Torn]
      /\ stage' = [stage EXCEPT ![w] = "fill"] /\ UNCHANGED <<card, todo, report>>
  BY DEF OpenFile
<1>2. StoreTypeOK'
  BY <1>1, HeadIsOwnName DEF StoreTypeOK
<1>3. \A v \in Writers : stage'[v] = IF v = w THEN "fill" ELSE stage[v]
  BY <1>1 DEF StoreTypeOK
<1>4. PromotionInv'
  BY <1>1, <1>3 DEF PromotionInv, NamesOf, CardFile
<1>5. \A name \in KBFiles : files'[name] \in {files[name], Torn}
  BY <1>1 DEF StoreTypeOK, Names
<1>6. RootIsEarned'
  BY <1>5 DEF RootIsEarned, Whole, CardFile
<1> QED BY <1>2, <1>4, <1>6

LEMMA FillStep ==
  ASSUME RootInv, NEW w \in Writers, FillFile(w)
  PROVE  RootInv'
<1> USE DEF RootInv
<1>1. /\ stage[w] = "fill" /\ files' = [files EXCEPT ![Head(todo[w])] = card[w]]
      /\ Advance(w)
  BY DEF FillFile
<1>2. card[w] \in EarnedCards /\ card[w] \in CardType
  BY <1>1 DEF PromotionInv, EarnedCards
<1>3. files' \in [Names -> CardType \cup {Absent, Torn}]
  BY <1>1, <1>2, HeadIsOwnName DEF StoreTypeOK
<1>4. ASSUME NEW name \in KBFiles
      PROVE  \/ files'[name] = files[name]
             \/ files'[name] = card[w] /\ name = CardFile(card[w])
  <2>1. name \in DOMAIN files
    BY DEF StoreTypeOK, Names
  <2>2. Head(todo[w]) \in KBFiles => Head(todo[w]) = CardFile(card[w])
    BY <1>1, HeadIsOwnName
  <2>3. files'[name] = IF name = Head(todo[w]) THEN card[w] ELSE files[name]
    BY <1>1, <2>1
  <2> QED BY <2>2, <2>3
<1>5. RootIsEarned'
  BY <1>2, <1>4 DEF RootIsEarned, Whole, CardFile
<1> QED BY <1>1, <1>3, <1>5, AdvanceStep

LEMMA EndsEarly ==
  ASSUME RootInv, NEW w \in Writers, CopyFails(w) \/ Die(w)
  PROVE  RootInv'
<1> USE DEF RootInv
<1>1. /\ files' = files /\ files' \in [Names -> CardType \cup {Absent, Torn}]
      /\ Contest(w) \/ End(w, report[w])
  BY DEF CopyFails, Die, StoreTypeOK
<1>2. RootIsEarned'
  BY <1>1 DEF RootIsEarned, Whole, CardFile
<1>3. report[w] \in Reports
  BY DEF StoreTypeOK, Reports
<1> QED BY <1>1, <1>2, <1>3, EndStep, ReportTypes DEF Contest

LEMMA StoreInitially == StoreInit => BatchInv
<1> SUFFICES ASSUME StoreInit PROVE BatchInv
  OBVIOUS
<1>1. StoreTypeOK
  <2>1. NoReport \in Reports
    BY ReportTypes
  <2> QED BY <2>1 DEF StoreInit, StoreTypeOK, Reports
<1>2. \A name \in KBFiles : ~Whole(name)
  BY DEF StoreInit, Whole, Names
<1>3. \A w \in Writers : stage[w] = "idle" /\ report[w].status = "none"
  BY DEF StoreInit, NoReport, Report
<1>4. RootInv
  BY <1>1, <1>2, <1>3 DEF RootInv, RootIsEarned, PromotionInv
<1> QED BY <1>3, <1>4 DEF BatchInv, CopiedInv, PromotedInv, Writers

LEMMA RootStep == RootInv /\ [StoreNext]_storeVars => RootInv'
<1>1. CASE UNCHANGED storeVars
  BY <1>1 DEF RootInv, StoreTypeOK, RootIsEarned, PromotionInv, Whole, CardFile, NamesOf, storeVars
<1>2. CASE StoreNext
  BY <1>2, StartWeaknessStep, StartDefenseStep, LookStep, OpenStep, FillStep, EndsEarly DEF StoreNext
<1> QED BY <1>1, <1>2

(* Whatever interleaves, fails or dies: what lies whole under the name of a *)
(* card is this card, made from three sound and independent runs of its    *)
(* claim (promote_from_history, promote_repeated_defense).                 *)
THEOREM CardsInTheRootAreEarned == StoreSpec => []RootInv
<1>1. StoreInit => RootInv
  BY StoreInitially DEF BatchInv
<1> QED BY <1>1, RootStep, PTL DEF StoreSpec

(* The variables of the knowledge root keep their types.                   *)
THEOREM StoreTypes == StoreSpec => []StoreTypeOK
<1>1. RootInv => StoreTypeOK
  BY DEF RootInv
<1> QED BY <1>1, CardsInTheRootAreEarned, PTL

(* What promotions install the validator accepts                           *)
(* (_validate_flat_weakness_root): any number of them.                     *)
THEOREM ValidatorAccepts == StoreSpec => []ValidatorAgrees
<1>1. RootInv => ValidatorAgrees
  <2> SUFFICES ASSUME RootInv,
                      NEW name \in KBFiles, files[name] # Absent, Whole(name), name[1] = "weakness"
               PROVE  ValidCard(name)
    BY Zenon DEF ValidatorAgrees, ValidRoot
  <2>1. files[name] \in EarnedCards /\ CardFile(files[name]) = name
    BY DEF RootInv, RootIsEarned
  <2>2. files[name].kind = "weakness"
    BY <2>1, KindIsInTheName
  <2>3. Cardinality(files[name].runs) >= 3 /\ Independent(files[name].runs)
    BY <2>1, <2>2 DEF EarnedCards, MIN_STABLE_REPRODUCTIONS
  <2> QED BY <2>2, <2>3 DEF ValidCard, Independent
<1> QED BY <1>1, CardsInTheRootAreEarned, PTL

-----------------------------------------------------------------------------
(* One batch at a time promotes into a root.                               *)
OneBatch == \A v, w \in Batches : v = w

LEMMA WeaknessNames ==
  /\ WEAKNESS_CARD \in WeaknessFiles /\ WeaknessFiles \subseteq Names
  /\ INTENTS \notin WeaknessFiles /\ DEFENSE_CARD \notin WeaknessFiles
  /\ \A c \in EarnedCards : CardFile(c) \in WeaknessFiles <=> c.kind = "weakness"
<1>1. \A c \in EarnedCards : CardFile(c) \in KBFiles /\ CardFile(c) # WEAKNESS_CARD
  BY NamesDiffer DEF EarnedCards
<1> QED BY <1>1, NamesDiffer, KindIsInTheName DEF WeaknessFiles, Names

(* What a batch says stays true while others leave its files and it alone. *)
LEMMA BatchKept ==
  ASSUME BatchInv, RootInv',
         \A v \in Batches : /\ stage'[v] = stage[v] /\ card'[v] = card[v]
                            /\ todo'[v] = todo[v] /\ report'[v] = report[v],
         \A name \in WeaknessFiles : files'[name] = files[name]
  PROVE  BatchInv'
<1> USE DEF BatchInv
<1>1. \A v \in Batches : stage[v] # "idle" =>
        CardFile(card[v]) \in WeaknessFiles
  BY WeaknessNames DEF RootInv, PromotionInv, KindOf, Writers
<1>2. CopiedInv'
  <2> SUFFICES ASSUME NEW v \in Batches, stage'[v] # "idle"
               PROVE  /\ report'[v] = NoReport
                      /\ todo'[v] \in Left(v)'
                      /\ Len(todo'[v]) <= 2 => files'[WEAKNESS_CARD] = card'[v]
                      /\ Len(todo'[v]) <= 1 => files'[CardFile(card'[v])] = card'[v]
                      /\ stage'[v] \in {"open", "fill"} /\ Head(todo'[v]) \in WeaknessFiles
                           => files'[Head(todo'[v])] \in {Absent, Torn}
    BY DEF CopiedInv, Whole, CardFile, NoReport, Report
  <2>1. todo'[v] \in Left(v)'
    BY DEF CopiedInv, Left, CardFile
  <2> QED BY <1>1, <2>1, WeaknessNames DEF CopiedInv, Whole
<1>3. PromotedInv'
  <2> SUFFICES ASSUME NEW v \in Batches, report[v].status = "promoted"
               PROVE  /\ files'[WEAKNESS_CARD] = report[v].card
                      /\ files'[CardFile(report[v].card)] = report[v].card
                      /\ report[v].card \in EarnedCards /\ report[v].card.kind = "weakness"
    BY DEF PromotedInv, CardFile
  <2> QED BY WeaknessNames DEF PromotedInv
<1> QED BY <1>2, <1>3

(* A batch that ends says promoted only of a card that is in its files.    *)
LEMMA BatchEnds ==
  ASSUME OneBatch, BatchInv, RootInv', NEW w \in Batches, NEW rep \in Reports, End(w, rep),
         rep.status = "promoted" =>
           /\ rep.card \in EarnedCards /\ rep.card.kind = "weakness"
           /\ files'[WEAKNESS_CARD] = rep.card /\ files'[CardFile(rep.card)] = rep.card
  PROVE  BatchInv'
<1>1. \A v \in Batches : v = w /\ stage'[v] = "idle" /\ report'[v] = rep
  BY DEF OneBatch, BatchInv, RootInv, StoreTypeOK, End, Writers
<1>2. CopiedInv'
  BY <1>1 DEF CopiedInv
<1>3. PromotedInv'
  BY <1>1 DEF PromotedInv, CardFile
<1> QED BY <1>2, <1>3 DEF BatchInv

(* The file at the head has the card: the next one, or the end.            *)
LEMMA BatchAdvances ==
  ASSUME OneBatch, BatchInv, RootInv', NEW w \in Batches, stage[w] # "idle", Advance(w),
         files'[Head(todo[w])] = card[w],
         \A name \in WeaknessFiles : name # Head(todo[w]) => files'[name] = files[name]
  PROVE  BatchInv'
<1> DEFINE c == card[w]
           K == CardFile(c)
<1>0. w \in Writers /\ stage \in [Writers -> {"idle", "look", "open", "fill"}]
      /\ todo \in [Writers -> Seq(Names)]
  BY DEF Writers, BatchInv, RootInv, StoreTypeOK
<1>1. /\ c \in EarnedCards /\ c.kind = "weakness" /\ c \in CardType
      /\ K \in WeaknessFiles /\ K # WEAKNESS_CARD /\ K # INTENTS /\ WEAKNESS_CARD # INTENTS
  <2>1. c \in EarnedCards /\ c.kind = "weakness"
    BY <1>0 DEF BatchInv, RootInv, PromotionInv, KindOf
  <2>2. K \in KBFiles
    BY <2>1 DEF EarnedCards
  <2> QED BY <2>1, <2>2, WeaknessNames, NamesDiffer DEF EarnedCards
<1>2. /\ report[w] = NoReport
      /\ todo[w] \in {<<WEAKNESS_CARD, K, INTENTS>>, <<K, INTENTS>>, <<INTENTS>>}
      /\ Len(todo[w]) <= 2 => files[WEAKNESS_CARD] = c
      /\ Len(todo[w]) <= 1 => files[K] = c
  BY DEF BatchInv, CopiedInv, Left
<1>3. CASE Len(todo[w]) = 1
  <2>1. todo[w] = <<INTENTS>>
    BY <1>2, <1>3
  <2>2. files'[WEAKNESS_CARD] = c /\ files'[K] = c
    BY <1>1, <1>2, <2>1, WeaknessNames
  <2>3. End(w, Promoted(c)) /\ Promoted(c) \in Reports /\ Promoted(c).card = c
    BY <1>1, <1>3, ReportTypes DEF Advance, Promoted, Report
  <2> HIDE DEF c, K
  <2> QED BY <1>1, <2>2, <2>3, BatchEnds DEF K
<1>4. CASE Len(todo[w]) # 1
  <2>1. /\ todo' = [todo EXCEPT ![w] = Tail(todo[w])]
        /\ stage' = [stage EXCEPT ![w] = IF w \in Batches THEN "look" ELSE "open"]
        /\ UNCHANGED <<card, report>>
    BY <1>4 DEF Advance
  <2>2. \A v \in Batches : v = w
    BY DEF OneBatch
  <2>3. stage'[w] = "look" /\ todo'[w] = Tail(todo[w]) /\ card'[w] = c /\ report'[w] = NoReport
    BY <1>0, <1>2, <2>1
  <2>4. CASE todo[w] = <<WEAKNESS_CARD, K, INTENTS>>
    <3>1. todo'[w] = <<K, INTENTS>> /\ Len(todo'[w]) = 2 /\ files'[WEAKNESS_CARD] = c
      BY <2>3, <2>4
    <3>2. todo'[w] \in Left(w)'
      BY <2>3, <3>1 DEF Left, CardFile
    <3>3. Len(todo'[w]) <= 1 => files'[CardFile(card'[w])] = card'[w]
      BY <2>3, <3>1
    <3>4. CopiedInv'
      BY <2>2, <2>3, <3>1, <3>2, <3>3 DEF CopiedInv, CardFile, NoReport, Report
    <3> QED BY <2>2, <2>3, <3>4 DEF BatchInv, PromotedInv, NoReport, Report
  <2>5. CASE todo[w] = <<K, INTENTS>>
    <3>1. todo'[w] = <<INTENTS>> /\ Len(todo'[w]) = 1 /\ files'[K] = c
          /\ files'[WEAKNESS_CARD] = c
      BY <1>1, <1>2, <2>3, <2>5, WeaknessNames
    <3>2. todo'[w] \in Left(w)'
      BY <2>3, <3>1 DEF Left, CardFile
    <3>3. Len(todo'[w]) <= 1 => files'[CardFile(card'[w])] = card'[w]
      BY <2>3, <3>1
    <3>4. CopiedInv'
      BY <2>2, <2>3, <3>1, <3>2, <3>3 DEF CopiedInv, CardFile, NoReport, Report
    <3> QED BY <2>2, <2>3, <3>4 DEF BatchInv, PromotedInv, NoReport, Report
  <2> QED BY <1>2, <1>4, <2>4, <2>5
<1> QED BY <1>3, <1>4

(* The copies of a defence leave the files of weaknesses alone.            *)
LEMMA DefenseLeavesWeaknesses ==
  ASSUME BatchInv, NEW w \in Defenses,
         \/ StartDefense(w) \/ Look(w) \/ OpenFile(w) \/ FillFile(w) \/ CopyFails(w) \/ Die(w)
  PROVE  /\ \A v \in Batches : /\ stage'[v] = stage[v] /\ card'[v] = card[v]
                               /\ todo'[v] = todo[v] /\ report'[v] = report[v]
         /\ \A name \in WeaknessFiles : files'[name] = files[name]
<1> USE DEF BatchInv, RootInv
<1>1. w \in Writers /\ w \notin Batches /\ \A v \in Batches : v \in Writers /\ v # w
  BY DEF Writers
<1>2. \A v \in Batches : /\ stage'[v] = stage[v] /\ card'[v] = card[v]
                         /\ todo'[v] = todo[v] /\ report'[v] = report[v]
  <2> USE <1>1 DEF StoreTypeOK, End, Contest
  <2>1. CASE StartDefense(w)
    BY <2>1 DEF StartDefense
  <2>2. CASE Look(w)
    BY <2>2 DEF Look, Advance
  <2>3. CASE OpenFile(w)
    BY <2>3 DEF OpenFile
  <2>4. CASE FillFile(w)
    BY <2>4 DEF FillFile, Advance
  <2>5. CASE CopyFails(w) \/ Die(w)
    BY <2>5 DEF CopyFails, Die
  <2> QED BY <2>1, <2>2, <2>3, <2>4, <2>5
<1>3. ASSUME stage[w] # "idle"
      PROVE  Head(todo[w]) \notin WeaknessFiles
  <2>1. card[w] \in EarnedCards /\ card[w].kind = "defense"
    BY <1>1, <1>3 DEF PromotionInv, KindOf
  <2>2. Head(todo[w]) \in {DEFENSE_CARD, CardFile(card[w]), INTENTS}
    BY <1>1, <1>3, HeadIsOwnName DEF NamesOf
  <2> QED BY <2>1, <2>2, WeaknessNames
<1>4. \A name \in WeaknessFiles : files'[name] = files[name]
  <2>1. CASE OpenFile(w)
    BY <1>3, <2>1, WeaknessNames DEF OpenFile, StoreTypeOK
  <2>2. CASE FillFile(w)
    BY <1>3, <2>2, WeaknessNames DEF FillFile, StoreTypeOK
  <2>3. CASE StartDefense(w) \/ Look(w) \/ CopyFails(w) \/ Die(w)
    BY <2>3 DEF StartDefense, Look, CopyFails, Die
  <2> QED BY <2>1, <2>2, <2>3
<1> QED BY <1>2, <1>4

LEMMA BatchStarts ==
  ASSUME OneBatch, BatchInv, RootInv', NEW w \in Batches, StartWeakness(w)
  PROVE  BatchInv'
<1> USE DEF BatchInv
<1>1. files' = files /\ w \in Writers /\ \A v \in Batches : v = w
  BY DEF StartWeakness, OneBatch, Writers
<1>2. CASE End(w, NotRun) \/ Contest(w)
  BY <1>2, BatchEnds, ReportTypes DEF Contest, NotRun, Report
<1>3. CASE \E history \in Histories :
             /\ \E new \in WeaknessCards(Selected(history)) :
                   /\ card' = [card EXCEPT ![w] = new]
                   /\ todo' = [todo EXCEPT ![w] = <<WEAKNESS_CARD, CardFile(new), INTENTS>>]
             /\ stage' = [stage EXCEPT ![w] = "look"]
             /\ report' = [report EXCEPT ![w] = NoReport]
  <2>1. PICK new :
          /\ card' = [card EXCEPT ![w] = new]
          /\ todo' = [todo EXCEPT ![w] = <<WEAKNESS_CARD, CardFile(new), INTENTS>>]
          /\ stage' = [stage EXCEPT ![w] = "look"]
          /\ report' = [report EXCEPT ![w] = NoReport]
    BY <1>3
  <2>2. /\ stage'[w] = "look" /\ card'[w] = new /\ report'[w] = NoReport
        /\ todo'[w] = <<WEAKNESS_CARD, CardFile(new), INTENTS>> /\ Len(todo'[w]) = 3
    BY <1>1, <2>1 DEF RootInv, StoreTypeOK
  <2>3. todo'[w] \in Left(w)'
    BY <2>2 DEF Left, CardFile
  <2>4. CopiedInv'
    <3>1. ~(Len(todo'[w]) <= 2) /\ ~(Len(todo'[w]) <= 1) /\ report'[w] = NoReport
          /\ stage'[w] \notin {"open", "fill"}
      BY <2>2
    <3> QED BY <1>1, <2>3, <3>1 DEF CopiedInv, CardFile, NoReport, Report
  <2> QED BY <1>1, <2>2, <2>4 DEF PromotedInv, NoReport, Report
<1> QED BY <1>2, <1>3 DEF StartWeakness

LEMMA BatchLooks ==
  ASSUME OneBatch, BatchInv, RootInv', NEW w \in Batches, Look(w)
  PROVE  BatchInv'
<1> USE DEF BatchInv
<1>1. /\ files' = files /\ stage[w] = "look" /\ w \in Writers /\ \A v \in Batches : v = w
      /\ report[w] = NoReport
  BY DEF Look, OneBatch, Writers, CopiedInv
<1>2. CASE files[Head(todo[w])] = Absent /\ stage' = [stage EXCEPT ![w] = "open"]
           /\ UNCHANGED <<card, todo, report>>
  <2>1. stage'[w] = "open"
    BY <1>1, <1>2 DEF RootInv, StoreTypeOK
  <2>2. Left(w)' = Left(w)
    BY <1>2 DEF Left, CardFile
  <2>3. CopiedInv'
    BY <1>1, <1>2, <2>1, <2>2 DEF CopiedInv, Whole, CardFile, NoReport, Report
  <2> QED BY <1>1, <1>2, <2>3 DEF PromotedInv, NoReport, Report
<1>3. CASE files[Head(todo[w])] = card[w] /\ Advance(w)
  BY <1>1, <1>3, BatchAdvances
<1>4. CASE Contest(w)
  BY <1>4, BatchEnds, ReportTypes DEF Contest, Report
<1> QED BY <1>2, <1>3, <1>4 DEF Look

LEMMA BatchOpens ==
  ASSUME OneBatch, BatchInv, RootInv', NEW w \in Batches, OpenFile(w)
  PROVE  BatchInv'
<1> USE DEF BatchInv
<1> DEFINE K == CardFile(card[w])
<1>1. /\ files' = [files EXCEPT ![Head(todo[w])] = Torn] /\ stage[w] = "open"
      /\ stage' = [stage EXCEPT ![w] = "fill"] /\ UNCHANGED <<card, todo, report>>
      /\ w \in Writers /\ \A v \in Batches : v = w
  BY DEF OpenFile, OneBatch, Writers
<1>2. /\ report[w] = NoReport /\ todo[w] \in Left(w)
      /\ Len(todo[w]) <= 2 => files[WEAKNESS_CARD] = card[w]
      /\ Len(todo[w]) <= 1 => files[K] = card[w]
  BY <1>1 DEF CopiedInv
<1>3. stage'[w] = "fill" /\ Left(w)' = Left(w)
  BY <1>1 DEF RootInv, StoreTypeOK, Left, CardFile
<1>4. /\ K # WEAKNESS_CARD /\ K # INTENTS /\ WEAKNESS_CARD # INTENTS
      /\ K \in Names /\ WEAKNESS_CARD \in Names
  <2>1. card[w] \in EarnedCards
    BY <1>1 DEF RootInv, PromotionInv
  <2>2. K \in KBFiles
    BY <2>1 DEF EarnedCards
  <2> QED BY <2>2, NamesDiffer DEF Names
<1>5. /\ Len(todo[w]) <= 2 => Head(todo[w]) \in {K, INTENTS}
      /\ Len(todo[w]) <= 1 => Head(todo[w]) = INTENTS
  <2> HIDE DEF K
  <2> QED BY <1>2 DEF Left, K
<1>6. /\ Len(todo[w]) <= 2 => files'[WEAKNESS_CARD] = card[w]
      /\ Len(todo[w]) <= 1 => files'[K] = card[w]
  <2> HIDE DEF K
  <2> QED BY <1>1, <1>2, <1>4, <1>5 DEF RootInv, StoreTypeOK
<1>7. files'[Head(todo[w])] = Torn
  BY <1>1, HeadIsOwnName DEF RootInv, StoreTypeOK
<1>8. CopiedInv'
  BY <1>1, <1>2, <1>3, <1>6, <1>7 DEF CopiedInv, Whole, CardFile, NoReport, Report
<1> QED BY <1>1, <1>2, <1>8 DEF PromotedInv, NoReport, Report

LEMMA BatchFills ==
  ASSUME OneBatch, BatchInv, RootInv', NEW w \in Batches, FillFile(w)
  PROVE  BatchInv'
<1>1. /\ files' = [files EXCEPT ![Head(todo[w])] = card[w]] /\ stage[w] = "fill" /\ Advance(w)
      /\ w \in Writers
  BY DEF FillFile, Writers
<1>2. /\ files'[Head(todo[w])] = card[w]
      /\ \A name \in WeaknessFiles : name # Head(todo[w]) => files'[name] = files[name]
  BY <1>1, HeadIsOwnName, WeaknessNames DEF BatchInv, RootInv, StoreTypeOK
<1> QED BY <1>1, <1>2, BatchAdvances

LEMMA BatchEndsEarly ==
  ASSUME OneBatch, BatchInv, RootInv', NEW w \in Batches, CopyFails(w) \/ Die(w)
  PROVE  BatchInv'
<1>1. stage[w] # "idle" /\ (Contest(w) \/ End(w, report[w]))
  BY DEF CopyFails, Die
<1>2. report[w] = NoReport
  BY <1>1 DEF BatchInv, CopiedInv
<1> QED BY <1>1, <1>2, BatchEnds, ReportTypes DEF Contest, NoReport, Report

LEMMA BatchStep == OneBatch /\ BatchInv /\ [StoreNext]_storeVars => BatchInv'
<1> SUFFICES ASSUME OneBatch, BatchInv, [StoreNext]_storeVars PROVE BatchInv'
  OBVIOUS
<1>1. RootInv'
  BY RootStep DEF BatchInv
<1>2. CASE UNCHANGED storeVars
  BY <1>1, <1>2, BatchKept DEF storeVars
<1>3. ASSUME NEW w \in Writers,
             \/ StartWeakness(w) \/ StartDefense(w) \/ Look(w) \/ OpenFile(w)
             \/ FillFile(w) \/ CopyFails(w) \/ Die(w)
      PROVE  BatchInv'
  <2>1. CASE w \in Batches
    <3>1. ~StartDefense(w)
      BY <2>1 DEF StartDefense
    <3> QED BY <1>1, <1>3, <2>1, <3>1, BatchStarts, BatchLooks, BatchOpens, BatchFills,
               BatchEndsEarly
  <2>2. CASE w \notin Batches
    <3>1. w \in Defenses /\ ~StartWeakness(w)
      BY <2>2 DEF StartWeakness, Writers
    <3> QED BY <1>1, <1>3, <3>1, DefenseLeavesWeaknesses, BatchKept
  <2> QED BY <2>1, <2>2
<1> QED BY <1>2, <1>3 DEF StoreNext

(* With one batch at a time, the invariant of its copies is kept by every  *)
(* step of every promotion, failing and dying included                     *)
(* (weakness_promotion_stage.py, defense_promotion_stage.py).              *)
THEOREM BatchInvariant ==
  ASSUME OneBatch
  PROVE  StoreSpec => []BatchInv
<1>1. BatchInv /\ [StoreNext]_storeVars => BatchInv'
  BY BatchStep
<1> QED BY <1>1, StoreInitially, PTL DEF StoreSpec

(* A batch that says promoted has its card in both files, also after       *)
(* attempts that were cut short, as long as it is the only batch           *)
(* (_copy_knowledge_artifact_without_overwrite).                           *)
THEOREM PromotedCardsAreInstalled ==
  ASSUME OneBatch
  PROVE  StoreSpec => []PromotedIsInstalled
<1>1. BatchInv => PromotedIsInstalled
  BY DEF BatchInv, PromotedInv, PromotedIsInstalled
<1> QED BY <1>1, BatchInvariant, PTL

(* No step changes a weakness card on disk, as long as one batch at a time *)
(* promotes into the root.                                                 *)
THEOREM WeaknessesAreKept ==
  ASSUME OneBatch
  PROVE  StoreSpec => WeaknessIsKept
<1>1. ASSUME BatchInv, [StoreNext]_storeVars, NEW name \in WeaknessFiles, Whole(name)
      PROVE  files'[name] = files[name]
  <2>1. CASE UNCHANGED storeVars
    BY <2>1 DEF storeVars
  <2>2. ASSUME NEW w \in Batches, OpenFile(w) \/ FillFile(w)
        PROVE  files'[name] = files[name]
    <3>1. /\ w \in Writers /\ stage[w] \in {"open", "fill"}
          /\ Head(todo[w]) \in WeaknessFiles => ~Whole(Head(todo[w]))
      BY <1>1, <2>2 DEF OpenFile, FillFile, BatchInv, CopiedInv, Writers
    <3>2. name # Head(todo[w]) /\ name \in DOMAIN files
      BY <1>1, <3>1, WeaknessNames DEF BatchInv, RootInv, StoreTypeOK
    <3> QED BY <2>2, <3>2 DEF OpenFile, FillFile
  <2>3. ASSUME NEW w \in Writers,
               StartWeakness(w) \/ StartDefense(w) \/ Look(w) \/ CopyFails(w) \/ Die(w)
        PROVE  files'[name] = files[name]
    BY <2>3 DEF StartWeakness, StartDefense, Look, CopyFails, Die
  <2>4. ASSUME NEW w \in Defenses, OpenFile(w) \/ FillFile(w)
        PROVE  files'[name] = files[name]
    BY <1>1, <2>4, DefenseLeavesWeaknesses
  <2> QED BY <1>1, <2>1, <2>2, <2>3, <2>4 DEF StoreNext, Writers
<1>2. BatchInv /\ [StoreNext]_storeVars
        => [\A name \in WeaknessFiles : Whole(name) => files'[name] = files[name]]_storeVars
  BY <1>1
<1> QED BY <1>2, BatchInvariant, PTL DEF StoreSpec, WeaknessIsKept

---------------------------------------------------------------------------
(* What the runs that read the root make of it.                            *)

(* The root holds finitely many cards, as evidence is finite.              *)
LEMMA CardsAreFinite ==
  ASSUME NEW project
  PROVE  IsFiniteSet(Retrieved(project))
<1> DEFINE Kinds == {"weakness", "defense"}
<1> DEFINE name == [p \in Kinds \X Evidence |-> <<p[1], p[2].project, p[2].target, p[2].family>>]
<1> DEFINE known == {n \in KBFiles : Whole(n) /\ files[n].project = project}
<1>1. IsFiniteSet(Kinds \X Evidence)
  <2>1. IsFiniteSet({"weakness"}) /\ IsFiniteSet({"defense"})
    BY FS_Singleton
  <2>2. Kinds = {"weakness"} \cup {"defense"}
    OBVIOUS
  <2>3. IsFiniteSet(Kinds)
    <3>1. IsFiniteSet({"weakness"} \cup {"defense"})
      BY <2>1, FS_Union
    <3> QED BY <2>2, <3>1
  <2> QED BY <2>3, FS_Product, KnowledgeAssumption
<1>2. name \in Surjection(Kinds \X Evidence, KBFiles)
  <2>1. \A p \in Kinds \X Evidence : name[p] \in KBFiles
    BY DEF KBFiles
  <2>2. \A n \in KBFiles : \E p \in Kinds \X Evidence : name[p] = n
    <3> SUFFICES ASSUME NEW n \in KBFiles PROVE \E p \in Kinds \X Evidence : name[p] = n
      OBVIOUS
    <3>1. PICK kind \in Kinds, run \in Evidence : n = <<kind, run.project, run.target, run.family>>
      BY DEF KBFiles
    <3>2. name[<<kind, run>>] = n
      BY <3>1
    <3> QED BY <3>2
  <2> QED BY <2>1, <2>2 DEF Surjection
<1>3. IsFiniteSet(known)
  <2>1. IsFiniteSet(KBFiles)
    BY <1>1, <1>2, FS_Surjection
  <2> QED BY <2>1, FS_Subset
<1>4. [n \in known |-> files[n]] \in Surjection(known, Retrieved(project))
  BY DEF Surjection, Retrieved
<1> QED BY <1>3, <1>4, FS_Surjection

(* Names have places of their own.                                         *)
LEMMA LettersDiffer ==
  ASSUME NEW x \in Range(Alphabet), NEW y \in Range(Alphabet)
  PROVE  /\ Letter(x) \in Nat
         /\ Letter(x) = Letter(y) => x = y
<1>1. DOMAIN Alphabet = 1 .. Len(Alphabet) /\ Len(Alphabet) \in Nat
  BY SpaceAssumption
<1>2. \A n \in Range(Alphabet) : Letter(n) \in DOMAIN Alphabet /\ Alphabet[Letter(n)] = n
  BY DEF Letter, Range
<1> QED BY <1>1, <1>2

(* A space is a list without repetitions, and its ids identify.            *)
LEMMA SpaceIsList ==
  ASSUME NEW inv \in Inventories
  PROVE  /\ Len(Space[inv]) \in Nat /\ DOMAIN Space[inv] = 1 .. Len(Space[inv])
         /\ \A i, j \in DOMAIN Space[inv] : Space[inv][i] = Space[inv][j] => i = j
         /\ \A c \in Range(Space[inv]) :
              /\ c.project = inv.project
              /\ c.place \in Nat /\ c.singleton \in BOOLEAN
              /\ {c.family, c.level} \subseteq Range(Alphabet)
         /\ \A c, d \in Range(Space[inv]) :
              c.place = d.place /\ c.family = d.family /\ c.level = d.level => c = d
<1>1. Space[inv] \in Seq(Range(Space[inv]))
  BY SpaceAssumption
<1>2. Len(Space[inv]) \in Nat /\ DOMAIN Space[inv] = 1 .. Len(Space[inv])
  BY <1>1
<1>3. \A i, j \in DOMAIN Space[inv] : Space[inv][i] = Space[inv][j] => i = j
  BY SpaceAssumption
<1>4. ASSUME NEW c \in Range(Space[inv])
      PROVE  /\ c.project = inv.project
             /\ c.place \in Nat /\ c.singleton \in BOOLEAN
             /\ {c.family, c.level} \subseteq Range(Alphabet)
  <2>1. PICK i \in DOMAIN Space[inv] : c = Space[inv][i]
    BY DEF Range
  <2> QED BY <2>1, SpaceAssumption
<1>5. ASSUME NEW c \in Range(Space[inv]), NEW d \in Range(Space[inv]),
             c.place = d.place, c.family = d.family, c.level = d.level
      PROVE  c = d
  <2>1. PICK i \in DOMAIN Space[inv], j \in DOMAIN Space[inv] :
          c = Space[inv][i] /\ d = Space[inv][j]
    BY DEF Range
  <2> QED BY <1>5, <2>1, SpaceAssumption
<1> QED BY <1>2, <1>3, <1>4, <1>5

(* Of the candidates of a space, ids are in a total order.                 *)
LEMMA IdsAreOrdered ==
  ASSUME NEW inv \in Inventories,
         NEW c \in Range(Space[inv]), NEW d \in Range(Space[inv]), NEW e \in Range(Space[inv])
  PROVE  /\ ~IdBefore(c, c)
         /\ IdBefore(c, d) => ~IdBefore(d, c)
         /\ c # d => IdBefore(c, d) \/ IdBefore(d, c)
         /\ IdBefore(c, d) /\ IdBefore(d, e) => IdBefore(c, e)
<1>1. /\ c.place \in Nat /\ d.place \in Nat /\ e.place \in Nat
      /\ {c.family, c.level, d.family, d.level, e.family, e.level} \subseteq Range(Alphabet)
  BY SpaceIsList
<1>2. /\ Letter(c.family) \in Nat /\ Letter(d.family) \in Nat /\ Letter(e.family) \in Nat
      /\ Letter(c.level) \in Nat /\ Letter(d.level) \in Nat /\ Letter(e.level) \in Nat
      /\ Letter(c.family) = Letter(d.family) => c.family = d.family
      /\ Letter(c.level) = Letter(d.level) => c.level = d.level
  BY <1>1, LettersDiffer
<1>3. c.place = d.place /\ c.family = d.family /\ c.level = d.level => c = d
  BY SpaceIsList
<1>4. /\ ~IdBefore(c, c)
      /\ IdBefore(c, d) => ~IdBefore(d, c)
      /\ IdBefore(c, d) /\ IdBefore(d, e) => IdBefore(c, e)
  BY <1>1, <1>2 DEF IdBefore
<1>5. c # d => IdBefore(c, d) \/ IdBefore(d, c)
  BY <1>1, <1>2, <1>3 DEF IdBefore
<1> QED BY <1>4, <1>5

(* Scores are whole numbers.                                               *)
LEMMA ScoresAreNumbers ==
  ASSUME NEW inv \in Inventories, NEW cards, IsFiniteSet(cards), NEW i \in DOMAIN Space[inv]
  PROVE  Score(Space[inv], cards)[i] \in Nat
<1> DEFINE space == Space[inv]
<1> DEFINE matching == {c \in cards : Matches(c, space[i])}
<1> DEFINE ofFamily == {c \in cards : FamilyOf(c) = space[i].family}
<1>1. Cardinality(matching) \in Nat /\ Cardinality(ofFamily) \in Nat
  <2>1. IsFiniteSet(matching) /\ IsFiniteSet(ofFamily)
    BY FS_Subset
  <2> QED BY <2>1, FS_CardinalityType
<1>2. NativeScore(space[i], cards) \in Nat
  <2> HIDE DEF matching
  <2>1. NativeScore(space[i], cards) = 10 + 20 * Cardinality(matching)
    BY DEF NativeScore, Bonus, BASE, RCA_REUSABLE_BONUS, matching
  <2> QED BY <1>1, <2>1
<1>3. FallbackScore(space[i], cards) \in Nat
  <2> HIDE DEF ofFamily
  <2>1. FallbackScore(space[i], cards)
          = (IF space[i].singleton THEN 1 ELSE 0) + 125 * Cardinality(ofFamily)
    BY DEF FallbackScore, ofFamily
  <2> QED BY <1>1, <2>1
<1> QED BY <1>2, <1>3 DEF Score

(* No two of a space have one rank, and every rank is one candidate's.     *)
Rank(space, cards, t) == 1 + Cardinality({s \in Scored(space, cards) : Ahead(s, t)})

(* Of the candidates of a space, score and id make a total order.          *)
LEMMA AheadIsOrder ==
  ASSUME NEW inv \in Inventories, NEW cards, IsFiniteSet(cards)
  PROVE  \A s, t, u \in Scored(Space[inv], cards) :
           /\ ~Ahead(s, s)
           /\ Ahead(s, t) => ~Ahead(t, s)
           /\ s # t => Ahead(s, t) \/ Ahead(t, s)
           /\ Ahead(s, t) /\ Ahead(t, u) => Ahead(s, u)
<1> DEFINE space == Space[inv]
<1> SUFFICES ASSUME NEW i \in DOMAIN space, NEW j \in DOMAIN space, NEW k \in DOMAIN space,
                    NEW s, NEW t, NEW u,
                    s = [candidate |-> space[i], score |-> Score(space, cards)[i]],
                    t = [candidate |-> space[j], score |-> Score(space, cards)[j]],
                    u = [candidate |-> space[k], score |-> Score(space, cards)[k]]
             PROVE  /\ ~Ahead(s, s)
                    /\ Ahead(s, t) => ~Ahead(t, s)
                    /\ s # t => Ahead(s, t) \/ Ahead(t, s)
                    /\ Ahead(s, t) /\ Ahead(t, u) => Ahead(s, u)
  BY DEF Scored
<1>1. s.score \in Nat /\ t.score \in Nat /\ u.score \in Nat
  BY ScoresAreNumbers
<1>2. /\ s.candidate \in Range(space) /\ t.candidate \in Range(space)
      /\ u.candidate \in Range(space)
  BY DEF Range
<1>3. s.candidate = t.candidate => s = t
  <2>1. space[i] = space[j] => i = j
    BY SpaceIsList
  <2> QED BY <2>1
<1>4. /\ ~IdBefore(s.candidate, s.candidate)
      /\ IdBefore(s.candidate, t.candidate) => ~IdBefore(t.candidate, s.candidate)
      /\ s.candidate # t.candidate =>
           IdBefore(s.candidate, t.candidate) \/ IdBefore(t.candidate, s.candidate)
      /\ IdBefore(s.candidate, t.candidate) /\ IdBefore(t.candidate, u.candidate) =>
           IdBefore(s.candidate, u.candidate)
  BY <1>2, IdsAreOrdered
<1>5. ~Ahead(s, s) /\ (Ahead(s, t) => ~Ahead(t, s))
  BY <1>1, <1>4 DEF Ahead
<1>6. s # t => Ahead(s, t) \/ Ahead(t, s)
  BY <1>1, <1>3, <1>4 DEF Ahead
<1>7. Ahead(s, t) /\ Ahead(t, u) => Ahead(s, u)
  BY <1>1, <1>4 DEF Ahead
<1> QED BY <1>5, <1>6, <1>7

(* No two have one rank, and every place of the list is one candidate's: a *)
(* candidate has fewer ahead of it than any behind it has, and an          *)
(* injection of a finite set into one of its size covers it.               *)
LEMMA RanksAreOwn ==
  ASSUME NEW inv \in Inventories, NEW cards, IsFiniteSet(cards)
  PROVE  LET space == Space[inv]
             scored == Scored(space, cards)
         IN /\ \A s, t \in scored : Rank(space, cards, s) = Rank(space, cards, t) => s = t
            /\ \A s, t \in scored : Rank(space, cards, s) < Rank(space, cards, t) => Ahead(s, t)
            /\ \A k \in DOMAIN space : \E t \in scored : Rank(space, cards, t) = k
<1> DEFINE space == Space[inv]
           scored == Scored(space, cards)
           Before(t) == {s \in scored : Ahead(s, t)}
           entry == [i \in DOMAIN space |->
                       [candidate |-> space[i], score |-> Score(space, cards)[i]]]
<1>1. IsFiniteSet(scored) /\ Cardinality(scored) = Len(space)
  <2>1. entry \in Surjection(DOMAIN space, scored)
    BY DEF Surjection, Scored
  <2>2. entry \in Injection(DOMAIN space, scored)
    <3>1. \A i, j \in DOMAIN space : entry[i] = entry[j] => i = j
      <4> SUFFICES ASSUME NEW i \in DOMAIN space, NEW j \in DOMAIN space, entry[i] = entry[j]
                   PROVE  i = j
        OBVIOUS
      <4>1. entry[i].candidate = space[i] /\ entry[j].candidate = space[j]
        OBVIOUS
      <4> QED BY <4>1, SpaceIsList
    <3> QED BY <2>1, <3>1 DEF Surjection, Injection, IsInjective
  <2>3. DOMAIN space = 1 .. Len(space) /\ Len(space) \in Nat
    BY SpaceIsList
  <2>4. IsFiniteSet(DOMAIN space) /\ Cardinality(DOMAIN space) = Len(space)
    <3> DEFINE n == Len(space)
    <3> HIDE DEF n
    <3>1. n \in Nat => IsFiniteSet(1 .. n) /\ Cardinality(1 .. n) = n
      BY FS_Interval
    <3> QED BY <2>3, <3>1 DEF n
  <2>5. /\ IsFiniteSet(scored)
        /\ Cardinality(scored) = Cardinality(DOMAIN space) <=> entry \in Injection(DOMAIN space, scored)
    BY <2>1, <2>4, FS_Surjection
  <2> QED BY <2>2, <2>4, <2>5
<1> HIDE DEF entry, scored
<1>2. \A t \in scored : IsFiniteSet(Before(t)) /\ Cardinality(Before(t)) \in Nat
  <2> SUFFICES ASSUME NEW t \in scored
               PROVE  IsFiniteSet(Before(t)) /\ Cardinality(Before(t)) \in Nat
    OBVIOUS
  <2>1. IsFiniteSet(Before(t))
    BY <1>1, FS_Subset
  <2> QED BY <2>1, FS_CardinalityType
<1>3. ASSUME NEW s \in scored, NEW t \in scored, Ahead(s, t)
      PROVE  Cardinality(Before(s)) < Cardinality(Before(t))
  <2>1. Before(s) \subseteq Before(t)
    BY <1>3, AheadIsOrder DEF scored
  <2>2. s \in Before(t) /\ s \notin Before(s)
    BY <1>3, AheadIsOrder DEF scored
  <2>3. /\ Cardinality(Before(s)) <= Cardinality(Before(t))
        /\ Cardinality(Before(s)) = Cardinality(Before(t)) => Before(s) = Before(t)
    BY <1>2, <2>1, FS_Subset
  <2> HIDE DEF Before
  <2> QED BY <1>2, <2>2, <2>3
<1>4. ASSUME NEW s \in scored, NEW t \in scored
      PROVE  /\ Cardinality(Before(s)) = Cardinality(Before(t)) => s = t
             /\ Cardinality(Before(s)) < Cardinality(Before(t)) => Ahead(s, t)
  <2>1. s = t \/ Ahead(s, t) \/ Ahead(t, s)
    BY AheadIsOrder DEF scored
  <2>2. CASE s = t
    BY <1>2, <2>2
  <2>3. CASE Ahead(s, t)
    <3>1. Cardinality(Before(s)) < Cardinality(Before(t))
      BY <1>3, <2>3
    <3> HIDE DEF Before
    <3> QED BY <1>2, <2>3, <3>1
  <2>4. CASE Ahead(t, s)
    <3>1. Cardinality(Before(t)) < Cardinality(Before(s))
      BY <1>3, <2>4
    <3> HIDE DEF Before
    <3> QED BY <1>2, <3>1
  <2> QED BY <2>1, <2>2, <2>3, <2>4
<1>5. ASSUME NEW t \in scored
      PROVE  1 + Cardinality(Before(t)) \in 1 .. Len(space)
  <2>1. Before(t) \subseteq scored /\ t \notin Before(t)
    BY AheadIsOrder DEF scored
  <2>2. /\ Cardinality(Before(t)) <= Cardinality(scored)
        /\ Cardinality(scored) = Cardinality(Before(t)) => scored = Before(t)
    BY <1>1, <2>1, FS_Subset
  <2>3. Len(space) \in Nat
    BY SpaceIsList
  <2> HIDE DEF Before
  <2> QED BY <1>1, <1>2, <2>1, <2>2, <2>3
<1>6. [t \in scored |-> 1 + Cardinality(Before(t))] \in Surjection(scored, 1 .. Len(space))
  <2> DEFINE rank == [t \in scored |-> 1 + Cardinality(Before(t))]
  <2> HIDE DEF Before
  <2>1. rank \in [scored -> 1 .. Len(space)]
    BY <1>5
  <2>2. \A s, t \in scored : rank[s] = rank[t] => s = t
    BY <1>2, <1>4
  <2>3. rank \in Injection(scored, 1 .. Len(space))
    BY <2>1, <2>2 DEF Injection, IsInjective
  <2>4. IsFiniteSet(1 .. Len(space)) /\ Cardinality(1 .. Len(space)) = Len(space)
    <3>1. Len(space) \in Nat
      BY SpaceIsList
    <3> QED BY <3>1, FS_Interval
  <2> HIDE DEF rank
  <2>5. Cardinality(scored) = Cardinality(1 .. Len(space)) <=> rank \in Surjection(scored, 1 .. Len(space))
    BY <2>3, <2>4, FS_Injection
  <2> QED BY <1>1, <2>4, <2>5 DEF rank
<1>7. \A t \in scored : Rank(space, cards, t) = 1 + Cardinality(Before(t))
  BY DEF Rank, scored
<1>8. ASSUME NEW k \in DOMAIN space
      PROVE  \E t \in scored : Rank(space, cards, t) = k
  <2>1. k \in 1 .. Len(space)
    BY SpaceIsList
  <2> HIDE DEF Before
  <2>2. PICK t \in scored : 1 + Cardinality(Before(t)) = k
    BY <1>6, <2>1 DEF Surjection
  <2> QED BY <1>7, <2>2
<1>9. ASSUME NEW s \in scored, NEW t \in scored
      PROVE  /\ Rank(space, cards, s) = Rank(space, cards, t) => s = t
             /\ Rank(space, cards, s) < Rank(space, cards, t) => Ahead(s, t)
  <2> HIDE DEF Before, space
  <2>1. /\ Cardinality(Before(s)) \in Nat /\ Cardinality(Before(t)) \in Nat
        /\ Rank(space, cards, s) = 1 + Cardinality(Before(s))
        /\ Rank(space, cards, t) = 1 + Cardinality(Before(t))
    BY <1>2, <1>7
  <2> QED BY <1>4, <2>1
<1> QED BY <1>8, <1>9 DEF scored

(* A ranking is the space in the order of ranks.                           *)
LEMMA RankedInOrder ==
  ASSUME NEW inv \in Inventories, NEW cards, IsFiniteSet(cards)
  PROVE  LET space == Space[inv]
             order == Ranked(space, cards)
         IN /\ DOMAIN order = DOMAIN space
            /\ \A k \in DOMAIN order : order[k] \in Range(space)
            /\ \A i, j \in DOMAIN order : i < j =>
                 \E s, t \in Scored(space, cards) :
                   order[i] = s.candidate /\ order[j] = t.candidate /\ Ahead(s, t)
<1> DEFINE space == Space[inv]
           scored == Scored(space, cards)
           order == Ranked(space, cards)
           ranked == {<<Rank(space, cards, t), t.candidate>> : t \in scored}
<1>1. order = [k \in DOMAIN space |-> (CHOOSE r \in ranked : r[1] = k)[2]]
  BY DEF Ranked, Rank
<1>2. ASSUME NEW k \in DOMAIN space
      PROVE  \E t \in scored : Rank(space, cards, t) = k /\ order[k] = t.candidate
  <2>1. \E r \in ranked : r[1] = k
    <3>1. PICK t \in scored : Rank(space, cards, t) = k
      BY RanksAreOwn
    <3>2. <<Rank(space, cards, t), t.candidate>> \in ranked
      OBVIOUS
    <3>3. <<Rank(space, cards, t), t.candidate>>[1] = k
      BY <3>1
    <3> HIDE DEF ranked
    <3> QED BY <3>2, <3>3
  <2> DEFINE found == CHOOSE r \in ranked : r[1] = k
  <2>2. found \in ranked /\ found[1] = k
    BY <2>1
  <2>3. order[k] = found[2]
    BY <1>1
  <2> HIDE DEF found, order
  <2>4. PICK t \in scored : found = <<Rank(space, cards, t), t.candidate>>
    BY <2>2
  <2> QED BY <2>2, <2>3, <2>4
<1>3. ASSUME NEW i \in DOMAIN space, NEW j \in DOMAIN space, i < j
      PROVE  \E s, t \in scored : order[i] = s.candidate /\ order[j] = t.candidate /\ Ahead(s, t)
  <2>1. PICK s \in scored : Rank(space, cards, s) = i /\ order[i] = s.candidate
    BY <1>2
  <2>2. PICK t \in scored : Rank(space, cards, t) = j /\ order[j] = t.candidate
    BY <1>2
  <2>3. Ahead(s, t)
    BY <1>3, <2>1, <2>2, RanksAreOwn
  <2> QED BY <2>1, <2>2, <2>3
<1>4. \A t \in scored : t.candidate \in Range(space)
  BY DEF Scored, Range
<1>5. DOMAIN order = DOMAIN space
  BY <1>1
<1>6. \A k \in DOMAIN order : order[k] \in Range(space)
  BY <1>2, <1>4, <1>5
<1> HIDE DEF order, scored
<1>7. \A i, j \in DOMAIN order : i < j =>
        \E s, t \in scored : order[i] = s.candidate /\ order[j] = t.candidate /\ Ahead(s, t)
  BY <1>3, <1>5
<1> QED BY <1>5, <1>6, <1>7 DEF order, scored

(* A lead over the order of ids is a lead in score.                        *)
LEMMA LeadsAreScored ==
  ASSUME NEW inv \in Inventories, NEW cards, IsFiniteSet(cards),
         NEW i \in DOMAIN Ranked(Space[inv], cards), NEW j \in DOMAIN Ranked(Space[inv], cards),
         i < j, IdBefore(Ranked(Space[inv], cards)[j], Ranked(Space[inv], cards)[i])
  PROVE  \E a, b \in DOMAIN Space[inv] :
           /\ Ranked(Space[inv], cards)[i] = Space[inv][a]
           /\ Ranked(Space[inv], cards)[j] = Space[inv][b]
           /\ Score(Space[inv], cards)[a] > Score(Space[inv], cards)[b]
<1> DEFINE space == Space[inv]
           order == Ranked(space, cards)
<1>1. PICK s \in Scored(space, cards), t \in Scored(space, cards) :
        order[i] = s.candidate /\ order[j] = t.candidate /\ Ahead(s, t)
  BY RankedInOrder
<1>2. s.candidate \in Range(space) /\ t.candidate \in Range(space)
  BY DEF Scored, Range
<1>3. ~IdBefore(s.candidate, t.candidate)
  BY <1>1, <1>2, IdsAreOrdered
<1>4. s.score > t.score
  BY <1>1, <1>3 DEF Ahead
<1>5. PICK a \in DOMAIN space : s = [candidate |-> space[a], score |-> Score(space, cards)[a]]
  BY DEF Scored
<1>6. PICK b \in DOMAIN space : t = [candidate |-> space[b], score |-> Score(space, cards)[b]]
  BY DEF Scored
<1> HIDE DEF order, space
<1>7. /\ order[i] = space[a] /\ order[j] = space[b]
      /\ Score(space, cards)[a] > Score(space, cards)[b]
  BY <1>1, <1>4, <1>5, <1>6
<1> QED BY <1>7 DEF order, space

(* What a card of the root is raised by.                                   *)
LEMMA CardsSpeak ==
  ASSUME RootIsEarned, NEW project, NEW c \in Retrieved(project), NEW candidate,
         candidate.project = project, NEW own \in BOOLEAN, own => c.target = candidate.target
  PROVE  Speaks(c.runs, candidate, own)
<1>1. c \in EarnedCards /\ c.project = project
  BY DEF Retrieved, RootIsEarned
<1>2. \A r \in c.runs : r.project = candidate.project
  BY <1>1 DEF EarnedCards
<1>3. own => \E r \in c.runs : r.target = candidate.target
  BY <1>1 DEF EarnedCards
<1>4. Sound(c.runs, WEAKNESS_CHECKS) \/ Sound(c.runs, DEFENSE_CHECKS)
  BY <1>1 DEF EarnedCards, CardType
<1>5. Cardinality({r.print : r \in c.runs}) >= 3
  BY <1>1 DEF EarnedCards, Distinct, MIN_STABLE_REPRODUCTIONS
<1> QED BY <1>2, <1>3, <1>4, <1>5 DEF Speaks

(* A lead in score is earned by a card, or is the prior of a singleton.    *)
LEMMA LeadsAreEarned ==
  ASSUME RootIsEarned, NEW inv \in Inventories,
         NEW a \in DOMAIN Space[inv], NEW b \in DOMAIN Space[inv],
         Score(Space[inv], Retrieved(inv.project))[a] > Score(Space[inv], Retrieved(inv.project))[b]
  PROVE  \/ ~Native(Space[inv]) /\ Space[inv][a].singleton /\ ~Space[inv][b].singleton
         \/ \E runs \in {c.runs : c \in Retrieved(inv.project)} :
              Speaks(runs, Space[inv][a], Native(Space[inv]))
<1> DEFINE space == Space[inv]
           cards == Retrieved(inv.project)
           matching(i) == {c \in cards : Matches(c, space[i])}
           ofFamily(i) == {c \in cards : FamilyOf(c) = space[i].family}
<1> HIDE DEF space, cards
<1>1. \A i \in DOMAIN space :
        /\ IsFiniteSet(matching(i)) /\ Cardinality(matching(i)) \in Nat
        /\ IsFiniteSet(ofFamily(i)) /\ Cardinality(ofFamily(i)) \in Nat
  <2> SUFFICES ASSUME NEW i \in DOMAIN space
               PROVE  /\ IsFiniteSet(matching(i)) /\ Cardinality(matching(i)) \in Nat
                      /\ IsFiniteSet(ofFamily(i)) /\ Cardinality(ofFamily(i)) \in Nat
    OBVIOUS
  <2>1. IsFiniteSet(cards)
    BY CardsAreFinite DEF cards
  <2>2. IsFiniteSet(matching(i)) /\ IsFiniteSet(ofFamily(i))
    BY <2>1, FS_Subset
  <2> QED BY <2>2, FS_CardinalityType
<1>2. space[a].project = inv.project /\ space[a].singleton \in BOOLEAN /\ space[b].singleton \in BOOLEAN
  BY SpaceIsList DEF space, Range
<1>3. a \in DOMAIN space /\ b \in DOMAIN space
  BY DEF space
<1>4. CASE Native(space)
  <2>1. /\ Score(space, cards)[a] = 10 + 20 * Cardinality(matching(a))
        /\ Score(space, cards)[b] = 10 + 20 * Cardinality(matching(b))
    BY <1>3, <1>4 DEF Score, NativeScore, Bonus, BASE, RCA_REUSABLE_BONUS
  <2>2. Cardinality(matching(a)) # 0
    <3> HIDE DEF matching
    <3>1. 10 + 20 * Cardinality(matching(a)) > 10 + 20 * Cardinality(matching(b))
      BY <2>1 DEF space, cards
    <3>2. Cardinality(matching(a)) \in Nat /\ Cardinality(matching(b)) \in Nat
      BY <1>1, <1>3
    <3>3. \A m, n \in Nat : 10 + 20 * m > 10 + 20 * n => m # 0
      OBVIOUS
    <3> QED BY <3>1, <3>2, <3>3
  <2>3. PICK c \in cards : Matches(c, space[a])
    BY <1>1, <1>3, <2>2, FS_EmptySet
  <2>4. c.target = space[a].target
    BY <2>3 DEF Matches
  <2>5. Speaks(c.runs, space[a], TRUE)
    BY <1>2, <2>4, CardsSpeak DEF cards
  <2>6. Native(space) = TRUE
    BY <1>4 DEF Native
  <2> QED BY <2>5, <2>6 DEF space, cards
<1>5. CASE ~Native(space)
  <2> DEFINE prior(i) == IF space[i].singleton THEN 1 ELSE 0
  <2>1. /\ Score(space, cards)[a] = prior(a) + 125 * Cardinality(ofFamily(a))
        /\ Score(space, cards)[b] = prior(b) + 125 * Cardinality(ofFamily(b))
    BY <1>3, <1>5 DEF Score, FallbackScore
  <2>2. CASE Cardinality(ofFamily(a)) = 0
    <3>1. prior(a) > prior(b) 
      <4> HIDE DEF ofFamily, prior
      <4>1. prior(a) + 125 * Cardinality(ofFamily(a)) > prior(b) + 125 * Cardinality(ofFamily(b))
        BY <2>1 DEF space, cards
      <4>2. prior(a) \in Nat /\ prior(b) \in Nat
        BY DEF prior
      <4>3. Cardinality(ofFamily(a)) \in Nat /\ Cardinality(ofFamily(b)) \in Nat
        BY <1>1, <1>3
      <4>4. \A p, q, n \in Nat : p + 125 * 0 > q + 125 * n => p > q
        OBVIOUS
      <4> QED BY <2>2, <4>1, <4>2, <4>3, <4>4
    <3>2. space[a].singleton /\ ~space[b].singleton
      BY <1>2, <3>1
    <3> QED BY <1>5, <3>2 DEF space
  <2>3. CASE Cardinality(ofFamily(a)) # 0
    <3>1. PICK c \in cards : FamilyOf(c) = space[a].family
      BY <1>1, <1>3, <2>3, FS_EmptySet
    <3>2. Speaks(c.runs, space[a], FALSE)
      BY <1>2, CardsSpeak DEF cards
    <3>3. Native(space) = FALSE
      BY <1>5 DEF Native
    <3> QED BY <3>2, <3>3 DEF space, cards
  <2> QED BY <2>2, <2>3
<1> QED BY <1>4, <1>5

(* A root of earned cards earns what it raises.                            *)
LEMMA RootEarnsRanks == RootIsEarned => RankIsEarned
<1> SUFFICES ASSUME RootIsEarned, NEW inv \in Inventories,
                    NEW i \in DOMAIN Ranked(Space[inv], Retrieved(inv.project)),
                    NEW j \in DOMAIN Ranked(Space[inv], Retrieved(inv.project)),
                    i < j,
                    IdBefore(Ranked(Space[inv], Retrieved(inv.project))[j],
                             Ranked(Space[inv], Retrieved(inv.project))[i])
             PROVE  LET order == Ranked(Space[inv], Retrieved(inv.project)) IN
                    \/ ~Native(Space[inv]) /\ order[i].singleton /\ ~order[j].singleton
                    \/ \E runs \in {c.runs : c \in Retrieved(inv.project)} :
                         Speaks(runs, order[i], Native(Space[inv]))
  BY DEF RankIsEarned
<1>1. PICK a \in DOMAIN Space[inv], b \in DOMAIN Space[inv] :
           /\ Ranked(Space[inv], Retrieved(inv.project))[i] = Space[inv][a]
           /\ Ranked(Space[inv], Retrieved(inv.project))[j] = Space[inv][b]
           /\ Score(Space[inv], Retrieved(inv.project))[a]
                > Score(Space[inv], Retrieved(inv.project))[b]
  BY CardsAreFinite, LeadsAreScored
<1>2. \/ ~Native(Space[inv]) /\ Space[inv][a].singleton /\ ~Space[inv][b].singleton
      \/ \E runs \in {c.runs : c \in Retrieved(inv.project)} :
           Speaks(runs, Space[inv][a], Native(Space[inv]))
  BY <1>1, LeadsAreEarned
<1> QED BY <1>1, <1>2

(* The first of these places is one of them.                               *)
LEMMA FirstIsOfThem ==
  ASSUME NEW order, NEW places \in SUBSET Nat, NEW c \in FirstOf(order, places)
  PROVE  \E i \in places : c = order[i]
<1>1. places # {} /\ c = order[CHOOSE i \in places : \A j \in places : i <= j]
  BY DEF FirstOf
<1>2. \E i \in places : \A j \in places : i <= j
  <2>1. PICK i \in places : \A j \in places : <<j, i>> \notin OpToRel(<, Nat)
    BY <1>1, NatLessThanWellFounded, WFMin
  <2>2. ASSUME NEW j \in places, ~(i <= j)
        PROVE  FALSE
    <3>1. j \in Nat /\ i \in Nat /\ j < i
      BY <2>2
    <3>2. <<j, i>> \in OpToRel(<, Nat)
      BY <3>1 DEF OpToRel
    <3> QED BY <2>1, <3>2
  <2> QED BY <2>2
<1> QED BY <1>1, <1>2

(* There is never more than one of what is chosen without a request.       *)
LEMMA OneIsFound ==
  ASSUME NEW order, NEW service, NEW c \in FindOracle(order, service)
  PROVE  FindOracle(order, service) = {c}
BY DEF FindOracle, Or, FirstOf

(* A candidate found for an oracle is of its service.                      *)
LEMMA FoundIsOfTheOracle ==
  ASSUME NEW inv \in Inventories, NEW service, NEW c \in FindOracle(Space[inv], service)
  PROVE  service \in {c.target, c.service}
<1> DEFINE space == Space[inv]
           matching == {i \in DOMAIN space : service \in {space[i].target, space[i].service}}
           killing == {i \in matching : space[i].family = "pod_kill"}
<1>1. matching \in SUBSET Nat /\ killing \in SUBSET Nat
  BY SpaceIsList
<1>2. c \in FirstOf(space, killing) \/ c \in FirstOf(space, matching)
  BY DEF FindOracle, Or
<1>3. \E i \in matching : c = space[i]
  BY <1>1, <1>2, FirstIsOfThem
<1> QED BY <1>3

(* A request names one candidate or none.                                  *)
LEMMA OneIsNamed ==
  ASSUME NEW inv \in Inventories, NEW request, NEW c \in Find(Space[inv], request)
  PROVE  Find(Space[inv], request) = {c}
<1> DEFINE space == Space[inv]
           Named == {d \in Range(space) : d.target = request.target /\ d.family = request.family}
<1>1. CASE request.exact
  <2>1. Find(space, request) = {d \in Named : d.place = request.place /\ d.level = request.level}
    BY <1>1 DEF Find
  <2>2. \A d, e \in Find(space, request) : d = e
    BY <2>1, SpaceIsList
  <2> QED BY <2>2
<1>2. CASE ~request.exact
  <2>1. Find(space, request) = {d \in Named : Cardinality(Named) = 1}
    BY <1>2 DEF Find
  <2>2. IsFiniteSet(Named)
    <3>1. DOMAIN space = 1 .. Len(space) /\ Len(space) \in Nat
      BY SpaceIsList
    <3>2. \A n \in Nat : IsFiniteSet(1 .. n)
      BY FS_Interval
    <3>3. IsFiniteSet(DOMAIN space)
      BY <3>1, <3>2
    <3>4. [i \in DOMAIN space |-> space[i]] \in Surjection(DOMAIN space, Range(space))
      BY DEF Surjection, Range
    <3>5. IsFiniteSet(Range(space))
      BY <3>3, <3>4, FS_Surjection
    <3> QED BY <3>5, FS_Subset
  <2>3. PICK d : Named = {d}
    <3>1. Cardinality(Named) = 1
      BY <2>1
    <3> HIDE DEF Named
    <3> QED BY <2>2, <3>1, FS_Singleton
  <2> HIDE DEF Named
  <2> QED BY <2>1, <2>3
<1> QED BY <1>1, <1>2

(* What is executed is what was selected and planned.                      *)
LEMMA ExecutionAgrees ==
  ASSUME NEW inv \in Inventories, NEW order, NEW request, NEW oracle,
         NEW c \in Executed(inv, order, request, oracle, 1)
  PROVE  /\ Selection(Space[inv], order, request, oracle) = {c}
         /\ Preferred(Space[inv], order, request, oracle) = {c}
         /\ FitsOracle(c, oracle) \/ BehindIngress(c, inv)
<1> DEFINE space == Space[inv]
           here == FindOracle(space, oracle.service)
<1>1. c \in LiveChoice(inv, order, request, oracle) /\ c \in Planned(space, order, request, oracle, 1)
  BY DEF Executed, Admitted
<1>2. /\ c \in IF request = NoRequest THEN Or(here, First(order)) ELSE Find(space, request)
      /\ here # {} \/ oracle.businessPath
      /\ request # NoRequest => FitsOracle(c, oracle) \/ BehindIngress(c, inv)
  BY <1>1 DEF LiveChoice
<1>3. c \in Preferred(space, order, request, oracle)
  <2>1. \A S : 1 .. (1 - 1) \cap S = {}
    OBVIOUS
  <2> QED BY <1>1, <2>1 DEF Planned
<1>4. CASE request = NoRequest
  <2>1. Preferred(space, order, request, oracle) = Or(ByOracle(order, oracle), First(order))
    BY <1>4 DEF Preferred, Or
  <2>2. Selection(space, order, request, oracle) = Or(ByOracle(order, oracle), First(order))
    BY <1>4 DEF Selection
  <2>3. Or(ByOracle(order, oracle), First(order)) = {c}
    <3>1. c \in ByOracle(order, oracle) => ByOracle(order, oracle) = {c}
      BY OneIsFound DEF ByOracle
    <3>2. c \in First(order) => First(order) = {c}
      BY DEF First
    <3> QED BY <1>3, <2>1, <3>1, <3>2 DEF Or
  <2>4. FitsOracle(c, oracle)
    <3>1. CASE here # {}
      <4>1. c \in here
        BY <1>2, <1>4, <3>1 DEF Or
      <4> QED BY <4>1, FoundIsOfTheOracle DEF FitsOracle
    <3> QED BY <1>2, <3>1 DEF FitsOracle
  <2> QED BY <2>1, <2>2, <2>3, <2>4
<1>5. CASE request # NoRequest
  <2>1. Find(space, request) = {c}
    BY <1>2, <1>5, OneIsNamed
  <2>2. Selection(space, order, request, oracle) = {c}
    BY <1>5, <2>1 DEF Selection
  <2>3. Preferred(space, order, request, oracle) = {c}
    BY <1>5, <2>1 DEF Preferred, Or
  <2> QED BY <1>2, <1>5, <2>2, <2>3
<1> QED BY <1>4, <1>5

(* Whatever the root went through, a candidate is ranked ahead of its place *)
(* only on three sound runs of its own project, or as a singleton           *)
(* (rank_candidates, _rca_influence, fallback_rank).                        *)
THEOREM RanksAreEarned == StoreSpec => []RankIsEarned
<1>1. RootInv => RankIsEarned
  BY RootEarnsRanks DEF RootInv
<1> QED BY <1>1, CardsInTheRootAreEarned, PTL

(* What a live run with a budget of one executes is what its selection     *)
(* record names and its plan was made for, for any inventory, request,     *)
(* oracle and root (_live_candidate, select_candidate, the evidence plan). *)
THEOREM ExecutionsAreRecorded == StoreSpec => []ExecutedIsRecorded
<1>1. ExecutedIsRecorded
  BY ExecutionAgrees DEF ExecutedIsRecorded
<1> QED BY <1>1, PTL
=============================================================================
