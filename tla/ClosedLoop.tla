----------------------------- MODULE ClosedLoop -----------------------------
(***************************************************************************)
(* One output directory of the closed loop: run_closed_loop() of           *)
(* orchestration/engine.py with the stage artifacts and the checkpoint of  *)
(* tools/chaosatlas_contracts.py.  A dry run may be resumed as often as it *)
(* is interrupted; a live run is append-only.                              *)
(*                                                                         *)
(* A stage is written in two steps, its artifact (with the alias, a copy)  *)
(* and the checkpoint, both by an atomic replace.  The manifest, the two   *)
(* advisory artifacts and the evidence plan are written in place, so a     *)
(* process that dies while it writes one leaves it torn.                   *)
(*                                                                         *)
(* The contents of the stages are abstracted to the profile they were made *)
(* from.  Whatever a stage computes may raise.                             *)
(***************************************************************************)
EXTENDS Integers, Sequences

CONSTANTS
  Profiles,      \* versions of the project profile
  ValidProfiles, \* those that onboarding accepts
  NoProfile,     \* stands for a file that does not exist
  MaxCrashes,    \* bound: how often a process dies in this directory
  MaxFailures    \* bound: how often something raises

ASSUME LoopAssumption ==
  /\ ValidProfiles \subseteq Profiles
  /\ NoProfile \notin Profiles
  /\ MaxCrashes \in Nat /\ MaxFailures \in Nat

STAGES == <<"onboard", "inventory", "server_deployment_detection", "mapping", "retrieval",
            "hypotheses", "gate", "baseline", "execute", "observe", "classify", "rca", "learn",
            "promote_defense", "regression">>
LastStage == Len(STAGES)
Gate == 7            \* the last stage before a live run executes
NoCheckpoint == -1
Modes == {"dry-run", "live"}
SideFiles == {"project_portrait", "hypothesis_registry", "evidence_plan"}

VARIABLES
  profile,    \* the profile as it is now
  manifest,   \* run_manifest.json: mode and profile of its input snapshot
  torn,       \* the manifest was being written
  checkpoint, \* number of stages checkpoint.json lists
  artifact,   \* profile each stage's artifact was made from
  side,       \* files written in place, beside the stages
  summary,    \* status in summary.json
  pc,         \* where run_closed_loop() is, "idle" outside an invocation
  mode,       \* mode of the invocation
  completed,  \* completed: number of stages
  ready,      \* side files the invocation has written or read
  executed,   \* the live execution of the invocation is over
  executions, \* live executions in this directory
  crashes, failures

diskVars == <<manifest, torn, checkpoint, artifact, side>>
processVars == <<mode, completed, ready, executed>>
counters == <<executions, crashes, failures>>
vars == <<profile, diskVars, summary, pc, processVars, counters>>

Snapshot(m) == [mode |-> m, profile |-> profile]
NoManifest == [mode |-> "dry-run", profile |-> NoProfile]

Init ==
  /\ profile \in Profiles
  /\ manifest = NoManifest
  /\ torn = FALSE
  /\ checkpoint = NoCheckpoint
  /\ artifact = [i \in 1 .. LastStage |-> NoProfile]
  /\ side = [f \in SideFiles |-> "none"]
  /\ summary = "none"
  /\ pc = "idle"
  /\ mode = "dry-run"
  /\ completed = 0
  /\ ready = {}
  /\ executed = FALSE
  /\ executions = 0
  /\ crashes = 0
  /\ failures = 0

---------------------------------------------------------------------------
(* Beginning an invocation.                                                *)

(* Every file of an invocation comes after its manifest or is the summary. *)
DirectoryIsEmpty == manifest = NoManifest /\ ~torn /\ summary = "none"

Begin(m, stages) ==
  /\ mode' = m
  /\ completed' = stages
  /\ ready' = {}
  /\ executed' = FALSE
  /\ torn' = TRUE
  /\ pc' = "manifest"
  /\ UNCHANGED <<profile, manifest, checkpoint, artifact, side, summary, counters>>

Start(m) ==
  /\ pc = "idle" /\ DirectoryIsEmpty
  /\ Begin(m, 0)

(* Seeded fault: the profile may have changed.                             *)
SameMode(m) == ~torn /\ manifest.mode = m /\ manifest.profile # NoProfile

(* _load_or_create_context(): the manifest names the same inputs.          *)
SameInput(m) == ~torn /\ manifest = Snapshot(m)

(* Seeded fault: a live run may be resumed.                                *)
AnyMode(m) ==
  /\ SameInput(m)
  /\ checkpoint # NoCheckpoint
  /\ \A i \in 1 .. checkpoint : artifact[i] # NoProfile

(* Seeded fault: a run that has not completed a stage cannot be resumed.   *)
SomeStage(m) == AnyMode(m) /\ m = "dry-run" /\ checkpoint # 0

(* _load_or_create_context() and _validate_resume_artifacts().             *)
ResumeAllowed(m) ==
  /\ m = "dry-run"
  /\ SameInput(m)
  /\ checkpoint # NoCheckpoint
  /\ \A i \in 1 .. checkpoint : artifact[i] # NoProfile

(* Seeded fault: a resumed run begins again.                               *)
NothingCompleted == 0

Checkpointed == checkpoint

Resume(m) ==
  /\ pc = "idle" /\ ResumeAllowed(m)
  /\ Begin(m, Checkpointed)

(* A refused invocation ends with a summary of its own.                    *)
Refuse ==
  /\ pc = "idle"
  /\ ~DirectoryIsEmpty \/ \E m \in Modes : ~ResumeAllowed(m)
  /\ summary' = "method_invalid"
  /\ UNCHANGED <<profile, diskVars, pc, processVars, counters>>

WriteManifest ==
  /\ pc = "manifest"
  /\ manifest' = Snapshot(mode)
  /\ torn' = FALSE
  /\ pc' = "work"
  /\ UNCHANGED <<profile, checkpoint, artifact, side, summary, processVars, counters>>

---------------------------------------------------------------------------
(* The stages.                                                             *)

(* What an invocation has written or read before it goes on with stage i:  *)
(* the portrait and the registry follow retrieval, the evidence plan       *)
(* follows hypotheses.                                                     *)
Needed(i) ==
  {f \in SideFiles : i >= IF f = "evidence_plan" THEN 7 ELSE 6}

NextStage == completed + 1

StageIsDue ==
  /\ pc = "work" /\ completed < LastStage
  /\ Needed(NextStage) \subseteq ready
  /\ mode = "live" /\ completed >= Gate => executed

WriteArtifact ==
  /\ StageIsDue
  /\ artifact' = [artifact EXCEPT ![NextStage] = profile]
  /\ completed' = NextStage
  /\ pc' = "checkpoint"
  /\ UNCHANGED <<profile, manifest, torn, checkpoint, side, summary, mode, ready, executed, counters>>

(* The verdict of onboarding is looked at where the stage was written.     *)
WriteCheckpoint ==
  /\ pc = "checkpoint"
  /\ checkpoint' = completed
  /\ IF completed = 1 /\ profile \notin ValidProfiles
     THEN pc' = "idle" /\ summary' = "method_invalid"
     ELSE pc' = "work" /\ UNCHANGED summary
  /\ UNCHANGED <<profile, manifest, torn, artifact, side, processVars, counters>>

(* The side file that is due: those of earlier stages come first.          *)
SideIsDue(f) ==
  /\ pc = "work" /\ f \in Needed(NextStage) \ ready
  /\ f = "evidence_plan" => Needed(6) \subseteq ready

OpenSide(f) ==
  /\ SideIsDue(f) /\ side[f] = "none"
  /\ side' = [side EXCEPT ![f] = "torn"]
  /\ pc' = "side"
  /\ UNCHANGED <<profile, manifest, torn, checkpoint, artifact, summary, processVars, counters>>

(* build_evidence_plan() may come to a plan that blocks the execution.     *)
FillSide(f) ==
  /\ pc = "side" /\ side[f] = "torn"
  /\ \E content \in IF f = "evidence_plan" THEN {"whole", "blocked"} ELSE {"whole"} :
       side' = [side EXCEPT ![f] = content]
  /\ pc' = "work"
  /\ UNCHANGED <<profile, manifest, torn, checkpoint, artifact, summary, processVars, counters>>

ReadSide(f) ==
  /\ SideIsDue(f) /\ side[f] = "whole"
  /\ ready' = ready \cup {f}
  /\ UNCHANGED <<profile, diskVars, summary, pc, mode, completed, executed, counters>>

BlockedStatus == IF mode = "live" THEN "environment_blocked" ELSE "method_invalid"

PlanBlocks ==
  /\ SideIsDue("evidence_plan") /\ side["evidence_plan"] = "blocked"
  /\ summary' = BlockedStatus
  /\ pc' = "idle"
  /\ UNCHANGED <<profile, diskVars, processVars, counters>>

---------------------------------------------------------------------------
(* The live run's own steps.                                               *)

(* The oracle, the inventory, the detection, the choice of candidate, the  *)
(* preflight and the approval may each block it.                           *)
LiveBlocks ==
  /\ pc = "work" /\ mode = "live"
  /\ completed \in {1, 2, 3, Gate} /\ ~executed
  /\ summary' = "environment_blocked"
  /\ pc' = "idle"
  /\ UNCHANGED <<profile, diskVars, processVars, counters>>

Execute ==
  /\ pc = "work" /\ mode = "live" /\ completed = Gate /\ ~executed
  /\ executed' = TRUE
  /\ executions' = executions + 1
  /\ UNCHANGED <<profile, diskVars, summary, pc, mode, completed, ready, crashes, failures>>

---------------------------------------------------------------------------
(* The end of an invocation.                                               *)

(* A live run ends with the status of its execution: any but the first     *)
(* stands for one that did not complete.                                   *)
Finish ==
  /\ pc = "work" /\ completed = LastStage /\ Needed(LastStage) \subseteq ready
  /\ summary' \in IF mode = "live" THEN {"live_completed", "environment_blocked"} ELSE {"dry_run_ready"}
  /\ pc' = "idle"
  /\ UNCHANGED <<profile, diskVars, processVars, counters>>

(* Seeded fault: the handler counts the stage that raised.                 *)
StageThatRaised == completed + 1

StagesBefore == completed

(* The handler writes a checkpoint where there is none.                    *)
Abort ==
  /\ summary' = "method_invalid"
  /\ checkpoint' = IF checkpoint = NoCheckpoint THEN StagesBefore ELSE checkpoint
  /\ pc' = "idle"
  /\ UNCHANGED <<profile, manifest, torn, artifact, side, processVars, executions, crashes>>

Raise ==
  /\ pc \in {"work", "checkpoint", "side"} /\ failures < MaxFailures
  /\ failures' = failures + 1
  /\ Abort

(* A torn side file does not parse.                                        *)
ReadTorn(f) ==
  /\ SideIsDue(f) /\ side[f] = "torn"
  /\ Abort
  /\ UNCHANGED failures

Crash ==
  /\ pc # "idle" /\ crashes < MaxCrashes
  /\ crashes' = crashes + 1
  /\ pc' = "idle"
  /\ UNCHANGED <<profile, diskVars, summary, processVars, executions, failures>>

(* Somebody edits the profile between invocations.                         *)
EditProfile ==
  /\ pc = "idle"
  /\ profile' \in Profiles \ {profile}
  /\ UNCHANGED <<diskVars, summary, pc, processVars, counters>>

Work ==
  \/ WriteManifest \/ WriteArtifact \/ WriteCheckpoint
  \/ \E f \in SideFiles : OpenSide(f) \/ FillSide(f) \/ ReadSide(f) \/ ReadTorn(f)
  \/ PlanBlocks \/ LiveBlocks \/ Execute \/ Finish

Next ==
  \/ \E m \in Modes : Start(m) \/ Resume(m)
  \/ Refuse
  \/ Work
  \/ Raise \/ Crash
  \/ EditProfile

Spec == Init /\ [][Next]_vars

(* A process goes on until it ends or dies, and an operator who has the    *)
(* run's own profile again and again resumes it at last.                   *)
FairSpec == Spec /\ WF_vars(Work) /\ SF_vars(Resume("dry-run"))

---------------------------------------------------------------------------
(* Properties.                                                             *)

Statuses == {"none", "method_invalid", "environment_blocked", "dry_run_ready", "live_completed"}

(* The variables hold values of their kinds.                               *)
TypeOK ==
  /\ profile \in Profiles
  /\ manifest \in [mode : Modes, profile : Profiles \cup {NoProfile}]
  /\ torn \in BOOLEAN
  /\ checkpoint \in NoCheckpoint .. LastStage
  /\ artifact \in [1 .. LastStage -> Profiles \cup {NoProfile}]
  /\ side \in [SideFiles -> {"none", "torn", "whole", "blocked"}]
  /\ summary \in Statuses
  /\ pc \in {"idle", "manifest", "work", "checkpoint", "side"}
  /\ mode \in Modes
  /\ completed \in 0 .. LastStage
  /\ ready \subseteq SideFiles
  /\ executed \in BOOLEAN
  /\ executions \in Nat
  /\ crashes \in 0 .. MaxCrashes
  /\ failures \in 0 .. MaxFailures

(* Whatever was interrupted where: a stage the checkpoint lists has its    *)
(* artifact, so a resumed run finds what it builds on.                     *)
CheckpointIsBacked == \A i \in 1 .. checkpoint : artifact[i] # NoProfile

(* No run mixes two versions of its profile, also when the profile is      *)
(* edited between an interruption and the resumption (the input snapshot). *)
OneProfile ==
  \A i, j \in 1 .. LastStage :
    artifact[i] # NoProfile /\ artifact[j] # NoProfile => artifact[i] = artifact[j]

(* A directory sees at most one live execution, whatever is started or     *)
(* resumed in it afterwards ("live runs are append-only").                 *)
LiveIsAppendOnly == executions <= 1

(* Progress is kept: the checkpoint never falls behind, and no stage it    *)
(* lists is written again.                                                 *)
ProgressIsKept ==
  [][checkpoint' >= checkpoint /\ (artifact' # artifact => completed' > checkpoint)]_vars

Unreadable == torn \/ \E f \in SideFiles : side[f] = "torn"

(* A dry run of a valid profile that was interrupted between two writes    *)
(* can be finished by resuming it: it ends ready, or is found to have a    *)
(* blocked plan, unless a file is torn by another interruption.            *)
InterruptedRunsFinish ==
  []<>(profile = manifest.profile) =>
    ((/\ pc = "idle" /\ manifest.mode = "dry-run" /\ manifest.profile \in ValidProfiles
      /\ checkpoint # NoCheckpoint /\ ~Unreadable)
     ~> \/ summary = "dry_run_ready"
        \/ side["evidence_plan"] = "blocked"
        \/ pc = "idle" /\ Unreadable)

-----------------------------------------------------------------------------
(* Statements of docs and comments that the code does not keep (README,    *)
(* section 6).                                                             *)

(* "onboard failure: only onboard and the summary are written": nothing is *)
(* built on a profile that onboarding rejected.                            *)
InvalidProfileStops ==
  artifact[1] \notin ValidProfiles => \A i \in 2 .. LastStage : artifact[i] = NoProfile
=============================================================================
