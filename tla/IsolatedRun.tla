----------------------------- MODULE IsolatedRun -----------------------------
(***************************************************************************)
(* One isolated live run: the call that plans, prepares, executes and      *)
(* releases, the built-in providers command by command, and a recovery     *)
(* (recover() or the reaper) that may take the lease at any time its       *)
(* operation lock is free.                                                 *)
(*                                                                         *)
(* What exists of an environment is a set of parts: a Kubernetes namespace *)
(* with all that was applied in it, or a Minikube profile's directories,   *)
(* container and kubeconfig.  A command may fail before or after it took   *)
(* effect, or be killed on its time-out and take effect later.  Claims,    *)
(* other leases and other projects are in IsolationLease.                  *)
(***************************************************************************)
EXTENDS Naturals, FiniteSets

CONSTANTS
    Modes,      \* the plan modes of the instance
    MaxFaults,  \* bound: interrupts, store errors, failing cleanup commands
    MaxDeaths   \* bound: deaths of the run and of a recovery

ASSUME IsolatedRunAssumption ==
    /\ Modes \subseteq {"adopted", "namespace", "minikube"}
    /\ MaxFaults \in Nat
    /\ MaxDeaths \in Nat

VARIABLES
    run,       \* what run_isolated_live() does next
    lease,     \* its local variable: the state of the lease it holds, or "none"
    inner,     \* the status of what it executed
    errors,    \* lifecycle["errors"] is not empty
    raising,   \* an interrupt passes through it
    life,      \* isolation-lifecycle.json
    result,    \* the status it returns
    mode,      \* the mode of the plan
    file,      \* the state in the lease file
    recorded,  \* the identities in the lease file
    there,     \* the parts of the environment that exist
    doomed,    \* the namespace is being finalized
    pending,   \* parts a killed command may still create
    stray,     \* history: parts created after their absence had been confirmed
    lock,      \* who holds the operation lock of the lease
    rel,       \* what _release_locked does next
    faults, deaths

reportVars == <<life, result>>
callVars == <<run, lease, inner, errors, raising>>
worldVars == <<there, doomed, pending, stray>>
storeVars == <<file, recorded>>
relVars == <<lock, rel>>
vars == <<callVars, reportVars, mode, storeVars, worldVars, relVars, faults, deaths>>

LEASE_STATES == {"none", "planned", "preparing", "ready", "prepare_failed", "releasing",
                 "cleanup_failed", "expired", "released"}
MinikubeParts == {"directory", "container", "kubeconfig"}
Parts == {"namespace"} \cup MinikubeParts

\* The steps of provider.prepare() and verify_ready(), inside prepare()'s try.
Preparing == {"preflight", "register", "paths", "apply", "identify", "fill", "verify"}
Releasing == {"undo", "surrender", "close"}
Over == {"returned", "raised", "dead"}
RunPC == {"plan", "admit", "claim", "enter", "handle", "bind", "execute", "finally", "report"}
         \cup Preparing \cup Releasing \cup Over

Init ==
    /\ run = "plan" /\ lease = "none" /\ inner = "environment_blocked"
    /\ errors = FALSE /\ raising = FALSE
    /\ life = [status |-> "none", cleanup |-> "none"] /\ result = "none"
    /\ mode = "none" /\ file = "none" /\ recorded = {}
    /\ there = {} /\ doomed = FALSE /\ pending = {} /\ stray = {}
    /\ lock = "none" /\ rel = "none"
    /\ faults = 0 /\ deaths = 0

Fault == faults < MaxFaults /\ faults' = faults + 1

-----------------------------------------------------------------------------
(* Planning: the strictest of what the route asks and the mechanism needs. *)

\* run_isolated_live() hands the planner no target: its memory is unbounded.
Minimum(fault) == CASE fault = "api_server_delay" -> 3
                    [] fault = "stress_memory" -> 2
                    [] OTHER -> 1

Effective(route, fault) == IF route >= Minimum(fault) THEN route ELSE Minimum(fault)

ModesOf(level) == CASE level = 1 -> {"adopted", "namespace"}
                    [] level = 2 -> {"namespace"}
                    [] level = 3 -> {"minikube"}

Plan ==
    /\ run = "plan"
    /\ \E route \in 1..3, fault \in {"api_server_delay", "stress_memory", "other"} :
          mode' \in ModesOf(Effective(route, fault)) \cap Modes
    /\ run' = "admit"
    /\ UNCHANGED <<lease, inner, errors, raising, reportVars, storeVars, worldVars, relVars,
                   faults, deaths>>

\* The plan has blockers: an early return, through the finally block.
PlanBlocked ==
    /\ run = "plan"
    /\ errors' = TRUE
    /\ result' = "environment_blocked"
    /\ run' = "finally"
    /\ UNCHANGED <<lease, inner, raising, life, mode, storeVars, worldVars, relVars, faults,
                   deaths>>

\* An exception of the listed classes reaches run_isolated_live()'s handler.
CaughtError ==
    /\ inner' = "method_invalid"
    /\ errors' = TRUE
    /\ run' = "finally"

\* No route, an active lease of the project, a taken L3 slot, a locator that
\* cannot be captured, a claim that cannot be written, a bad transform.
RunRaises ==
    /\ run \in {"plan", "admit", "claim", "bind", "execute"}
    /\ run = "bind" => lease = "ready"
    /\ CaughtError
    /\ UNCHANGED <<lease, raising, reportVars, mode, storeVars, worldVars, relVars, faults,
                   deaths>>

-----------------------------------------------------------------------------
(* manager.prepare() and the providers' prepare() and verify_ready().      *)

WriteLease ==
    /\ run = "admit"
    /\ file' = "planned"
    /\ run' = IF mode = "minikube" THEN "claim" ELSE "enter"
    /\ UNCHANGED <<lease, inner, errors, raising, reportVars, mode, recorded, worldVars,
                   relVars, faults, deaths>>

ClaimL3 ==
    /\ run = "claim"
    /\ run' = "enter"
    /\ UNCHANGED <<lease, inner, errors, raising, reportVars, mode, storeVars, worldVars,
                   relVars, faults, deaths>>

\* The lease saved is the one in memory, whatever a recovery has made of it.
EnterPreparing ==
    /\ run = "enter"
    /\ lock = "none"
    /\ lock' = "run"
    /\ file' = "preparing"
    /\ recorded' = {}
    /\ run' = "preflight"
    /\ UNCHANGED <<lease, inner, errors, raising, reportVars, mode, worldVars, rel, faults,
                   deaths>>

\* Steps inside the try block of prepare(): they change the record or the world.
Step(from, to) ==
    /\ run = from
    /\ run' = to
    /\ UNCHANGED <<lease, inner, errors, raising, reportVars, mode, relVars, faults, deaths>>

Preflight ==
    /\ Step("preflight", "register")
    /\ UNCHANGED <<storeVars, worldVars>>

\* Seeded fault: the identity is registered once the environment is there.
RegisterLater ==
    /\ Step("register", CASE mode = "adopted" -> "verify"
                          [] mode = "namespace" -> "apply"
                          [] mode = "minikube" -> "paths")
    /\ recorded' = IF mode = "minikube" THEN {"profile"} ELSE {}
    /\ UNCHANGED <<file, worldVars>>

\* The intended identity is in the lease file before anything is created; an
\* adopted namespace is recorded with its UID, for release only.
Register ==
    /\ Step("register", CASE mode = "adopted" -> "verify"
                          [] mode = "namespace" -> "apply"
                          [] mode = "minikube" -> "paths")
    /\ recorded' = CASE mode = "adopted" -> {"adopted"}
                     [] mode = "namespace" -> {"namespace"}
                     [] mode = "minikube" -> {"profile"}
    /\ UNCHANGED <<file, worldVars>>

\* The kubeconfig and the caches, to be deleted as files.
RegisterPaths ==
    /\ Step("paths", "apply")
    /\ recorded' = recorded \cup {"kubeconfig"}
    /\ UNCHANGED <<file, worldVars>>

\* kubectl apply, minikube start.
Apply ==
    /\ \/ mode = "namespace" /\ Step("apply", "identify") /\ there' = {"namespace"}
       \/ mode = "minikube" /\ Step("apply", "fill") /\ there' = MinikubeParts
    /\ UNCHANGED <<storeVars, doomed, pending, stray>>

Begun == IF mode = "namespace" THEN {{}, {"namespace"}}
         ELSE {{}, {"directory"}, {"directory", "container"}, MinikubeParts}

\* The command reports a failure after any part of its effect.
ApplyFails ==
    /\ Step("apply", "handle")
    /\ there' \in Begun
    /\ UNCHANGED <<storeVars, doomed, pending, stray>>

\* The command is killed on its time-out: what it asked for may still come.
ApplyKilled ==
    /\ Step("apply", "handle")
    /\ there' = IF mode = "namespace" THEN {} ELSE {"directory"}
    /\ pending' = IF mode = "namespace" THEN {"namespace"} ELSE {"container"}
    /\ UNCHANGED <<storeVars, doomed, stray>>

Identify ==
    /\ Step("identify", "fill")
    /\ recorded' = recorded \cup {"uid"}
    /\ UNCHANGED <<file, worldVars>>

\* The guards and the blueprint's resources, each registered, applied and read
\* back inside the namespace; or the images loaded into the cluster.
Fill ==
    /\ Step("fill", "verify")
    /\ UNCHANGED <<storeVars, worldVars>>

VerifyReady ==
    /\ run = "verify"
    /\ file' = "ready"
    /\ lease' = "ready"
    /\ lock' = "none"
    /\ run' = "bind"
    /\ UNCHANGED <<inner, errors, raising, reportVars, mode, recorded, worldVars, rel, faults,
                   deaths>>

\* A command fails, a blueprint is refused, a time-out, not Ready.
PrepareRaises ==
    /\ run \in Preparing \ {"apply"}
    /\ Step(run, "handle")
    /\ UNCHANGED <<storeVars, worldVars>>

\* The failure is recorded and the lease released, under the same lock.
Handle ==
    /\ run = "handle"
    /\ file' = IF file = "preparing" THEN "prepare_failed" ELSE file
    /\ rel' = "begin"
    /\ run' = "undo"
    /\ UNCHANGED <<lease, inner, errors, raising, reportVars, mode, recorded, worldVars, lock,
                   faults, deaths>>

\* The lease cannot be written on entry or on failure: prepare() raises.
SaveFails ==
    /\ run \in {"enter", "handle"}
    /\ Fault
    /\ CaughtError
    /\ raising' = FALSE
    /\ lock' = IF run = "handle" THEN "none" ELSE lock
    /\ UNCHANGED <<lease, reportVars, mode, storeVars, worldVars, rel, deaths>>

-----------------------------------------------------------------------------
(* _release_locked(), and who goes on when it ends.                        *)

\* It returns the lease: to prepare(), to the executor's own release, to the
\* finally block, or to a recovery.
EndRelease(state) ==
    /\ lock' = "none"
    /\ rel' = "none"
    /\ lease' = IF lock = "run" /\ run # "surrender" /\ ~(run = "undo" /\ raising)
                THEN state ELSE lease
    /\ run' = IF lock = "recovery" THEN run
              ELSE CASE run = "undo" -> IF raising THEN "finally" ELSE "bind"
                     [] run = "surrender" -> "execute"
                     [] run = "close" -> "report"
    /\ UNCHANGED <<inner, errors, raising>>

ReleaseStep(phase) ==
    /\ rel = phase
    /\ UNCHANGED <<reportVars, mode, deaths>>

ReleasedAlready ==
    /\ ReleaseStep("begin")
    /\ file = "released"
    /\ EndRelease("released")
    /\ UNCHANGED <<storeVars, worldVars, faults>>

BeginRelease ==
    /\ ReleaseStep("begin")
    /\ file # "released"
    /\ file' = "releasing"
    /\ rel' = "cleanup"
    /\ UNCHANGED <<callVars, recorded, worldVars, lock, faults>>

CleanupStep(phase) ==
    /\ ReleaseStep(phase)
    /\ UNCHANGED <<callVars, storeVars, lock>>

CleanupAdopted ==
    /\ CleanupStep("cleanup")
    /\ mode = "adopted"
    /\ rel' = "absence"
    /\ UNCHANGED <<worldVars, faults>>

\* Seeded fault: only a namespace whose UID is recorded is taken for ours.
OursByUid == {"namespace", "uid"} \subseteq recorded

\* A UID that was never recorded does not count against the namespace: its
\* labels name the lease.
Ours == "namespace" \in recorded

\* Already absent, or deleted without waiting for the finalizers.
CleanupNamespace ==
    /\ CleanupStep("cleanup")
    /\ mode = "namespace"
    /\ \/ "namespace" \notin there /\ rel' = "absence" /\ UNCHANGED doomed
       \/ "namespace" \in there /\ Ours /\ rel' = "absence" /\ doomed' = TRUE
       \/ "namespace" \in there /\ ~Ours /\ rel' = "failed" /\ UNCHANGED doomed
    /\ UNCHANGED <<there, pending, stray, faults>>

\* A Minikube profile is present if the inventory lists it as valid or its
\* container exists; one that has neither is nothing to delete.
ProfilePresent == "container" \in there

CleanupMinikube ==
    /\ CleanupStep("cleanup")
    /\ mode = "minikube"
    /\ rel' = CASE "profile" \notin recorded -> "failed"
                [] "profile" \in recorded /\ ProfilePresent -> "delete"
                [] OTHER -> "files"
    /\ UNCHANGED <<worldVars, faults>>

DeleteProfile ==
    /\ CleanupStep("delete")
    /\ there' = there \ {"container", "directory"}
    /\ rel' = "files"
    /\ UNCHANGED <<doomed, pending, stray, faults>>

\* minikube delete fails half way; the profile is looked for once more.
DeleteFails ==
    /\ CleanupStep("delete")
    /\ Fault
    /\ \E gone \in SUBSET {"container", "directory"} : there' = there \ gone
    /\ rel' \in IF "container" \in there' THEN {"failed"} ELSE {"failed", "files"}
    /\ UNCHANGED <<doomed, pending, stray>>

DeleteFiles ==
    /\ CleanupStep("files")
    /\ there' = IF "kubeconfig" \in recorded THEN there \ {"kubeconfig"} ELSE there
    /\ rel' = "absence"
    /\ UNCHANGED <<doomed, pending, stray, faults>>

\* Seeded fault: the inventory's word is enough.
AbsentFromInventory == "namespace" \notin there /\ ~ProfilePresent

\* verify_absent(): the namespace is not found; the profile is in no
\* inventory, its directories, kubeconfig and files do not exist.
Absent == there = {}

\* An adopted namespace must be there, unchanged; it is its owner's to change.
ConfirmAbsence ==
    /\ CleanupStep("absence")
    /\ mode # "adopted" => Absent
    /\ rel' = "confirmed"
    /\ UNCHANGED <<worldVars, faults>>

AbsenceDenied ==
    /\ CleanupStep("absence")
    /\ mode # "adopted" => ~Absent
    /\ rel' = "failed"
    /\ UNCHANGED <<worldVars, faults>>

\* A command of cleanup() or verify_absent() fails, before or after a deletion
\* took effect; an unknown state is not taken for absence.
CleanupBlocked ==
    /\ rel \in {"cleanup", "absence"}
    /\ CleanupStep(rel)
    /\ Fault
    /\ rel' = "failed"
    /\ doomed' \in {doomed, doomed \/ (rel = "cleanup" /\ mode = "namespace" /\ Ours
                                       /\ "namespace" \in there)}
    /\ UNCHANGED <<there, pending, stray>>

Record ==
    /\ rel \in {"confirmed", "failed"}
    /\ ReleaseStep(rel)
    /\ file' = IF rel = "confirmed" THEN "released" ELSE "cleanup_failed"
    /\ EndRelease(file')
    /\ UNCHANGED <<recorded, worldVars, faults>>

\* The store fails before or after the cleanup, or the L3 claim cannot be
\* removed once "released" is written: the release raises.
ReleaseRaises ==
    /\ \/ rel \in {"begin", "confirmed", "failed"} /\ UNCHANGED file
       \/ rel = "confirmed" /\ mode = "minikube" /\ file' = "released"
    /\ ReleaseStep(rel)
    /\ Fault
    /\ lock' = "none"
    /\ rel' = "none"
    /\ IF lock = "recovery" THEN UNCHANGED callVars
       ELSE /\ CASE run = "undo" -> CaughtError
                 [] run = "surrender" -> run' = "execute" /\ UNCHANGED <<inner, errors>>
                 [] run = "close" -> run' = "report" /\ errors' = TRUE /\ UNCHANGED inner
            /\ raising' = (raising /\ run # "undo")
            /\ UNCHANGED lease
    /\ UNCHANGED <<recorded, worldVars>>

-----------------------------------------------------------------------------
(* run_isolated_live() around it.                                          *)

\* A lease that is not ready is an early return; a ready one is bound.
Bind ==
    /\ run = "bind"
    /\ IF lease = "ready"
       THEN /\ life' = [status |-> "running", cleanup |-> "not_started"]
            /\ run' = "execute"
            /\ UNCHANGED <<errors, result>>
       ELSE /\ result' = "environment_blocked"
            /\ errors' = TRUE
            /\ run' = "finally"
            /\ UNCHANGED life
    /\ UNCHANGED <<lease, inner, raising, mode, storeVars, worldVars, relVars, faults, deaths>>

Execute ==
    /\ run = "execute"
    /\ inner' \in {"completed", "partial"}
    /\ run' = "finally"
    /\ UNCHANGED <<lease, errors, raising, reportVars, mode, storeVars, worldVars, relVars,
                   faults, deaths>>

\* The transaction runtime releases the lease itself, during the execution; it
\* refuses to for an adopted namespace.
Surrender ==
    /\ run = "execute"
    /\ mode # "adopted"
    /\ lock = "none"
    /\ lock' = "run"
    /\ rel' = "begin"
    /\ run' = "surrender"
    /\ UNCHANGED <<lease, inner, errors, raising, reportVars, mode, storeVars, worldVars, faults,
                   deaths>>

Finally ==
    /\ run = "finally"
    /\ IF lease \in {"none", "released"}
       THEN run' = "report" /\ UNCHANGED relVars
       ELSE /\ lock = "none"
            /\ lock' = "run"
            /\ rel' = "begin"
            /\ run' = "close"
    /\ UNCHANGED <<lease, inner, errors, raising, reportVars, mode, storeVars, worldVars, faults,
                   deaths>>

\* Seeded fault: the execution alone decides the word.
StatusOfExecution == IF inner = "completed" THEN "verified" ELSE inner

CleanupOk == lease \in {"none", "released"}
CleanupState == IF lease = "none" THEN "not_required" ELSE lease
Status == IF inner = "completed"
          THEN IF CleanupOk /\ ~errors THEN "verified" ELSE "partial"
          ELSE inner

\* An early return has its value already.
Report ==
    /\ run = "report"
    /\ life' = [status |-> Status, cleanup |-> CleanupState]
    /\ IF raising
       THEN run' = "raised" /\ UNCHANGED result
       ELSE /\ run' = "returned"
            /\ result' = CASE result # "none" -> result
                           [] result = "none" /\ CleanupOk -> inner
                           [] OTHER -> IF inner = "completed" THEN "partial" ELSE "failed"
    /\ UNCHANGED <<lease, inner, errors, raising, mode, storeVars, worldVars, relVars, faults,
                   deaths>>

ReportFails ==
    /\ run = "report"
    /\ Fault
    /\ run' = "raised"
    /\ UNCHANGED <<lease, inner, errors, raising, reportVars, mode, storeVars, worldVars, relVars,
                   deaths>>

\* KeyboardInterrupt: prepare() releases and raises it again, the finally block
\* runs, and where it strikes the finally block itself it ends the call.
Interrupt ==
    /\ run \notin Over
    /\ Fault
    /\ raising' = TRUE
    /\ run' = CASE run \in Preparing -> "handle"
                [] run \in {"finally", "close", "report"} -> "raised"
                [] OTHER -> "finally"
    /\ IF lock = "run" /\ run \notin Preparing
       THEN lock' = "none" /\ rel' = "none"
       ELSE UNCHANGED relVars
    /\ UNCHANGED <<lease, inner, errors, reportVars, mode, storeVars, worldVars, deaths>>

-----------------------------------------------------------------------------
(* The others: a recovery, the cluster, deaths.                            *)

\* recover(), or the reaper once expires_at has passed, which says so first.
Recover ==
    /\ lock = "none"
    /\ file \notin {"none", "released"}
    /\ lock' = "recovery"
    /\ rel' = "begin"
    /\ \/ UNCHANGED file
       \/ file \in {"planned", "preparing", "ready"} /\ file' = "expired"
    /\ UNCHANGED <<callVars, reportVars, mode, recorded, worldVars, faults, deaths>>

\* The namespace controller finishes a deletion.
Finalize ==
    /\ doomed
    /\ there' = there \ {"namespace"}
    /\ doomed' = FALSE
    /\ UNCHANGED <<callVars, reportVars, mode, storeVars, pending, stray, relVars, faults, deaths>>

\* What a killed command asked for comes into being.
Land ==
    /\ pending # {}
    /\ there' = there \cup pending
    /\ stray' = IF file = "released" \/ rel = "confirmed" THEN pending ELSE {}
    /\ pending' = {}
    /\ UNCHANGED <<callVars, reportVars, mode, storeVars, doomed, relVars, faults, deaths>>

\* The process dies; the operating system frees its lock, and the command it
\* was waiting for goes on alone.
RunDies ==
    /\ run \notin Over
    /\ deaths < MaxDeaths
    /\ deaths' = deaths + 1
    /\ run' = "dead"
    /\ IF lock = "run" THEN lock' = "none" /\ rel' = "none" ELSE UNCHANGED relVars
    /\ \/ UNCHANGED <<there, pending>>
       \/ /\ run = "apply"
          /\ there' \in Begun
          /\ pending' \in {{}, {IF mode = "namespace" THEN "namespace" ELSE "container"}}
    /\ UNCHANGED <<lease, inner, errors, raising, reportVars, mode, storeVars, doomed, stray,
                   faults>>

RecoveryDies ==
    /\ lock = "recovery"
    /\ deaths < MaxDeaths
    /\ deaths' = deaths + 1
    /\ lock' = "none"
    /\ rel' = "none"
    /\ UNCHANGED <<callVars, reportVars, mode, storeVars, worldVars, faults>>

-----------------------------------------------------------------------------
Release ==
    \/ ReleasedAlready \/ BeginRelease \/ CleanupAdopted \/ CleanupNamespace
    \/ CleanupMinikube \/ DeleteProfile \/ DeleteFails \/ DeleteFiles
    \/ ConfirmAbsence \/ AbsenceDenied \/ CleanupBlocked \/ Record \/ ReleaseRaises

Prepare ==
    \/ WriteLease \/ ClaimL3 \/ EnterPreparing \/ Preflight \/ Register \/ RegisterPaths
    \/ Apply \/ ApplyFails \/ ApplyKilled \/ Identify \/ Fill \/ VerifyReady
    \/ PrepareRaises \/ Handle \/ SaveFails

Around ==
    \/ Plan \/ PlanBlocked \/ RunRaises \/ Bind \/ Execute \/ Surrender \/ Finally
    \/ Report \/ ReportFails \/ Interrupt

Next == Release \/ Prepare \/ Around \/ Recover \/ Finalize \/ Land \/ RunDies \/ RecoveryDies

Spec == Init /\ [][Next]_vars

\* A process that does not die goes on; recovery is called again as long as the
\* lease is not released; a deleted namespace is finalized in the end.
FairSpec ==
    /\ Spec
    /\ WF_vars(Release)
    /\ WF_vars(Prepare)
    /\ WF_vars(Recover)
    /\ WF_vars(Finalize)

-----------------------------------------------------------------------------
(* Properties.                                                             *)

TypeOK ==
    /\ run \in RunPC
    /\ lease \in LEASE_STATES
    /\ inner \in {"environment_blocked", "method_invalid", "completed", "partial"}
    /\ errors \in BOOLEAN /\ raising \in BOOLEAN /\ doomed \in BOOLEAN
    /\ mode \in Modes \cup {"none"}
    /\ file \in LEASE_STATES
    /\ recorded \subseteq {"adopted", "namespace", "uid", "profile", "kubeconfig"}
    /\ there \cup pending \cup stray \subseteq Parts
    /\ lock \in {"none", "run", "recovery"}
    /\ rel \in {"none", "begin", "cleanup", "delete", "files", "absence", "confirmed", "failed"}
    /\ faults \in Nat /\ deaths \in Nat

\* Whatever exists of an environment, or may still come into being, is named
\* in the lease file, at every moment a process may die.
ResidueIsRecorded ==
    there \cup pending # {} =>
        /\ file # "none"
        /\ mode = "namespace" => "namespace" \in recorded
        /\ mode = "minikube" => {"profile", "kubeconfig"} \subseteq recorded

\* A lease is released only when nothing of its environment exists, up to what
\* a killed command creates after its absence was confirmed.
ReleasedIsAbsent ==
    file = "released" => there \subseteq stray

\* A run that says "verified", or whose result says "completed", executed to
\* the end, and its lease is released with nothing left.
VerifiedIsClean ==
    life.status = "verified" \/ result = "completed" =>
        inner = "completed" /\ file = "released" /\ there \subseteq stray

\* A lease of a namespace is released in the end, wherever the run or a
\* recovery died, was interrupted or failed.
NamespacesAreReleased ==
    (mode = "namespace" /\ file # "none") ~> (file = "released")

-----------------------------------------------------------------------------
(* Statements of docs and comments that the code does not keep (README,    *)
(* section 6).                                                             *)

\* A failed creation is deleted too: a Minikube lease is released in the end.
ProfilesAreReleased ==
    (mode = "minikube" /\ file # "none") ~> (file = "released")

\* The run always releases: where its lifecycle file says that no cleanup was
\* required, there is no lease to clean up.
NotRequiredIsTrue ==
    life.cleanup = "not_required" => file \in {"none", "released"}
=============================================================================
