--------------------------- MODULE IsolationLease ---------------------------
(***************************************************************************)
(* The isolation manager and its lease store: the lease files, the         *)
(* whole-machine L3 claim file, the creation lock, the per-lease operation *)
(* locks, and the processes that prepare, release and reap environments.   *)
(*                                                                         *)
(* A lease file is written by atomic replacement, so one write is one      *)
(* step, except the first: save(require_new=True) creates the file empty   *)
(* (O_EXCL) and fills it in a second step.  The locks are flock locks: the *)
(* operating system drops them when their process dies.                    *)
(*                                                                         *)
(* A lease identity is a fresh uuid; its plan (project, provider) and its  *)
(* store never change, so they are constant functions of the identity.     *)
(***************************************************************************)
EXTENDS Naturals

CONSTANTS
    Lease,      \* lease identities
    Client,     \* processes that call prepare() and release()/recover()
    Reaper,     \* processes that call reap_expired()
    Store,      \* lease store roots
    Root,       \* coordination roots: creation lock and active-l3.json
    Project,    \* project identities
    StoreOf,    \* lease -> store that holds its file
    RootOf,     \* store -> coordination root it was opened with
    ProjectOf,  \* lease -> project of its plan
    L3,         \* leases whose plan names the minikube-l3 provider
    MaxCrashes, \* bound: process deaths in one behaviour
    None

Proc == Client \cup Reaper

ASSUME LeaseAssumption ==
    /\ StoreOf \in [Lease -> Store]
    /\ RootOf \in [Store -> Root]
    /\ ProjectOf \in [Lease -> Project]
    /\ L3 \subseteq Lease
    /\ Client \cap Reaper = {}
    /\ MaxCrashes \in Nat
    /\ None \notin Lease
    /\ None \notin Proc

LEASE_STATES == {"planned", "preparing", "ready", "prepare_failed",
                 "releasing", "cleanup_failed", "expired", "released"}

ACTIVE_LEASE_STATES == LEASE_STATES \ {"released"}

\* The transition table of contracts.py.
TRANSITIONS == [
    planned        |-> {"preparing", "expired", "releasing"},
    preparing      |-> {"ready", "prepare_failed", "expired", "releasing"},
    ready          |-> {"expired", "releasing"},
    prepare_failed |-> {"releasing"},
    releasing      |-> {"released", "cleanup_failed"},
    cleanup_failed |-> {"releasing"},
    expired        |-> {"releasing"},
    released       |-> {} ]

VARIABLES
    file,        \* leases/<id>.json: "none", "empty" or the state it records
    registered,  \* the file records the environment's identity
    expired,     \* expires_at has passed
    env,         \* the namespace or Minikube profile exists
    claim,       \* active-l3.json of each root: the lease it names, or None
    creation,    \* holder of each root's creation lock
    oplock,      \* holder of each lease's operation lock
    pc,          \* what each process does next
    job,         \* the lease a process works on
    todo,        \* leases a reaper still has to visit
    crashes,
    resurrected  \* history: leases whose record prepare() overwrote although
                 \* it had left "planned"

leaseVars == <<file, registered, expired, env>>
lockVars  == <<creation, oplock>>
vars == <<file, registered, expired, env, claim, creation, oplock,
          pc, job, todo, crashes, resurrected>>

-----------------------------------------------------------------------------
Coord(l) == RootOf[StoreOf[l]]

Active(l) == file[l] \in ACTIVE_LEASE_STATES

\* Steps taken inside "with store.creation_lock()" and "with store.operation_lock()".
CreationPC == {"admit", "create", "write", "claim"}
ProvisionPC == {"provision", "registered", "created", "readied"}
ReleasePC == {"release", "cleanup", "verified", "unverified", "unclaim"}
OperationPC == ProvisionPC \cup ReleasePC
ProcessPC == {"idle", "gap", "reaping"} \cup CreationPC \cup OperationPC

Init ==
    /\ file = [l \in Lease |-> "none"]
    /\ registered = [l \in Lease |-> FALSE]
    /\ expired = [l \in Lease |-> FALSE]
    /\ env = [l \in Lease |-> FALSE]
    /\ claim = [c \in Root |-> None]
    /\ creation = [c \in Root |-> None]
    /\ oplock = [l \in Lease |-> None]
    /\ pc = [p \in Proc |-> "idle"]
    /\ job = [p \in Proc |-> None]
    /\ todo = [r \in Reaper |-> {}]
    /\ crashes = 0
    /\ resurrected = {}

Goto(p, label) == pc' = [pc EXCEPT ![p] = label]

\* Leaving "with store.creation_lock()", into the next step of prepare() or out of it.
LeaveCreation(p, label) ==
    /\ creation' = [creation EXCEPT ![Coord(job[p])] = None]
    /\ job' = IF label = "idle" THEN [job EXCEPT ![p] = None] ELSE job
    /\ Goto(p, label)

\* Leaving "with store.operation_lock()": a client's call returns, a reaper's
\* loop goes on to the next lease.
LeaveOperation(p) ==
    /\ oplock' = [oplock EXCEPT ![job[p]] = None]
    /\ job' = [job EXCEPT ![p] = None]
    /\ Goto(p, IF p \in Reaper THEN "reaping" ELSE "idle")

-----------------------------------------------------------------------------
(* prepare(): inside the creation lock                                     *)

\* The creation lock does not block: a call that finds it held raises at once,
\* which changes nothing.
RequestPrepare(p, l) ==
    /\ pc[p] = "idle"
    /\ file[l] = "none"
    /\ creation[Coord(l)] = None
    /\ creation' = [creation EXCEPT ![Coord(l)] = p]
    /\ job' = [job EXCEPT ![p] = l]
    /\ Goto(p, "admit")
    /\ UNCHANGED <<leaseVars, claim, oplock, todo, crashes, resurrected>>

\* store.list() raises on a file it cannot read, and a file caught between
\* O_EXCL and its first write is empty.
Readable(s) == \A m \in Lease : StoreOf[m] = s => file[m] # "empty"

\* Seeded fault: the project's other leases are not looked at.
AdmitUnscanned(p) ==
    LET l == job[p] IN
    /\ pc[p] = "admit"
    /\ l \in L3 => claim[Coord(l)] = None
    /\ Goto(p, "create")
    /\ UNCHANGED <<leaseVars, claim, lockVars, job, todo, crashes, resurrected>>

Admit(p) ==
    LET l == job[p] IN
    /\ pc[p] = "admit"
    /\ l \in L3 => claim[Coord(l)] = None
    /\ Readable(StoreOf[l])
    /\ \A m \in Lease :
          StoreOf[m] = StoreOf[l] /\ ProjectOf[m] = ProjectOf[l] => ~Active(m)
    /\ Goto(p, "create")
    /\ UNCHANGED <<leaseVars, claim, lockVars, job, todo, crashes, resurrected>>

\* The L3 slot is taken, the project has a lease, the store is unreadable or
\* the runtime locator cannot be captured: prepare() raises with nothing written.
Refuse(p) ==
    /\ pc[p] \in {"admit", "create"}
    /\ LeaveCreation(p, "idle")
    /\ UNCHANGED <<leaseVars, claim, oplock, todo, crashes, resurrected>>

CreateFile(p) ==
    /\ pc[p] = "create"
    /\ file' = [file EXCEPT ![job[p]] = "empty"]
    /\ Goto(p, "write")
    /\ UNCHANGED <<registered, expired, env, claim, lockVars, job, todo, crashes,
                   resurrected>>

WriteLease(p) ==
    LET l == job[p] IN
    /\ pc[p] = "write"
    /\ file' = [file EXCEPT ![l] = "planned"]
    /\ IF l \in L3
       THEN Goto(p, "claim") /\ UNCHANGED <<creation, job>>
       ELSE LeaveCreation(p, "gap")
    /\ UNCHANGED <<registered, expired, env, claim, oplock, todo, crashes, resurrected>>

\* The temporary file cannot be written: the empty file is removed again.
WriteFails(p) ==
    /\ pc[p] = "write"
    /\ file' = [file EXCEPT ![job[p]] = "none"]
    /\ LeaveCreation(p, "idle")
    /\ UNCHANGED <<registered, expired, env, claim, oplock, todo, crashes, resurrected>>

ClaimL3(p) ==
    LET l == job[p] IN
    /\ pc[p] = "claim"
    /\ claim[Coord(l)] = None
    /\ claim' = [claim EXCEPT ![Coord(l)] = l]
    /\ LeaveCreation(p, "gap")
    /\ UNCHANGED <<leaseVars, oplock, todo, crashes, resurrected>>

\* The claim file cannot be written: prepare() raises and leaves the planned
\* lease behind, outside the try block that would release it.
ClaimFails(p) ==
    /\ pc[p] = "claim"
    /\ LeaveCreation(p, "idle")
    /\ UNCHANGED <<leaseVars, claim, oplock, todo, crashes, resurrected>>

-----------------------------------------------------------------------------
(* prepare(): inside the lease's operation lock                            *)

\* The lease written is the one in memory, made before the lock was taken:
\* the file is not read again, whatever it says by now.
EnterPreparing(p) ==
    LET l == job[p] IN
    /\ pc[p] = "gap"
    /\ oplock[l] = None
    /\ oplock' = [oplock EXCEPT ![l] = p]
    /\ file' = [file EXCEPT ![l] = "preparing"]
    /\ registered' = [registered EXCEPT ![l] = FALSE]
    /\ resurrected' = IF file[l] = "planned" THEN resurrected ELSE resurrected \cup {l}
    /\ Goto(p, "provision")
    /\ UNCHANGED <<expired, env, claim, creation, job, todo, crashes>>

\* mutate("register_...") reloads the lease and saves the intended identity
\* before the provider creates anything.
RegisterEnv(p) ==
    /\ pc[p] = "provision"
    /\ registered' = [registered EXCEPT ![job[p]] = TRUE]
    /\ Goto(p, "registered")
    /\ UNCHANGED <<file, expired, env, claim, lockVars, job, todo, crashes, resurrected>>

CreateEnv(p) ==
    /\ pc[p] = "registered"
    /\ env' = [env EXCEPT ![job[p]] = TRUE]
    /\ Goto(p, "created")
    /\ UNCHANGED <<file, registered, expired, claim, lockVars, job, todo, crashes,
                   resurrected>>

BecomeReady(p) ==
    /\ pc[p] = "created"
    /\ file' = [file EXCEPT ![job[p]] = "ready"]
    /\ Goto(p, "readied")
    /\ UNCHANGED <<registered, expired, env, claim, lockVars, job, todo, crashes,
                   resurrected>>

ReturnReady(p) ==
    /\ pc[p] = "readied"
    /\ LeaveOperation(p)
    /\ UNCHANGED <<leaseVars, claim, creation, todo, crashes, resurrected>>

\* A provider error, a lease that does not become ready, or an interrupt: the
\* lease is released before prepare() ends, under the same lock.
FailPrepare(p) ==
    LET l == job[p] IN
    /\ pc[p] \in ProvisionPC
    /\ file' = IF file[l] = "preparing" THEN [file EXCEPT ![l] = "prepare_failed"] ELSE file
    /\ Goto(p, "release")
    /\ UNCHANGED <<registered, expired, env, claim, lockVars, job, todo, crashes,
                   resurrected>>

-----------------------------------------------------------------------------
(* release(), recover(), and the tail of reap_expired(): _release_locked   *)

RequestRelease(p, l) ==
    /\ pc[p] = "idle"
    /\ file[l] \in LEASE_STATES
    /\ oplock[l] = None
    /\ oplock' = [oplock EXCEPT ![l] = p]
    /\ job' = [job EXCEPT ![p] = l]
    /\ Goto(p, "release")
    /\ UNCHANGED <<leaseVars, claim, creation, todo, crashes, resurrected>>

BeginRelease(p) ==
    LET l == job[p] IN
    /\ pc[p] = "release"
    /\ file[l] # "released"
    /\ file' = [file EXCEPT ![l] = "releasing"]
    /\ Goto(p, "cleanup")
    /\ UNCHANGED <<registered, expired, env, claim, lockVars, job, todo, crashes,
                   resurrected>>

\* Releasing a released lease again only retries the removal of its claim.
SkipReleased(p) ==
    LET l == job[p] IN
    /\ pc[p] = "release"
    /\ file[l] = "released"
    /\ IF l \in L3
       THEN Goto(p, "unclaim") /\ UNCHANGED <<oplock, job>>
       ELSE LeaveOperation(p)
    /\ UNCHANGED <<leaseVars, claim, creation, todo, crashes, resurrected>>

\* The Minikube provider cleans nothing whose profile the lease does not
\* record; the Kubernetes provider takes an absent namespace for cleaned.
Cleanable(l) == registered[l] \/ (l \notin L3 /\ ~env[l])

CleanupSucceeds(p) ==
    LET l == job[p] IN
    /\ pc[p] = "cleanup"
    /\ Cleanable(l)
    /\ env' = [env EXCEPT ![l] = FALSE]
    /\ Goto(p, "verified")
    /\ UNCHANGED <<file, registered, expired, claim, lockVars, job, todo, crashes,
                   resurrected>>

\* Blocked, raised, or the deletion went through and absence was not confirmed.
CleanupFails(p) ==
    LET l == job[p] IN
    /\ pc[p] = "cleanup"
    /\ \/ UNCHANGED env
       \/ Cleanable(l) /\ env' = [env EXCEPT ![l] = FALSE]
    /\ Goto(p, "unverified")
    /\ UNCHANGED <<file, registered, expired, claim, lockVars, job, todo, crashes,
                   resurrected>>

\* Seeded fault: cleanup is believed without the proof of absence.
RecordReleasedUnverified(p) ==
    LET l == job[p] IN
    /\ pc[p] \in {"verified", "unverified"}
    /\ file' = [file EXCEPT ![l] = "released"]
    /\ IF l \in L3
       THEN Goto(p, "unclaim") /\ UNCHANGED <<oplock, job>>
       ELSE LeaveOperation(p)
    /\ UNCHANGED <<registered, expired, env, claim, creation, todo, crashes, resurrected>>

RecordReleased(p) ==
    LET l == job[p] IN
    /\ pc[p] = "verified"
    /\ file' = [file EXCEPT ![l] = "released"]
    /\ IF l \in L3
       THEN Goto(p, "unclaim") /\ UNCHANGED <<oplock, job>>
       ELSE LeaveOperation(p)
    /\ UNCHANGED <<registered, expired, env, claim, creation, todo, crashes, resurrected>>

RecordFailed(p) ==
    /\ pc[p] = "unverified"
    /\ file' = [file EXCEPT ![job[p]] = "cleanup_failed"]
    /\ LeaveOperation(p)
    /\ UNCHANGED <<registered, expired, env, claim, creation, todo, crashes, resurrected>>

\* Seeded fault: the claim is unlinked without a look at the lease it names.
ReleaseAnyClaim(p) ==
    /\ pc[p] = "unclaim"
    /\ claim' = [claim EXCEPT ![Coord(job[p])] = None]
    /\ LeaveOperation(p)
    /\ UNCHANGED <<leaseVars, creation, todo, crashes, resurrected>>

\* release_l3_claim() takes no creation lock; it removes only the claim that
\* names this lease, and an absent claim is fine.
ReleaseClaim(p) ==
    LET l == job[p] IN
    /\ pc[p] = "unclaim"
    /\ claim[Coord(l)] \in {l, None}
    /\ claim' = [claim EXCEPT ![Coord(l)] = None]
    /\ LeaveOperation(p)
    /\ UNCHANGED <<leaseVars, creation, todo, crashes, resurrected>>

\* "refusing to release another isolation store's L3 claim": a RuntimeError,
\* which also ends a reaper's whole pass.
RefuseForeignClaim(p) ==
    LET l == job[p] IN
    /\ pc[p] = "unclaim"
    /\ claim[Coord(l)] \notin {l, None}
    /\ oplock' = [oplock EXCEPT ![l] = None]
    /\ job' = [job EXCEPT ![p] = None]
    /\ todo' = IF p \in Reaper THEN [todo EXCEPT ![p] = {}] ELSE todo
    /\ Goto(p, "idle")
    /\ UNCHANGED <<leaseVars, claim, creation, crashes, resurrected>>

-----------------------------------------------------------------------------
(* reap_expired()                                                          *)

Expire(l) ==
    /\ Active(l)
    /\ ~expired[l]
    /\ expired' = [expired EXCEPT ![l] = TRUE]
    /\ UNCHANGED <<file, registered, env, claim, lockVars, pc, job, todo, crashes,
                   resurrected>>

\* Seeded fault: a lease whose cleanup failed once is not listed again.
ReapListOnce(r, s) ==
    LET due == {l \in Lease : /\ StoreOf[l] = s /\ Active(l) /\ expired[l]
                              /\ file[l] # "cleanup_failed"} IN
    /\ pc[r] = "idle"
    /\ Readable(s)
    /\ due # {}
    /\ todo' = [todo EXCEPT ![r] = due]
    /\ Goto(r, "reaping")
    /\ UNCHANGED <<leaseVars, claim, lockVars, job, crashes, resurrected>>

\* store.list() is taken before any lock: the pass works on this snapshot.
ReapList(r, s) ==
    LET due == {l \in Lease : StoreOf[l] = s /\ Active(l) /\ expired[l]} IN
    /\ pc[r] = "idle"
    /\ Readable(s)
    /\ due # {}
    /\ todo' = [todo EXCEPT ![r] = due]
    /\ Goto(r, "reaping")
    /\ UNCHANGED <<leaseVars, claim, lockVars, job, crashes, resurrected>>

\* Somebody works on the lease: the non-blocking lock refuses, on to the next.
ReapSkip(r, l) ==
    /\ pc[r] = "reaping"
    /\ l \in todo[r]
    /\ oplock[l] # None
    /\ todo' = [todo EXCEPT ![r] = @ \ {l}]
    /\ UNCHANGED <<leaseVars, claim, lockVars, pc, job, crashes, resurrected>>

\* Seeded fault: the state is the listed one, not read again under the lock.
ReapTakeListed(r, l) ==
    /\ pc[r] = "reaping"
    /\ l \in todo[r]
    /\ oplock[l] = None
    /\ oplock' = [oplock EXCEPT ![l] = r]
    /\ file' = [file EXCEPT ![l] = "expired"]
    /\ todo' = [todo EXCEPT ![r] = @ \ {l}]
    /\ job' = [job EXCEPT ![r] = l]
    /\ Goto(r, "release")
    /\ UNCHANGED <<registered, expired, env, claim, creation, crashes, resurrected>>

\* The lease is read again under its lock.
ReapTake(r, l) ==
    /\ pc[r] = "reaping"
    /\ l \in todo[r]
    /\ oplock[l] = None
    /\ file[l] # "released"
    /\ oplock' = [oplock EXCEPT ![l] = r]
    /\ file' = IF file[l] \in {"expired", "releasing", "cleanup_failed", "prepare_failed"}
               THEN file
               ELSE [file EXCEPT ![l] = "expired"]
    /\ todo' = [todo EXCEPT ![r] = @ \ {l}]
    /\ job' = [job EXCEPT ![r] = l]
    /\ Goto(r, "release")
    /\ UNCHANGED <<registered, expired, env, claim, creation, crashes, resurrected>>

\* The lease was released since the listing: "released->expired" is an invalid
\* transition, and the ValueError ends the pass with the other leases unvisited.
ReapAbort(r, l) ==
    /\ pc[r] = "reaping"
    /\ l \in todo[r]
    /\ oplock[l] = None
    /\ file[l] = "released"
    /\ todo' = [todo EXCEPT ![r] = {}]
    /\ Goto(r, "idle")
    /\ UNCHANGED <<leaseVars, claim, lockVars, job, crashes, resurrected>>

ReapDone(r) ==
    /\ pc[r] = "reaping"
    /\ todo[r] = {}
    /\ Goto(r, "idle")
    /\ UNCHANGED <<leaseVars, claim, lockVars, job, todo, crashes, resurrected>>

-----------------------------------------------------------------------------
\* A process dies between two steps, or a file cannot be read or written and
\* the error ends its call.  Its locks go, its memory goes, every file and
\* every environment stays.
Crash(p) ==
    /\ pc[p] # "idle"
    /\ crashes < MaxCrashes
    /\ crashes' = crashes + 1
    /\ creation' = [c \in Root |-> IF creation[c] = p THEN None ELSE creation[c]]
    /\ oplock' = [l \in Lease |-> IF oplock[l] = p THEN None ELSE oplock[l]]
    /\ Goto(p, "idle")
    /\ job' = [job EXCEPT ![p] = None]
    /\ todo' = IF p \in Reaper THEN [todo EXCEPT ![p] = {}] ELSE todo
    /\ UNCHANGED <<leaseVars, claim, resurrected>>

\* What a running call does next, once it has started.
PrepareStep(p) ==
    \/ Admit(p) \/ Refuse(p) \/ CreateFile(p) \/ WriteLease(p) \/ WriteFails(p)
    \/ ClaimL3(p) \/ ClaimFails(p) \/ EnterPreparing(p) \/ RegisterEnv(p)
    \/ CreateEnv(p) \/ BecomeReady(p) \/ ReturnReady(p) \/ FailPrepare(p)

ReleaseStep(p) ==
    \/ BeginRelease(p) \/ SkipReleased(p) \/ CleanupSucceeds(p) \/ CleanupFails(p)
    \/ RecordReleased(p) \/ RecordFailed(p) \/ ReleaseClaim(p) \/ RefuseForeignClaim(p)

ReapStep(r) ==
    \/ \E l \in Lease : ReapSkip(r, l) \/ ReapTake(r, l) \/ ReapAbort(r, l)
    \/ ReapDone(r)

Next ==
    \/ \E p \in Client :
          \/ \E l \in Lease : RequestPrepare(p, l) \/ RequestRelease(p, l)
          \/ PrepareStep(p)
    \/ \E p \in Proc : ReleaseStep(p) \/ Crash(p)
    \/ \E r \in Reaper : ReapStep(r) \/ \E s \in Store : ReapList(r, s)
    \/ \E l \in Lease : Expire(l)

Spec == Init /\ [][Next]_vars

\* A call that runs goes on, the reaper is scheduled, and a provider that can
\* clean a lease does not fail for it for ever.  Nobody has to call prepare()
\* or release(), and a lease has to expire only because time passes.
CleanupOf(l) == \E p \in Proc : job[p] = l /\ CleanupSucceeds(p)

Fairness ==
    /\ \A p \in Client : WF_vars(PrepareStep(p))
    /\ \A p \in Proc : WF_vars(ReleaseStep(p))
    /\ \A r \in Reaper : WF_vars(ReapStep(r))
    /\ \A r \in Reaper, s \in Store : SF_vars(ReapList(r, s))
    /\ \A l \in Lease : SF_vars(CleanupOf(l))
    /\ \A l \in Lease : WF_vars(Expire(l))

FairSpec == Spec /\ Fairness
-----------------------------------------------------------------------------
(* Properties                                                              *)

\* The types of the variables.
TypeOK ==
    /\ file \in [Lease -> {"none", "empty"} \cup LEASE_STATES]
    /\ registered \in [Lease -> BOOLEAN]
    /\ expired \in [Lease -> BOOLEAN]
    /\ env \in [Lease -> BOOLEAN]
    /\ claim \in [Root -> Lease \cup {None}]
    /\ creation \in [Root -> Client \cup {None}]
    /\ oplock \in [Lease -> Proc \cup {None}]
    /\ pc \in [Proc -> ProcessPC]
    /\ job \in [Proc -> Lease \cup {None}]
    /\ todo \in [Reaper -> SUBSET Lease]
    /\ crashes \in 0..MaxCrashes
    /\ resurrected \subseteq Lease

\* A project has at most one active lease in a store, whatever prepare(),
\* release(), reap_expired() and crashes do, among the leases prepare() did not
\* write back after they had left "planned" (those are ProjectHasOneLease's).
ProjectExclusive ==
    \A a, b \in Lease \ resurrected :
        /\ Active(a) /\ Active(b)
        /\ StoreOf[a] = StoreOf[b] /\ ProjectOf[a] = ProjectOf[b]
        => a = b

\* A Minikube environment exists only while its lease owns the L3 slot of its
\* coordination root, so two of them never exist together under one root.
L3EnvHoldsClaim ==
    \A l \in L3 : env[l] => claim[Coord(l)] = l

\* No environment exists that its lease file does not record: it is registered
\* before it is created, and the lease stays active until it is gone.
EnvIsTracked ==
    \A l \in Lease : env[l] => registered[l] /\ Active(l) /\ file[l] # "planned"

\* Unless a process died, a released lease gives its L3 slot back: nobody else
\* can be left waiting for a slot nothing uses.
ReleasedLeaseFreesClaim ==
    \A l \in L3 :
        claim[Coord(l)] = l /\ file[l] = "released" /\ crashes = 0
        => \E p \in Proc : job[p] = l /\ pc[p] \in {"release", "unclaim"}

\* Every state written to a lease file follows TRANSITIONS from the state the
\* file holds, unless prepare() writes back a stale lease.  transition_lease
\* raises on anything else; this is why no other action models that error.
LegalWrite(l) ==
    \/ <<file[l], file'[l]>> \in {<<"none", "empty">>, <<"empty", "planned">>,
                                  <<"empty", "none">>}
    \/ file[l] \in LEASE_STATES /\ file'[l] \in TRANSITIONS[file[l]]

LegalWrites ==
    [][\A l \in Lease : file'[l] # file[l] => LegalWrite(l) \/ l \in resurrected']_vars

\* What periodic reaping cannot repair: an empty lease file stops every listing
\* of its store, and an L3 lease without a recorded profile cannot be cleaned.
Unrecoverable(l) ==
    \/ ~Readable(StoreOf[l])
    \/ l \in L3 /\ ~registered[l]

\* A lease that stays active after its TTL is one of those: every other expired
\* lease is released by reap_expired(), after any number of failed cleanups.
ExpiredReclaimed ==
    \A l \in Lease :
        <>[](Active(l) /\ expired[l]) => <>[]Unrecoverable(l)

-----------------------------------------------------------------------------
(* What holds between the steps of a call: the inductive invariant         *)

PreparePC == CreationPC \cup {"gap"} \cup ProvisionPC

\* A process inside a lock holds it, for the lease it works on.
LocksOfStep ==
    \A p \in Proc :
        /\ pc[p] \in PreparePC => p \in Client
        /\ pc[p] \in PreparePC \cup ReleasePC => job[p] \in Lease
        /\ pc[p] \in CreationPC => creation[Coord(job[p])] = p
        /\ pc[p] \in OperationPC => oplock[job[p]] = p

\* No two prepare() calls work on one lease, from its creation to its end.
OnePreparer ==
    \A p, q \in Client :
        p # q /\ pc[p] \in PreparePC /\ pc[q] \in PreparePC => job[p] # job[q]

\* What the lease file says at each step.
FileOfStep ==
    \A p \in Proc :
        /\ pc[p] \in {"admit", "create"} => file[job[p]] = "none"
        /\ pc[p] = "write" => file[job[p]] = "empty"
        /\ pc[p] \in {"claim", "gap", "release"} => file[job[p]] \in LEASE_STATES
        /\ pc[p] \in {"provision", "registered", "created"} => file[job[p]] = "preparing"
        /\ pc[p] = "readied" => file[job[p]] = "ready"
        /\ pc[p] = "claim" => job[p] \in L3
        /\ pc[p] \in {"cleanup", "verified", "unverified"} => file[job[p]] = "releasing"
        /\ pc[p] = "unclaim" => file[job[p]] = "released" /\ job[p] \in L3

\* Whether there is an environment, and whether it is registered, at each step.
EnvOfStep ==
    \A p \in Proc :
        /\ pc[p] \in {"claim", "gap", "provision", "registered", "verified"} => ~env[job[p]]
        /\ pc[p] \in {"registered", "created", "readied"} => registered[job[p]]

\* An L3 lease whose prepare() runs cannot lose its claim: nothing is
\* registered before provisioning, so no release can be verified.
ClaimOfStep ==
    \A p \in Proc : job[p] \in L3 =>
        /\ pc[p] \in {"claim", "gap"} => ~registered[job[p]] /\ file[job[p]] # "released"
        /\ pc[p] \in {"gap"} \cup ProvisionPC => claim[Coord(job[p])] = job[p]
        /\ pc[p] = "verified" => registered[job[p]]

\* The scan for the project's leases is still true when the lease is written.
ScanOfStep ==
    \A p \in Proc, m \in Lease \ resurrected :
        pc[p] \in {"create", "write"} /\ StoreOf[m] = StoreOf[job[p]]
        /\ ProjectOf[m] = ProjectOf[job[p]] => ~Active(m)

\* A lease without a record has no registered environment, and a listed one
\* has a record.
RecordsKept ==
    /\ \A l \in Lease : file[l] \in {"none", "empty"} => ~registered[l]
    /\ \A r \in Reaper : \A l \in todo[r] : file[l] \in LEASE_STATES

\* At every step a call holds its locks, its lease file, environment and claim
\* are as the step expects, and the scan it was admitted on still holds.
StepInv ==
    /\ LocksOfStep
    /\ OnePreparer
    /\ FileOfStep
    /\ EnvOfStep
    /\ ClaimOfStep
    /\ ScanOfStep
    /\ RecordsKept

-----------------------------------------------------------------------------
(* Promises of the design document that the code does not keep             *)

\* "A project has only one active lease": of all its leases, those included
\* that prepare() wrote back from memory after they had left "planned".
ProjectHasOneLease ==
    \A a, b \in Lease :
        /\ Active(a) /\ Active(b)
        /\ StoreOf[a] = StoreOf[b] /\ ProjectOf[a] = ProjectOf[b]
        => a = b

\* "After an interruption, reap-expired goes on from the lease": in a store that
\* can be read, an expired lease is released sooner or later.
InterruptedIsReaped ==
    \A l \in Lease :
        (Active(l) /\ expired[l]) ~> (file[l] = "released" \/ ~Readable(StoreOf[l]))
=============================================================================
