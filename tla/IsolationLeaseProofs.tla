------------------------ MODULE IsolationLeaseProofs ------------------------
(***************************************************************************)
(* Theorems about the isolation manager and its lease store, for any       *)
(* number of leases, processes, stores, projects and crashes.              *)
(*                                                                         *)
(* No property is inductive alone: that an environment is tracked depends  *)
(* on what the lease file says at the step its creator has reached, this   *)
(* on the operation lock, and the scan for a project's other leases on the *)
(* creation lock.  IInv is their conjunction with StepInv; every action    *)
(* is shown to keep it, and each property follows.                         *)
(*                                                                         *)
(* On it rests the refinement: every step of the manager is a step of      *)
(* L3Slot or leaves it alone, for the environment is built by a process    *)
(* whose lease still owns the slot, and an L3 lease cannot be released in  *)
(* the gap between prepare()'s locks.                                      *)
(***************************************************************************)
EXTENDS IsolationRefinement, TLAPS

\* The inductive invariant: the types, what holds at each step of a call, and
\* the safety properties themselves.
IInv ==
    /\ TypeOK
    /\ StepInv
    /\ EnvIsTracked
    /\ ProjectExclusive
    /\ L3EnvHoldsClaim
    /\ ReleasedLeaseFreesClaim

\* Membership of the lease states, so that no later proof expands the sets.
LEMMA LeaseStates ==
    /\ "planned" \in LEASE_STATES /\ "preparing" \in LEASE_STATES
    /\ "ready" \in LEASE_STATES /\ "prepare_failed" \in LEASE_STATES
    /\ "releasing" \in LEASE_STATES /\ "cleanup_failed" \in LEASE_STATES
    /\ "expired" \in LEASE_STATES /\ "released" \in LEASE_STATES
    /\ "none" \notin LEASE_STATES /\ "empty" \notin LEASE_STATES
    /\ \A f : f \in ACTIVE_LEASE_STATES <=> f \in LEASE_STATES /\ f # "released"
  BY DEF LEASE_STATES, ACTIVE_LEASE_STATES

-----------------------------------------------------------------------------
(* Every action keeps IInv                                                 *)

USE LeaseAssumption, LeaseStates
USE DEF ProcessPC, PreparePC, CreationPC, ProvisionPC, OperationPC,
    ReleasePC, Proc, leaseVars, lockVars, Goto, Coord, Active, LeaveCreation,
    LeaveOperation, IInv, StepInv, TypeOK, LocksOfStep, OnePreparer, FileOfStep,
    EnvOfStep, ClaimOfStep, ScanOfStep, RecordsKept, EnvIsTracked,
    ProjectExclusive, L3EnvHoldsClaim, ReleasedLeaseFreesClaim

\* prepare() inside the creation lock: the lock keeps the scan of the project's
\* leases true until the lease is written, and the L3 slot free until it is claimed.
LEMMA AdmissionSteps ==
  ASSUME NEW p \in Client, IInv,
         Admit(p) \/ Refuse(p) \/ CreateFile(p) \/ ClaimL3(p) \/ ClaimFails(p)
  PROVE  IInv'
<1>1. CASE Admit(p)
  BY <1>1 DEF Admit, Readable
<1>2. CASE Refuse(p)
  BY <1>2 DEF Refuse
<1>3. CASE CreateFile(p)
  BY <1>3 DEF CreateFile
<1>4. CASE ClaimL3(p)
  BY <1>4 DEF ClaimL3
<1>5. CASE ClaimFails(p)
  BY <1>5 DEF ClaimFails
<1> HIDE DEF IInv
<1> QED
  BY <1>1, <1>2, <1>3, <1>4, <1>5

\* Removing the empty file again restores what held before it was created.
LEMMA WriteFailsStep ==
  ASSUME NEW p \in Client, IInv, WriteFails(p)
  PROVE  IInv'
<1>1. /\ pc[p] = "write" /\ pc' = [pc EXCEPT ![p] = "idle"]
      /\ job[p] \in Lease /\ job' = [job EXCEPT ![p] = None]
      /\ file' = [file EXCEPT ![job[p]] = "none"]
      /\ creation' = [creation EXCEPT ![Coord(job[p])] = None]
      /\ UNCHANGED <<registered, expired, env, claim, oplock, todo, crashes, resurrected>>
  BY DEF WriteFails
<1> QED
  BY <1>1

\* The lease becomes active: no other lease of the project is, by the scan that
\* still holds.  An L3 lease keeps the creation lock for its claim.
LEMMA WriteLeaseStep ==
  ASSUME NEW p \in Client, IInv, WriteLease(p)
  PROVE  IInv'
<1>1. CASE job[p] \in L3
  BY <1>1 DEF WriteLease
<1>2. CASE job[p] \notin L3
  <2>1. /\ pc[p] = "write" /\ pc' = [pc EXCEPT ![p] = "gap"]
        /\ job[p] \in Lease /\ job' = job
        /\ file' = [file EXCEPT ![job[p]] = "planned"]
        /\ creation' = [creation EXCEPT ![Coord(job[p])] = None]
        /\ UNCHANGED <<registered, expired, env, claim, oplock, todo, crashes, resurrected>>
    BY <1>2 DEF WriteLease
  <2>2. TypeOK' /\ LocksOfStep' /\ OnePreparer'
    BY <1>2, <2>1
  <2>3. FileOfStep' /\ EnvOfStep' /\ ClaimOfStep' /\ RecordsKept'
    BY <1>2, <2>1
  <2>4. ScanOfStep'
    BY <1>2, <2>1
  <2>5. ProjectExclusive'
    BY <1>2, <2>1
  <2>6. EnvIsTracked' /\ L3EnvHoldsClaim'
    BY <1>2, <2>1
  <2>7. ReleasedLeaseFreesClaim'
    BY <1>2, <2>1
  <2> QED
    BY <2>2, <2>3, <2>4, <2>5, <2>6, <2>7
<1> QED
  BY <1>1, <1>2

\* prepare() inside the operation lock.  Overwriting the lease is harmless to the
\* environment because none exists in the gap, and to the claim because an
\* unregistered L3 lease cannot have been released there.
LEMMA ProvisionSteps ==
  ASSUME NEW p \in Client, IInv,
         EnterPreparing(p) \/ RegisterEnv(p) \/ CreateEnv(p) \/ BecomeReady(p) \/
         ReturnReady(p) \/ FailPrepare(p)
  PROVE  IInv'
<1>1. CASE EnterPreparing(p)
  BY <1>1 DEF EnterPreparing
<1>2. CASE RegisterEnv(p)
  BY <1>2 DEF RegisterEnv
<1>3. CASE CreateEnv(p)
  BY <1>3 DEF CreateEnv
<1>4. CASE BecomeReady(p)
  BY <1>4 DEF BecomeReady
<1>5. CASE ReturnReady(p)
  BY <1>5 DEF ReturnReady
<1>6. CASE FailPrepare(p)
  BY <1>6 DEF FailPrepare
<1> HIDE DEF IInv
<1> QED
  BY <1>1, <1>2, <1>3, <1>4, <1>5, <1>6

\* release(), but for the steps below: they write to a lease whose operation lock
\* the process holds, and neither set up an environment nor take a claim.
LEMMA ReleaseSteps ==
  ASSUME NEW p \in Proc, IInv,
         BeginRelease(p) \/ CleanupSucceeds(p) \/ RecordFailed(p) \/
         RefuseForeignClaim(p)
  PROVE  IInv'
<1>1. CASE BeginRelease(p)
  BY <1>1 DEF BeginRelease
<1>2. CASE CleanupSucceeds(p)
  BY <1>2 DEF CleanupSucceeds, Cleanable
<1>3. CASE RecordFailed(p)
  BY <1>3 DEF RecordFailed
<1>4. CASE RefuseForeignClaim(p)
  BY <1>4 DEF RefuseForeignClaim
<1> HIDE DEF IInv
<1> QED
  BY <1>1, <1>2, <1>3, <1>4

\* Releasing a released lease again changes no lease file.
LEMMA SkipReleasedStep ==
  ASSUME NEW p \in Proc, IInv, SkipReleased(p)
  PROVE  IInv'
<1>1. CASE job[p] \in L3
  BY <1>1 DEF SkipReleased
<1>2. CASE job[p] \notin L3
  <2>1. /\ pc[p] = "release"
        /\ pc' = [pc EXCEPT ![p] = IF p \in Reaper THEN "reaping" ELSE "idle"]
        /\ job[p] \in Lease /\ job' = [job EXCEPT ![p] = None]
        /\ oplock' = [oplock EXCEPT ![job[p]] = None]
        /\ UNCHANGED <<leaseVars, claim, creation, todo, crashes, resurrected>>
    BY <1>2 DEF SkipReleased
  <2> QED
    BY <1>2, <2>1
<1> QED
  BY <1>1, <1>2

\* A failed cleanup may or may not have removed the environment.
LEMMA CleanupFailsStep ==
  ASSUME NEW p \in Proc, IInv, CleanupFails(p)
  PROVE  IInv'
<1>1. CASE UNCHANGED env
  BY <1>1 DEF CleanupFails
<1>2. CASE Cleanable(job[p]) /\ env' = [env EXCEPT ![job[p]] = FALSE]
  BY <1>2 DEF CleanupFails
<1> QED
  BY <1>1, <1>2 DEF CleanupFails

\* "released" is recorded only without an environment, and by a process that
\* goes on to give an L3 lease's slot back.
LEMMA RecordReleasedStep ==
  ASSUME NEW p \in Proc, IInv, RecordReleased(p)
  PROVE  IInv'
<1>1. TypeOK'
  <2>1. CASE job[p] \in L3
    BY <2>1 DEF RecordReleased
  <2>2. CASE job[p] \notin L3
    BY <2>2 DEF RecordReleased
  <2> QED
    BY <2>1, <2>2
<1>2. LocksOfStep' /\ OnePreparer'
  BY DEF RecordReleased
<1>3. FileOfStep'
  BY DEF RecordReleased
<1>4. EnvOfStep' /\ RecordsKept'
  BY DEF RecordReleased
<1>5. ClaimOfStep' /\ ScanOfStep'
  BY DEF RecordReleased
<1>6. EnvIsTracked' /\ ProjectExclusive' /\ L3EnvHoldsClaim'
  BY DEF RecordReleased
<1>7. ASSUME NEW l \in L3, claim'[Coord(l)] = l, file'[l] = "released", crashes' = 0
      PROVE  \E q \in Proc : job'[q] = l /\ pc'[q] \in {"release", "unclaim"}
  <2>1. CASE l = job[p]
    BY <1>7, <2>1 DEF RecordReleased
  <2>2. CASE l # job[p]
    <3>1. PICK q \in Proc : job[q] = l /\ pc[q] \in {"release", "unclaim"}
      BY <1>7, <2>2 DEF RecordReleased
    <3> QED
      BY <2>2, <3>1 DEF RecordReleased
  <2> QED
    BY <2>1, <2>2
<1>8. ReleasedLeaseFreesClaim'
  BY <1>7 DEF RecordReleased
<1> QED
  BY <1>1, <1>2, <1>3, <1>4, <1>5, <1>6, <1>8

\* The claim removed is the released lease's own: no other lease of the root
\* holds it, and this one has no environment and no prepare() under way.
LEMMA ReleaseClaimStep ==
  ASSUME NEW p \in Proc, IInv, ReleaseClaim(p)
  PROVE  IInv'
<1>1. TypeOK' /\ StepInv' /\ EnvIsTracked' /\ ProjectExclusive' /\ L3EnvHoldsClaim'
  BY DEF ReleaseClaim
<1>2. ASSUME NEW l \in L3, claim'[Coord(l)] = l, file'[l] = "released", crashes' = 0
      PROVE  \E q \in Proc : job'[q] = l /\ pc'[q] \in {"release", "unclaim"}
  <2>1. job[p] # l /\ claim[Coord(l)] = l
    BY <1>2 DEF ReleaseClaim
  <2>2. PICK q \in Proc : job[q] = l /\ pc[q] \in {"release", "unclaim"}
    BY <1>2, <2>1 DEF ReleaseClaim
  <2>3. q # p
    BY <2>1, <2>2
  <2> QED
    BY <2>2, <2>3 DEF ReleaseClaim
<1>3. ReleasedLeaseFreesClaim'
  BY <1>2 DEF ReleaseClaim
<1> QED
  BY <1>1, <1>3

\* reap_expired(): a lease is reaped under its operation lock, from its file.
LEMMA ReapSteps ==
  ASSUME NEW r \in Reaper, NEW l \in Lease, IInv,
         ReapSkip(r, l) \/ ReapTake(r, l) \/ ReapAbort(r, l)
  PROVE  IInv'
<1>1. CASE ReapSkip(r, l)
  BY <1>1 DEF ReapSkip
<1>2. CASE ReapTake(r, l)
  BY <1>2 DEF ReapTake
<1>3. CASE ReapAbort(r, l)
  BY <1>3 DEF ReapAbort
<1> HIDE DEF IInv
<1> QED
  BY <1>1, <1>2, <1>3

\* What a reaper lists is a lease that has a record.
LEMMA ReapListStep ==
  ASSUME NEW r \in Reaper, NEW s \in Store, IInv, ReapList(r, s)
  PROVE  IInv'
  BY DEF ReapList

\* The end of a reaper's pass.
LEMMA ReapDoneStep ==
  ASSUME NEW r \in Reaper, IInv, ReapDone(r)
  PROVE  IInv'
  BY DEF ReapDone

\* The TTL of a lease passes.
LEMMA ExpireStep ==
  ASSUME NEW l \in Lease, IInv, Expire(l)
  PROVE  IInv'
  BY DEF Expire

\* A prepare() call that has only the creation lock; no other call prepares the
\* lease, since its file would exist or its process would hold this lock.
LEMMA RequestPrepareStep ==
  ASSUME NEW p \in Client, NEW l \in Lease, IInv, RequestPrepare(p, l)
  PROVE  IInv'
  BY DEF RequestPrepare

\* A release() or recover() call that has only the operation lock.
LEMMA RequestReleaseStep ==
  ASSUME NEW p \in Client, NEW l \in Lease, IInv, RequestRelease(p, l)
  PROVE  IInv'
  BY DEF RequestRelease

\* A process that dies leaves nothing the others rely on.
LEMMA CrashStep ==
  ASSUME NEW p \in Proc, IInv, Crash(p)
  PROVE  IInv'
  BY DEF Crash

\* A step that changes no variable.
LEMMA StutterStep ==
  ASSUME IInv, UNCHANGED vars
  PROVE  IInv'
  BY DEF vars

HIDE DEF ProcessPC, PreparePC, CreationPC, ProvisionPC, OperationPC,
    ReleasePC, Proc, leaseVars, lockVars, Goto, Coord, Active, LeaveCreation,
    LeaveOperation, IInv, StepInv, TypeOK, LocksOfStep, OnePreparer, FileOfStep,
    EnvOfStep, ClaimOfStep, ScanOfStep, RecordsKept, EnvIsTracked,
    ProjectExclusive, L3EnvHoldsClaim, ReleasedLeaseFreesClaim

-----------------------------------------------------------------------------
(* The invariant and the properties that follow from it                    *)

\* Every step of the system keeps the inductive invariant.
LEMMA StepKeepsInvariant == IInv /\ [Next]_vars => IInv'
<1> SUFFICES ASSUME IInv, [Next]_vars
             PROVE  IInv'
  OBVIOUS
<1>1. ASSUME NEW p \in Client, NEW l \in Lease, RequestPrepare(p, l) \/ RequestRelease(p, l)
      PROVE  IInv'
  BY <1>1, RequestPrepareStep, RequestReleaseStep
<1>2. ASSUME NEW p \in Client, PrepareStep(p)
      PROVE  IInv'
  BY <1>2, AdmissionSteps, WriteFailsStep, WriteLeaseStep, ProvisionSteps DEF PrepareStep
<1>3. ASSUME NEW p \in Proc, ReleaseStep(p) \/ Crash(p)
      PROVE  IInv'
  BY <1>3, ReleaseSteps, SkipReleasedStep, CleanupFailsStep, RecordReleasedStep,
     ReleaseClaimStep, CrashStep DEF ReleaseStep
<1>4. ASSUME NEW r \in Reaper, ReapStep(r)
      PROVE  IInv'
  BY <1>4, ReapSteps, ReapDoneStep DEF ReapStep
<1>5. ASSUME NEW r \in Reaper, NEW s \in Store, ReapList(r, s)
      PROVE  IInv'
  BY <1>5, ReapListStep
<1>6. ASSUME NEW l \in Lease, Expire(l)
      PROVE  IInv'
  BY <1>6, ExpireStep
<1>7. CASE UNCHANGED vars
  BY <1>7, StutterStep
<1> QED
  BY <1>1, <1>2, <1>3, <1>4, <1>5, <1>6, <1>7 DEF Next

\* The inductive invariant holds initially and for ever.
THEOREM InvariantHolds == Spec => []IInv
<1>1. Init => IInv
  <2> SUFFICES ASSUME Init PROVE IInv
    OBVIOUS
  <2>1. TypeOK
    BY DEF Init, TypeOK, ProcessPC
  <2>2. StepInv
    <3>1. /\ \A p \in Proc : pc[p] = "idle"
          /\ \A p \in Client : pc[p] = "idle"
      BY DEF Init, Proc
    <3>2. LocksOfStep /\ OnePreparer
      BY <3>1 DEF LocksOfStep, OnePreparer, PreparePC, CreationPC, ProvisionPC, OperationPC,
         ReleasePC
    <3>3. FileOfStep /\ EnvOfStep /\ ScanOfStep
      BY <3>1 DEF FileOfStep, EnvOfStep, ScanOfStep
    <3>4. ClaimOfStep
      BY <3>1 DEF ClaimOfStep, ProvisionPC
    <3>5. RecordsKept
      BY DEF Init, RecordsKept
    <3> QED
      BY <3>2, <3>3, <3>4, <3>5 DEF StepInv
  <2>3. EnvIsTracked /\ L3EnvHoldsClaim
    BY DEF Init, EnvIsTracked, L3EnvHoldsClaim
  <2>4. ProjectExclusive
    BY DEF Init, ProjectExclusive, Active
  <2>5. ReleasedLeaseFreesClaim
    BY DEF Init, ReleasedLeaseFreesClaim, Coord
  <2> QED
    BY <2>1, <2>2, <2>3, <2>4, <2>5 DEF IInv
<1> QED
  BY <1>1, StepKeepsInvariant, PTL DEF Spec

\* The variables keep their types.
THEOREM TypeCorrect == Spec => []TypeOK
<1>1. IInv => TypeOK
  BY DEF IInv
<1> QED
  BY <1>1, InvariantHolds, PTL

\* At every step a call holds its locks and finds lease, environment and claim as
\* the code it is about to run expects them.
THEOREM StepsAreConsistent == Spec => []StepInv
<1>1. IInv => StepInv
  BY DEF IInv
<1> QED
  BY <1>1, InvariantHolds, PTL

\* At most one active lease per project and store, among the leases prepare() has
\* not written back after they had left "planned".
THEOREM ProjectsAreExclusive == Spec => []ProjectExclusive
<1>1. IInv => ProjectExclusive
  BY DEF IInv
<1> QED
  BY <1>1, InvariantHolds, PTL

\* A Minikube environment exists only while its lease owns the L3 slot.
THEOREM L3EnvsHoldTheirClaim == Spec => []L3EnvHoldsClaim
<1>1. IInv => L3EnvHoldsClaim
  BY DEF IInv
<1> QED
  BY <1>1, InvariantHolds, PTL

\* Every environment that exists is registered in an active lease.
THEOREM EnvsAreTracked == Spec => []EnvIsTracked
<1>1. IInv => EnvIsTracked
  BY DEF IInv
<1> QED
  BY <1>1, InvariantHolds, PTL

\* Without crashes, a released L3 lease that still owns the slot is about to give
\* it back.
THEOREM ReleasedLeasesFreeTheirClaim == Spec => []ReleasedLeaseFreesClaim
<1>1. IInv => ReleasedLeaseFreesClaim
  BY DEF IInv
<1> QED
  BY <1>1, InvariantHolds, PTL

-----------------------------------------------------------------------------
(* Writes to a lease file                                                  *)

\* The transitions the manager makes are in the table.
LEMMA TransitionsMade ==
    /\ \A f \in {"planned", "preparing", "ready"} : "expired" \in TRANSITIONS[f]
    /\ \A f \in LEASE_STATES \ {"releasing", "released"} : "releasing" \in TRANSITIONS[f]
    /\ "preparing" \in TRANSITIONS["planned"]
    /\ "ready" \in TRANSITIONS["preparing"]
    /\ "prepare_failed" \in TRANSITIONS["preparing"]
    /\ "released" \in TRANSITIONS["releasing"]
    /\ "cleanup_failed" \in TRANSITIONS["releasing"]
  BY DEF TRANSITIONS, LEASE_STATES

\* A step that leaves the lease files alone writes nothing illegal.
LEMMA NoWrite ==
  ASSUME UNCHANGED file, NEW l \in Lease, file'[l] # file[l]
  PROVE  FALSE
  OBVIOUS

\* Whatever a call writes to a lease file follows TRANSITIONS from the state the
\* file holds, unless prepare() writes back a stale lease.
THEOREM WritesAreLegal == Spec => LegalWrites
<1> DEFINE Legal(l) == LegalWrite(l) \/ l \in resurrected'
<1>1. ASSUME IInv, [Next]_vars, NEW l \in Lease, file'[l] # file[l]
      PROVE  Legal(l)
  <2> USE <1>1, TransitionsMade DEF IInv, TypeOK, StepInv, FileOfStep, LocksOfStep, LegalWrite,
      PreparePC, CreationPC, ProvisionPC, ReleasePC, OperationPC, leaseVars
  <2>1. ASSUME NEW p \in Client, CreateFile(p) \/ WriteLease(p) \/ WriteFails(p)
        PROVE  Legal(l)
    BY <2>1 DEF CreateFile, WriteLease, WriteFails, Proc
  <2>2. ASSUME NEW p \in Client, EnterPreparing(p)
        PROVE  Legal(l)
    BY <2>2 DEF EnterPreparing, Proc
  <2>3. ASSUME NEW p \in Client, BecomeReady(p) \/ FailPrepare(p)
        PROVE  Legal(l)
    BY <2>3 DEF BecomeReady, FailPrepare, Proc
  <2>4. ASSUME NEW p \in Proc, BeginRelease(p)
        PROVE  Legal(l)
    BY <2>4 DEF BeginRelease
  <2>5. ASSUME NEW p \in Proc, RecordReleased(p) \/ RecordFailed(p)
        PROVE  Legal(l)
    BY <2>5 DEF RecordReleased, RecordFailed
  <2>6. ASSUME NEW r \in Reaper, NEW m \in Lease, ReapTake(r, m)
        PROVE  Legal(l)
    BY <2>6 DEF ReapTake, RecordsKept, LEASE_STATES
  <2>7. CASE UNCHANGED file
    BY <2>7, NoWrite
  <2> HIDE DEF Legal, IInv
  <2>8. ASSUME NEW p \in Client, PrepareStep(p)
        PROVE  Legal(l)
    BY <2>1, <2>2, <2>3, <2>7, <2>8 DEF PrepareStep, Admit, Refuse, ClaimL3, ClaimFails,
       RegisterEnv, CreateEnv, ReturnReady
  <2>9. ASSUME NEW p \in Proc, ReleaseStep(p)
        PROVE  Legal(l)
    BY <2>4, <2>5, <2>7, <2>9 DEF ReleaseStep, SkipReleased, CleanupSucceeds, CleanupFails,
       ReleaseClaim, RefuseForeignClaim
  <2>10. ASSUME NEW r \in Reaper, ReapStep(r)
         PROVE  Legal(l)
    BY <2>6, <2>7, <2>10 DEF ReapStep, ReapSkip, ReapAbort, ReapDone
  <2> QED
    BY <2>7, <2>8, <2>9, <2>10
       DEF Next, vars, RequestPrepare, RequestRelease, Crash, ReapList, Expire
<1>2. IInv /\ [Next]_vars => [\A l \in Lease : file'[l] # file[l] => Legal(l)]_vars
  BY <1>1
<1> QED
  BY <1>2, InvariantHolds, PTL DEF Spec, LegalWrites

-----------------------------------------------------------------------------
(* The manager implements L3Slot.                                          *)

PromiseStep == [Promise!Next]_(Promise!slotVars)

\* A step that leaves the lives of the L3 leases, their environments and the
\* claims as they are leaves the promise alone.
LEMMA LeavesAlone ==
  ASSUME \A l \in L3 : LifeOf(l)' = LifeOf(l) /\ env'[l] = env[l], UNCHANGED claim
  PROVE  PromiseStep
  BY DEF PromiseStep, Promise!slotVars

\* What one L3 lease does, as an action of the promise.
LEMMA MovesOne ==
  ASSUME NEW l \in L3, LeaseAssumption,
         \A m \in L3 \ {l} : LifeOf(m)' = LifeOf(m) /\ env'[m] = env[m]
  PROVE  /\ LifeOf(l) = "unborn" /\ LifeOf(l)' = "alive" /\ env'[l] = env[l]
            /\ UNCHANGED claim => PromiseStep
         /\ LifeOf(l) = "alive" /\ LifeOf(l)' = "ended" /\ ~env[l] /\ env'[l] = env[l]
            /\ UNCHANGED claim => PromiseStep
         /\ LifeOf(l)' = LifeOf(l) /\ env'[l] = FALSE /\ UNCHANGED claim => PromiseStep
         /\ LifeOf(l) = "alive" /\ LifeOf(l)' = LifeOf(l) /\ claim[Coord(l)] = l
            /\ env'[l] = TRUE /\ UNCHANGED claim => PromiseStep
<1>1. ASSUME LifeOf(l) = "unborn", LifeOf(l)' = "alive", env'[l] = env[l], UNCHANGED claim
      PROVE  Promise!Begin(l)
  BY <1>1 DEF Promise!Begin
<1>2. ASSUME LifeOf(l) = "alive", LifeOf(l)' = "ended", ~env[l], env'[l] = env[l],
             UNCHANGED claim
      PROVE  Promise!End(l)
  BY <1>2 DEF Promise!End
<1>3. ASSUME LifeOf(l)' = LifeOf(l), env'[l] = FALSE, UNCHANGED claim
      PROVE  Promise!Demolish(l)
  BY <1>3 DEF Promise!Demolish
<1>4. ASSUME LifeOf(l) = "alive", LifeOf(l)' = LifeOf(l), claim[Coord(l)] = l, env'[l] = TRUE,
             UNCHANGED claim
      PROVE  Promise!Build(l)
  BY <1>4 DEF Promise!Build
<1> QED
  BY <1>1, <1>2, <1>3, <1>4 DEF PromiseStep, Promise!Next

\* What happens to the slot, as an action of the promise.
LEMMA MovesSlot ==
  ASSUME NEW l \in L3, LeaseAssumption, TypeOK,
         \A m \in L3 : LifeOf(m)' = LifeOf(m) /\ env'[m] = env[m]
  PROVE  /\ LifeOf(l) = "alive" /\ claim[Coord(l)] = None
            /\ claim' = [claim EXCEPT ![Coord(l)] = l] => PromiseStep
         /\ LifeOf(l) = "ended" /\ claim[Coord(l)] = l
            /\ claim' = [claim EXCEPT ![Coord(l)] = None] => PromiseStep
<1>1. ASSUME LifeOf(l) = "alive", claim[Coord(l)] = None,
             claim' = [claim EXCEPT ![Coord(l)] = l]
      PROVE  Promise!Acquire(l)
  BY <1>1 DEF Promise!Acquire
<1>2. ASSUME LifeOf(l) = "ended", claim[Coord(l)] = l,
             claim' = [claim EXCEPT ![Coord(l)] = None]
      PROVE  Promise!Free(l)
  BY <1>2 DEF Promise!Free
<1> QED
  BY <1>1, <1>2 DEF PromiseStep, Promise!Next

-----------------------------------------------------------------------------
\* Every step of a prepare() call.
LEMMA PreparePromise ==
  ASSUME NEW p \in Client, LeaseAssumption, IInv, PrepareStep(p)
  PROVE  PromiseStep
<1> USE LeaseStates DEF IInv, TypeOK, StepInv, FileOfStep, LocksOfStep, ClaimOfStep, EnvOfStep,
        PreparePC, CreationPC, ProvisionPC, OperationPC, ReleasePC, Proc, LifeOf, leaseVars
<1>1. CASE Admit(p) \/ Refuse(p) \/ ClaimFails(p) \/ RegisterEnv(p) \/ ReturnReady(p)
  BY <1>1, LeavesAlone DEF Admit, Refuse, ClaimFails, RegisterEnv, ReturnReady
<1>2. CASE CreateFile(p) \/ WriteFails(p)
  BY <1>2, LeavesAlone DEF CreateFile, WriteFails
<1>3. CASE WriteLease(p)
  <2>1. CASE job[p] \in L3
    BY <1>3, <2>1, MovesOne DEF WriteLease
  <2>2. CASE job[p] \notin L3
    BY <1>3, <2>2, LeavesAlone DEF WriteLease
  <2> QED
    BY <2>1, <2>2
<1>4. CASE ClaimL3(p)
  <2>1. job[p] \in L3 /\ LifeOf(job[p]) = "alive"
    BY <1>4 DEF ClaimL3
  <2>2. \A m \in L3 : LifeOf(m)' = LifeOf(m) /\ env'[m] = env[m]
    BY <1>4 DEF ClaimL3
  <2> QED
    BY ONLY <1>4, <2>1, <2>2, IInv, LeaseAssumption, MovesSlot DEF ClaimL3, IInv
<1>5. CASE EnterPreparing(p)
  BY <1>5, LeavesAlone DEF EnterPreparing
<1>6. CASE CreateEnv(p)
  <2>1. CASE job[p] \in L3
    BY <1>6, <2>1, MovesOne DEF CreateEnv
  <2>2. CASE job[p] \notin L3
    BY <1>6, <2>2, LeavesAlone DEF CreateEnv
  <2> QED
    BY <2>1, <2>2
<1>7. CASE BecomeReady(p) \/ FailPrepare(p)
  BY <1>7, LeavesAlone DEF BecomeReady, FailPrepare
<1> QED
  BY ONLY <1>1, <1>2, <1>3, <1>4, <1>5, <1>6, <1>7, PrepareStep(p) DEF PrepareStep

\* Every step of a release() call.
LEMMA ReleasePromise ==
  ASSUME NEW p \in Proc, LeaseAssumption, IInv, ReleaseStep(p)
  PROVE  PromiseStep
<1> USE LeaseStates DEF IInv, TypeOK, StepInv, FileOfStep, LocksOfStep, ClaimOfStep, EnvOfStep,
        PreparePC, ReleasePC, LifeOf, leaseVars
<1>1. CASE SkipReleased(p) \/ RefuseForeignClaim(p)
  BY <1>1, LeavesAlone DEF SkipReleased, RefuseForeignClaim
<1>2. CASE BeginRelease(p) \/ RecordFailed(p)
  BY <1>2, LeavesAlone DEF BeginRelease, RecordFailed
<1>3. CASE CleanupSucceeds(p) \/ CleanupFails(p)
  <2>1. CASE UNCHANGED env
    BY <1>3, <2>1, LeavesAlone DEF CleanupSucceeds, CleanupFails
  <2>2. CASE env' = [env EXCEPT ![job[p]] = FALSE] /\ job[p] \in L3
    <3>1. \A m \in L3 : LifeOf(m)' = LifeOf(m)
      BY <1>3 DEF CleanupSucceeds, CleanupFails
    <3>2. \A m \in L3 \ {job[p]} : env'[m] = env[m]
      BY <2>2
    <3>3. env'[job[p]] = FALSE /\ UNCHANGED claim
      BY <1>3, <2>2 DEF CleanupSucceeds, CleanupFails
    <3> QED
      BY ONLY <2>2, <3>1, <3>2, <3>3, LeaseAssumption, MovesOne
  <2>3. CASE env' = [env EXCEPT ![job[p]] = FALSE] /\ job[p] \notin L3
    BY <1>3, <2>3, LeavesAlone DEF CleanupSucceeds, CleanupFails
  <2> QED
    BY <1>3, <2>1, <2>2, <2>3 DEF CleanupSucceeds, CleanupFails
<1>4. CASE RecordReleased(p)
  <2>1. CASE job[p] \in L3
    BY <1>4, <2>1, MovesOne DEF RecordReleased
  <2>2. CASE job[p] \notin L3
    BY <1>4, <2>2, LeavesAlone DEF RecordReleased
  <2> QED
    BY <2>1, <2>2
<1>5. CASE ReleaseClaim(p)
  <2>1. CASE claim[Coord(job[p])] = job[p]
    BY <1>5, <2>1, MovesSlot DEF ReleaseClaim
  <2>2. CASE claim[Coord(job[p])] = None
    BY <1>5, <2>2, LeavesAlone DEF ReleaseClaim
  <2> QED
    BY <1>5, <2>1, <2>2 DEF ReleaseClaim
<1> QED
  BY ONLY <1>1, <1>2, <1>3, <1>4, <1>5, ReleaseStep(p) DEF ReleaseStep

\* Every other step: nothing but a reaper's "expired" is written.
LEMMA OtherPromise ==
  ASSUME LeaseAssumption, IInv,
         \/ \E p \in Client, l \in Lease : RequestPrepare(p, l) \/ RequestRelease(p, l)
         \/ \E p \in Proc : Crash(p)
         \/ \E r \in Reaper : ReapStep(r) \/ \E s \in Store : ReapList(r, s)
         \/ \E l \in Lease : Expire(l)
         \/ UNCHANGED vars
  PROVE  PromiseStep
<1>1. CASE UNCHANGED <<file, env, claim>>
  BY <1>1, LeavesAlone DEF LifeOf
<1>2. ASSUME NEW r \in Reaper, NEW l \in Lease, ReapTake(r, l)
      PROVE  PromiseStep
  BY <1>2, LeavesAlone, LeaseStates
     DEF ReapTake, IInv, TypeOK, StepInv, RecordsKept, LifeOf
<1> QED
  BY <1>1, <1>2 DEF RequestPrepare, RequestRelease, Crash, ReapStep, ReapSkip, ReapAbort,
     ReapDone, ReapList, Expire, vars, leaseVars

\* Whatever interleaves, fails or dies, an L3 lease lives once, from its file to
\* its verified release, its environment stands only while it lives and owns the
\* slot of its coordination root, and it loses the slot only after it has ended.
THEOREM ManagerImplementsL3Slot == Spec => ImplementsL3Slot
<1>1. Init => Promise!Init
  BY LeaseAssumption DEF Init, Promise!Init, LifeOf
<1>2. IInv /\ [Next]_vars => PromiseStep
  BY LeaseAssumption, PreparePromise, ReleasePromise, OtherPromise DEF Next
<1> QED
  BY <1>1, <1>2, InvariantHolds, PTL DEF Spec, ImplementsL3Slot, Promise!Spec, PromiseStep
=============================================================================
