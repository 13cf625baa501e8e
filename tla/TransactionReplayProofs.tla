---------------------- MODULE TransactionReplayProofs ----------------------
(***************************************************************************)
(* Theorems about transaction replay, for every contract, any number of    *)
(* sessions, runs, projects, leases and crashes, and both ownership modes. *)
(*                                                                         *)
(* What the ledger says of an object is true only because of where the     *)
(* sessions are: a session that is about to send has already recorded an   *)
(* unknown outcome, one that settles an entry has seen the object gone.    *)
(* RecoverableSteps says so for every step; with it the safety properties  *)
(* are inductive, and no action is an exception.                           *)
(***************************************************************************)
EXTENDS TransactionReplay, TLAPS

(* The inductive invariant.                                                *)
IInv ==
  /\ TypeOK
  /\ OneOperator
  /\ OneActiveRun
  /\ LedgerCoversObjects
  /\ DeletionsAreClaimed
  /\ RecoverableSteps

(* A creator is a step that creates its own object.                        *)
LEMMA CreatorsAreOps ==
  /\ Creators \subseteq Ops
  /\ \A o \in Ops : CreatorOf[o] \in Creators
  /\ \A c \in Creators : CreatorOf[c] = c
  BY ContractAssumption DEF Creators

(* An index within a contract or its cleanup names a step of it.           *)
LEMMA ContractSteps ==
  /\ \A i \in Nat \ {0} : i <= Len(Contract) => Contract[i] \in Ops
  /\ \A i \in Nat \ {0} : i <= Len(CleanupSteps) => CleanupSteps[i] \in Creators
  BY ContractAssumption DEF Creators

(* The transitions an entry can be at, written out.                        *)
LEMMA Legal ==
  /\ Transitions["intent_persisted"] = {"outcome_unknown", "not_sent"}
  /\ Transitions["outcome_unknown"] =
       {"owned_confirmed", "absent_confirmed", "cleanup_blocked"}
  /\ Transitions["owned_confirmed"] =
       {"cleanup_pending", "cleanup_blocked", "absent_confirmed"}
  /\ Transitions["cleanup_pending"] = {"absent_confirmed", "cleanup_blocked"}
  /\ Transitions["absent_confirmed"] = {}
  BY DEF Transitions, EntryStates

(* What a lookup tells about the object.                                   *)
LEMMA SelectResult ==
  ASSUME NEW r, NEW c, NEW id
  PROVE  /\ Select(r, c, id) = "not_found" => object[r][c] = "absent"
         /\ Select(r, c, id) = "owned" =>
              object[r][c] # "absent" /\ id \in {"none", object[r][c]}
  BY DEF Select

-----------------------------------------------------------------------------
(* Every action keeps IInv.                                                *)

USE ContractAssumption, CreatorsAreOps, ContractSteps
USE DEF IInv, TypeOK, OneOperator, OneActiveRun, LedgerCoversObjects, DeletionsAreClaimed,
    RecoverableSteps, SessionInv, CreateInv, WriteInv, EntryInv, ObjectInv, CleanupInv,
    Preparing, Writing, Deleting, Locations, EntryStates, Identities, Resolved, Pending,
    CleanupConfirmed,
    ledgerVars, worldVars, sessionVars, Goto, Leave, NextCleanup, Op, Target, ProjectActive,
    Busy, Creating, NoLedger, RebindTunnel, SameLease, Bound, Transition, Select, KnownAbsent,
    Relevant, Unsettled, ToClaim, ClaimedAs, CanSettle, DestroyWorld, Detach, ConfirmedIdentity

(* Nothing is recorded or sent, and no session is inside an operation.     *)
LEMMA InitStep == Init => IInv
  BY DEF Init

(* A session enters an operation under the run's lock; a ledger is created *)
(* only if the project has no active one.                                  *)
LEMMA OpeningSteps ==
  ASSUME NEW p \in Sessions, NEW r \in Runs, IInv,
         BeginPrepare(p, r) \/ Recover(p, r) \/ BeginCleanup(p)
         \/ CreateLedger(p)
  PROVE  IInv'
<1>1. CASE BeginPrepare(p, r)
  BY <1>1 DEF BeginPrepare
<1>2. CASE Recover(p, r)
  BY <1>2 DEF Recover
<1>3. CASE BeginCleanup(p)
  BY <1>3 DEF BeginCleanup
<1>4. CASE CreateLedger(p)
  BY <1>4 DEF CreateLedger
<1> HIDE DEF IInv
<1> QED
  BY <1>1, <1>2, <1>3, <1>4

(* The steps of a write that leave the application alone.                  *)
LEMMA WritingSteps ==
  ASSUME NEW p \in Sessions, IInv,
         Preflight(p) \/ Intent(p) \/ MarkUnknown(p) \/ Respond(p)
         \/ PrepareFails(p) \/ Prepared(p)
  PROVE  IInv'
<1>1. CASE Preflight(p)
  <2>1. /\ pc[p] = "step" /\ at[p] <= Len(Contract)
        /\ pc' = [pc EXCEPT ![p] = "intent"]
        /\ UNCHANGED <<ledgerVars, worldVars, run, at, found, crashes>>
    BY <1>1 DEF Preflight
  <2> QED
    BY <2>1
<1>2. CASE Intent(p)
  BY <1>2 DEF Intent
<1>3. CASE MarkUnknown(p)
  BY <1>3 DEF MarkUnknown
<1>4. CASE Respond(p)
  BY <1>4 DEF Respond
<1>5. CASE PrepareFails(p)
  BY <1>5 DEF PrepareFails
<1>6. CASE Prepared(p)
  BY <1>6 DEF Prepared
<1> HIDE DEF IInv
<1> QED
  BY <1>1, <1>2, <1>3, <1>4, <1>5, <1>6

(* The outcome is recorded as unknown before the request leaves.           *)
LEMMA SendStep ==
  ASSUME NEW p \in Sessions, IInv, Send(p)
  PROVE  IInv'
<1>1. TypeOK' /\ SessionInv' /\ CreateInv' /\ ObjectInv'
  BY DEF Send
<1>2. OneOperator' /\ OneActiveRun' /\ DeletionsAreClaimed'
  BY DEF Send
<1>3. LedgerCoversObjects' /\ EntryInv'
  BY DEF Send
<1>4. WriteInv' /\ CleanupInv'
  BY DEF Send
<1> QED
  BY <1>1, <1>2, <1>3, <1>4

(* What is confirmed is the run's own object, because a copy exists only   *)
(* where an identity is on record already.                                 *)
LEMMA ConfirmStep ==
  ASSUME NEW p \in Sessions, IInv, Confirm(p)
  PROVE  IInv'
<1> DEFINE r == run[p]
<1> DEFINE o == Op(p)
<1>1. /\ pc[p] = "confirm" /\ r \in Runs /\ o \in Ops
      /\ lifecycle[r] = "active"
      /\ entry[r][o] = "outcome_unknown" /\ request[r][o] = "done"
  <2>1. pc[p] = "confirm" /\ r \in Runs /\ at[p] <= Len(Contract)
    <3> HIDE DEF ConfirmedIdentity
    <3> QED
      BY DEF Confirm
  <2> QED
    BY <2>1
<1>2. ConfirmedIdentity(r, o) = "own" /\ request[r][CreatorOf[o]] = "done"
  <2> DEFINE c == CreatorOf[o]
  <2>1. /\ ConfirmedIdentity(r, o) # "none" /\ c \in Creators
        /\ identity[r][o] = "none"
        /\ identity[r][c] \in {"none", "own"}
        /\ identity[r][c] = "own" => request[r][c] = "done"
        /\ object[r][c] # "absent" => request[r][c] = "done"
        /\ object[r][c] = "copy" => identity[r][c] = "own"
        /\ object[r][c] \in {"absent", "own", "copy"}
    <3> HIDE DEF ConfirmedIdentity
    <3> QED
      BY <1>1 DEF Confirm
  <2> HIDE DEF IInv, Select, c
  <2>2. CASE Exclusive
    BY <1>1, <2>1, <2>2 DEF c
  <2>3. CASE ~Exclusive
    BY <1>1, <2>1, <2>3, SelectResult DEF c
  <2> QED
    BY <2>2, <2>3
<1>3. /\ pc' = [pc EXCEPT ![p] = "step"]
      /\ at' = [at EXCEPT ![p] = @ + 1]
      /\ entry' = [entry EXCEPT ![r][o] = "owned_confirmed"]
      /\ identity' = [identity EXCEPT ![r][o] = "own"]
      /\ UNCHANGED <<lifecycle, tunnel, worldVars, run, found, crashes>>
  BY <1>2 DEF Confirm
<1> HIDE DEF r, o
<1>4. TypeOK' /\ OneOperator' /\ OneActiveRun'
  BY <1>1, <1>3
<1>5. LedgerCoversObjects' /\ DeletionsAreClaimed'
  BY <1>1, <1>3
<1>6. SessionInv' /\ CreateInv'
  BY <1>1, <1>3 DEF r
<1>7. WriteInv'
  BY <1>1, <1>3 DEF r
<1>8. EntryInv' /\ ObjectInv'
  BY <1>1, <1>2, <1>3
<1>9. CleanupInv'
  BY <1>1, <1>3 DEF r
<1> QED
  BY <1>4, <1>5, <1>6, <1>7, <1>8, <1>9

(* The steps of a cleanup that settle nothing.                             *)
LEMMA CleanupControlSteps ==
  ASSUME NEW p \in Sessions, IInv,
         StartCleanup(p) \/ CleanupRefused(p) \/ SkipStep(p)
         \/ SendDelete(p) \/ PollGone(p) \/ CleanupStepFails(p)
         \/ SweepDone(p) \/ ReleaseFails(p)
  PROVE  IInv'
<1>1. CASE StartCleanup(p)
  BY <1>1 DEF StartCleanup
<1>2. CASE CleanupRefused(p)
  BY <1>2 DEF CleanupRefused
<1>3. CASE SkipStep(p)
  BY <1>3 DEF SkipStep
<1>4. CASE SendDelete(p)
  <2> DEFINE r == run[p]
  <2> DEFINE c == Target(p)
  <2>1. /\ pc[p] = "claim" /\ r \in Runs /\ c \in Creators
        /\ found[p] = "own" /\ request[r][c] = "done"
        /\ c \notin ToClaim(p)
    BY <1>4 DEF SendDelete
  <2>2. entry[r][c] \in {"cleanup_pending", "absent_confirmed"}
    BY <2>1
  <2>3. /\ deletes' = deletes \cup {<<r, c, "own">>} \/ deletes' = deletes
        /\ pc' = [pc EXCEPT ![p] = "poll"]
        /\ UNCHANGED <<ledgerVars, request, object, lease, run, at, found, crashes>>
    BY <1>4, <2>1 DEF SendDelete
  <2> HIDE DEF r, c
  <2>4. DeletionsAreClaimed' /\ TypeOK'
    BY <2>1, <2>2, <2>3
  <2> QED
    BY <2>1, <2>3, <2>4 DEF r, c
<1>5. CASE PollGone(p)
  BY <1>5 DEF PollGone
<1>6. CASE CleanupStepFails(p)
  BY <1>6 DEF CleanupStepFails
<1>7. CASE SweepDone(p)
  BY <1>7 DEF SweepDone
<1>8. CASE ReleaseFails(p)
  BY <1>8 DEF ReleaseFails
<1> HIDE DEF IInv
<1> QED
  BY <1>1, <1>2, <1>3, <1>4, <1>5, <1>6, <1>7, <1>8

(* A lookup finds the run's own object or, of a known one, its absence.    *)
LEMMA LookUpStep ==
  ASSUME NEW p \in Sessions, IInv, LookUp(p)
  PROVE  IInv'
<1> DEFINE r == run[p]
<1> DEFINE c == Target(p)
<1>1. /\ pc[p] = "sweep" /\ r \in Runs /\ c \in Creators
      /\ at[p] <= Len(CleanupSteps)
      /\ UNCHANGED <<ledgerVars, worldVars, run, at, crashes>>
  BY DEF LookUp
<1>2. CASE Select(r, c, identity[r][c]) = "owned" /\ found' = [found EXCEPT ![p] = object[r][c]]
           /\ pc' = [pc EXCEPT ![p] = "claim"]
  <2>1. object[r][c] = "own" /\ request[r][c] = "done"
    <3>1. object[r][c] # "absent" /\ identity[r][c] \in {"none", object[r][c]}
      BY <1>2, SelectResult
    <3> HIDE DEF c, Select
    <3> QED
      BY <1>1, <3>1
  <2> QED
    BY <1>1, <1>2, <2>1
<1>3. CASE KnownAbsent(r, c) /\ pc' = [pc EXCEPT ![p] = "absent"] /\ UNCHANGED found
  <2>1. object[r][c] = "absent" /\ request[r][c] = "done"
    BY <1>1, <1>3
  <2> QED
    BY <1>1, <1>3, <2>1
<1> HIDE DEF IInv
<1> QED
  BY <1>1, <1>2, <1>3 DEF LookUp

(* Claiming an entry moves no other session's operation.                   *)
LEMMA ClaimingStep ==
  ASSUME NEW p \in Sessions, IInv, Claim(p)
  PROVE  IInv'
<1>1. TypeOK' /\ OneOperator' /\ OneActiveRun'
  BY DEF Claim
<1>2. LedgerCoversObjects' /\ DeletionsAreClaimed'
  BY DEF Claim
<1>3. SessionInv' /\ CreateInv'
  BY DEF Claim
<1>4. WriteInv'
  <2>1. \A q \in Sessions : pc[q] \in Writing => run[q] # run[p] \/ run[q] = NoRun
    BY DEF Claim
  <2> QED
    BY <2>1 DEF Claim
<1>5. EntryInv'
  BY DEF Claim
<1>6. ObjectInv' /\ CleanupInv'
  BY DEF Claim
<1> QED
  BY <1>1, <1>2, <1>3, <1>4, <1>5, <1>6

(* Settling one entry of p's run, when the object it is about is gone.     *)
LEMMA SettleEntry ==
  ASSUME NEW p \in Sessions, IInv, pc[p] \in {"absent", "released"},
         NEW o \in Ops,
         entry[run[p]][o] \in {"outcome_unknown", "owned_confirmed", "cleanup_pending"},
         object[run[p]][CreatorOf[o]] # "own",
         request[run[p]][CreatorOf[o]] # "flying",
         entry' = [entry EXCEPT ![run[p]][o] = "absent_confirmed"],
         UNCHANGED <<lifecycle, identity, tunnel, worldVars, sessionVars, crashes>>
  PROVE  IInv'
<1> DEFINE r == run[p]
<1>1. /\ r \in Runs
      /\ \A q \in Sessions : pc[q] # "idle" /\ run[q] = r => q = p
  OBVIOUS
<1>2. TypeOK' /\ OneOperator' /\ OneActiveRun'
  BY <1>1
<1>3. LedgerCoversObjects' /\ DeletionsAreClaimed'
  BY <1>1
<1>4. SessionInv' /\ CreateInv' /\ WriteInv'
  BY <1>1
<1>5. EntryInv'
  BY <1>1
<1>6. ObjectInv' /\ CleanupInv'
  BY <1>1
<1> QED
  BY <1>2, <1>3, <1>4, <1>5, <1>6

(* An entry is marked absent after the object was seen to be gone.         *)
LEMMA MarkAbsentStep ==
  ASSUME NEW p \in Sessions, IInv, MarkAbsent(p)
  PROVE  IInv'
<1>1. ASSUME NEW o \in Unsettled(p), Transition(run[p], o, "absent_confirmed"),
             UNCHANGED sessionVars
      PROVE  IInv'
  <2>1. /\ o \in Ops /\ CreatorOf[o] = Target(p)
        /\ entry[run[p]][o] \in {"outcome_unknown", "owned_confirmed", "cleanup_pending"}
    <3>1. /\ pc[p] = "absent" /\ at[p] <= Len(CleanupSteps) /\ run[p] \in Runs
          /\ o \in Ops /\ CreatorOf[o] = Target(p)
          /\ entry[run[p]][o] \in EntryStates
          /\ entry[run[p]][o] \notin {"not_sent", "cleanup_blocked", "absent_confirmed"}
          /\ "absent_confirmed" \in Transitions[entry[run[p]][o]]
      BY <1>1 DEF MarkAbsent
    <3> HIDE DEF IInv, Transition
    <3> QED
      BY <3>1, Legal
  <2>2. /\ object[run[p]][CreatorOf[o]] = "absent"
        /\ request[run[p]][CreatorOf[o]] = "done"
    BY <2>1 DEF MarkAbsent
  <2> QED
    <3>1. /\ pc[p] \in {"absent", "released"}
          /\ entry' = [entry EXCEPT ![run[p]][o] = "absent_confirmed"]
          /\ UNCHANGED <<lifecycle, identity, tunnel, worldVars, sessionVars, crashes>>
      BY <1>1 DEF MarkAbsent
    <3> HIDE DEF IInv
    <3> QED
      BY <2>1, <2>2, <3>1, SettleEntry
<1>2. CASE NextCleanup(p) /\ UNCHANGED <<entry, run>>
  BY <1>2 DEF MarkAbsent
<1> HIDE DEF IInv
<1> QED
  BY <1>1, <1>2 DEF MarkAbsent

(* The release destroys what lived in the lease, requests under way too.   *)
LEMMA ReleaseEnvironmentStep ==
  ASSUME NEW p \in Sessions, IInv, ReleaseEnvironment(p)
  PROVE  IInv'
<1>1. TypeOK' /\ SessionInv' /\ CreateInv'
  BY DEF ReleaseEnvironment
<1>2. OneOperator' /\ OneActiveRun' /\ DeletionsAreClaimed'
  BY DEF ReleaseEnvironment
<1>3. LedgerCoversObjects' /\ ObjectInv'
  BY DEF ReleaseEnvironment
<1>4. EntryInv' /\ WriteInv'
  BY DEF ReleaseEnvironment
<1>5. CleanupInv'
  BY DEF ReleaseEnvironment
<1> QED
  BY <1>1, <1>2, <1>3, <1>4, <1>5

(* After the release every entry's object is gone.                         *)
LEMMA SettleByReleaseStep ==
  ASSUME NEW p \in Sessions, IInv, SettleByRelease(p)
  PROVE  IInv'
<1>1. ASSUME NEW o \in CanSettle(run[p]), Transition(run[p], o, "absent_confirmed"),
             UNCHANGED sessionVars
      PROVE  IInv'
  <2>1. /\ o \in Ops
        /\ entry[run[p]][o] \in {"outcome_unknown", "owned_confirmed", "cleanup_pending"}
    <3>1. /\ pc[p] = "released" /\ run[p] \in Runs /\ o \in Ops
          /\ entry[run[p]][o] \in EntryStates
          /\ entry[run[p]][o] \notin {"not_sent", "cleanup_blocked", "absent_confirmed"}
          /\ "absent_confirmed" \in Transitions[entry[run[p]][o]]
      BY <1>1 DEF SettleByRelease
    <3> HIDE DEF IInv, Transition
    <3> QED
      BY <3>1, Legal
  <2>2. /\ object[run[p]][CreatorOf[o]] # "own"
        /\ request[run[p]][CreatorOf[o]] # "flying"
    BY <2>1 DEF SettleByRelease
  <2> QED
    <3>1. /\ pc[p] \in {"absent", "released"}
          /\ entry' = [entry EXCEPT ![run[p]][o] = "absent_confirmed"]
          /\ UNCHANGED <<lifecycle, identity, tunnel, worldVars, sessionVars, crashes>>
      BY <1>1 DEF SettleByRelease
    <3> HIDE DEF IInv
    <3> QED
      BY <2>1, <2>2, <3>1, SettleEntry
<1>2. CASE Goto(p, "close") /\ UNCHANGED <<entry, run, at, found>>
  BY <1>2 DEF SettleByRelease
<1>3. CASE Leave(p) /\ UNCHANGED <<entry, run>>
  BY <1>3 DEF SettleByRelease
<1> HIDE DEF IInv
<1> QED
  BY <1>1, <1>2, <1>3 DEF SettleByRelease

(* A deletion under way names an identity on record.                       *)
LEMMA DeleteEndsStep ==
  ASSUME NEW d \in deletes, IInv, DeleteEnds(d)
  PROVE  IInv'
<1>1. PICK r \in Runs, c \in Creators : d[1] = r /\ d[2] = c /\ d[3] = "own"
  BY DEF TypeOK
<1>2. /\ deletes' \subseteq deletes
      /\ UNCHANGED <<ledgerVars, request, lease, sessionVars, crashes>>
  BY DEF DeleteEnds
<1>3. CASE object' = object
  BY <1>2, <1>3
<1>4. CASE object' = [object EXCEPT ![r][c] = "absent"]
  BY <1>2, <1>4
<1> HIDE DEF IInv
<1> QED
  BY <1>1, <1>3, <1>4 DEF DeleteEnds

(* The end of a lease destroys what lives in it or leaves it alone.        *)
LEMMA LeaseEndsStep ==
  ASSUME NEW l \in Leases, IInv, LeaseEnds(l)
  PROVE  IInv'
<1>1. CASE UNCHANGED <<request, object, deletes>>
  BY <1>1 DEF LeaseEnds
<1>2. CASE DestroyWorld(l)
  BY <1>2 DEF LeaseEnds
<1> QED
  BY <1>1, <1>2 DEF LeaseEnds

(* A run is closed when it is settled; a session's end frees its locks.    *)
LEMMA ClosingSteps ==
  ASSUME NEW p \in Sessions, IInv,
         Close(p) \/ Exit(p) \/ Crash(p)
  PROVE  IInv'
<1>1. CASE Close(p)
  BY <1>1 DEF Close
<1>2. CASE Exit(p)
  BY <1>2 DEF Exit
<1>3. CASE Crash(p)
  BY <1>3 DEF Crash
<1> HIDE DEF IInv
<1> QED
  BY <1>1, <1>2, <1>3

(* The application acts on a request, or its object is replaced.           *)
LEMMA RequestSteps ==
  ASSUME NEW r \in Runs, NEW o \in Ops, NEW c \in Creators, IInv,
         Commit(r, o) \/ Refuse(r, o) \/ Replace(r, c)
  PROVE  IInv'
<1>1. CASE Commit(r, o)
  BY <1>1 DEF Commit
<1>2. CASE Refuse(r, o)
  BY <1>2 DEF Refuse
<1>3. CASE Replace(r, c)
  BY <1>3 DEF Replace
<1> HIDE DEF IInv
<1> QED
  BY <1>1, <1>2, <1>3


HIDE DEF IInv, TypeOK, OneOperator, OneActiveRun, LedgerCoversObjects,
    DeletionsAreClaimed, RecoverableSteps, SessionInv, CreateInv, WriteInv,
    EntryInv, ObjectInv, CleanupInv, Preparing, Writing, Deleting, Locations,
    EntryStates, Identities, Resolved, Pending, CleanupConfirmed, ledgerVars,
    worldVars, sessionVars, Goto, Leave, NextCleanup, Op, Target,
    ProjectActive, Busy, Creating, NoLedger, RebindTunnel, SameLease, Bound,
    Transition, Select, KnownAbsent, Relevant, Unsettled, ToClaim, ClaimedAs,
    CanSettle, DestroyWorld, Detach, ConfirmedIdentity

(* A step that changes nothing.                                            *)
LEMMA Stuttering ==
  ASSUME IInv, UNCHANGED vars
  PROVE  IInv'
  BY DEF vars, ledgerVars, worldVars, sessionVars, IInv, TypeOK, OneOperator,
     OneActiveRun, LedgerCoversObjects, DeletionsAreClaimed, RecoverableSteps,
     SessionInv, CreateInv, WriteInv, EntryInv, ObjectInv, CleanupInv, Op,
     Target, ProjectActive, Pending

LEMMA NextStep ==
  ASSUME IInv, [Next]_vars
  PROVE  IInv'
<1>1. ASSUME NEW p \in Sessions, NEW r \in Runs,
             BeginPrepare(p, r) \/ Recover(p, r)
      PROVE  IInv'
  BY <1>1, OpeningSteps
<1>2. ASSUME NEW p \in Sessions, BeginCleanup(p)
      PROVE  IInv'
  <2>1. CASE Runs = {}
    BY <1>2, <2>1 DEF BeginCleanup, IInv, TypeOK
  <2>2. CASE Runs # {}
    BY <1>2, <2>2, OpeningSteps
  <2> QED
    BY <2>1, <2>2
<1>3. ASSUME NEW p \in Sessions, PrepareStep(p)
      PROVE  IInv'
  <2>1. ASSUME CreateLedger(p)
        PROVE  IInv'
    <3>1. Runs # {}
      BY <2>1 DEF CreateLedger, IInv, TypeOK, RecoverableSteps, SessionInv
    <3> QED
      BY <2>1, <3>1, OpeningSteps
  <2> QED
    BY <1>3, <2>1, WritingSteps, SendStep, ConfirmStep DEF PrepareStep
<1>4. ASSUME NEW p \in Sessions, CleanupStep(p)
      PROVE  IInv'
  BY <1>4, CleanupControlSteps, LookUpStep, ClaimingStep, MarkAbsentStep,
     ReleaseEnvironmentStep, SettleByReleaseStep, ClosingSteps DEF CleanupStep
<1>5. ASSUME NEW p \in Sessions, Exit(p) \/ Crash(p)
      PROVE  IInv'
  BY <1>5, ClosingSteps
<1>6. ASSUME World
      PROVE  IInv'
  <2>1. ASSUME NEW r \in Runs, NEW o \in Ops, Commit(r, o) \/ Refuse(r, o)
        PROVE  IInv'
    BY <2>1, RequestSteps, CreatorsAreOps
  <2>2. ASSUME NEW r \in Runs, NEW c \in Creators, Replace(r, c)
        PROVE  IInv'
    BY <2>2, RequestSteps, CreatorsAreOps
  <2> QED
    BY <1>6, <2>1, <2>2, DeleteEndsStep, LeaseEndsStep DEF World
<1> QED
  BY <1>1, <1>2, <1>3, <1>4, <1>5, <1>6, Stuttering DEF Next

-----------------------------------------------------------------------------
(* Theorems.                                                               *)

(* IInv holds in every reachable state.                                    *)
THEOREM ReplayInvariant == Spec => []IInv
<1>1. Init => IInv
  BY InitStep
<1>2. IInv /\ [Next]_vars => IInv'
  BY NextStep
<1> QED
  BY <1>1, <1>2, PTL DEF Spec

(* Type correctness of ledgers, sessions and application.                  *)
THEOREM ReplayTypes == Spec => []TypeOK
<1>1. IInv => TypeOK
  BY DEF IInv
<1> QED
  BY <1>1, ReplayInvariant, PTL

(* The lock of a run admits one session at a time, crashes included.       *)
THEOREM RunsHaveOneOperator == Spec => []OneOperator
<1>1. IInv => OneOperator
  BY DEF IInv
<1> QED
  BY <1>1, ReplayInvariant, PTL

(* Two transactions of a project are never active together.                *)
THEOREM ProjectsHaveOneActiveRun == Spec => []OneActiveRun
<1>1. IInv => OneActiveRun
  BY DEF IInv
<1> QED
  BY <1>1, ReplayInvariant, PTL

(* No write is ever sent a second time.                                    *)
THEOREM WritesAreSentOnce == Spec => []NeverSentTwice
<1>1. IInv => NeverSentTwice
  BY DEF IInv, RecoverableSteps, WriteInv, NeverSentTwice
<1> QED
  BY <1>1, ReplayInvariant, PTL

(* The ledger never calls absent what exists or may still appear.          *)
THEOREM LedgersCoverTheirObjects == Spec => []LedgerCoversObjects
<1>1. IInv => LedgerCoversObjects
  BY DEF IInv
<1> QED
  BY <1>1, ReplayInvariant, PTL

(* Only objects with a recorded identity and a claimed entry are deleted.  *)
THEOREM DeletionsHaveAClaim == Spec => []DeletionsAreClaimed
<1>1. IInv => DeletionsAreClaimed
  BY DEF IInv
<1> QED
  BY <1>1, ReplayInvariant, PTL

(* Every step of every operation can be recovered from the ledger.         *)
THEOREM StepsAreRecoverable == Spec => []RecoverableSteps
<1>1. IInv => RecoverableSteps
  BY DEF IInv
<1> QED
  BY <1>1, ReplayInvariant, PTL

-----------------------------------------------------------------------------
(* Action properties.                                                      *)

(* What LedgerSteps says of one run.                                       *)
LedgerStep(r) ==
  /\ \A o \in Ops :
       \/ entry'[r][o] = entry[r][o]
       \/ entry[r][o] = "none" /\ entry'[r][o] = "intent_persisted"
       \/ /\ entry[r][o] \in EntryStates
          /\ entry'[r][o] \in Transitions[entry[r][o]]
  /\ lifecycle[r] = "closed" => /\ lifecycle'[r] = "closed"
                                /\ entry'[r] = entry[r]

(* A legal transition of a pending entry, or of none, is a ledger step.    *)
LEMMA PendingEntryStep ==
  ASSUME IInv, NEW q \in Runs, NEW o \in Ops, NEW x,
         x = entry[q][o] \/ (o \in Pending(q) /\ x \in Transitions[entry[q][o]]),
         entry' = [entry EXCEPT ![q][o] = x], lifecycle' = lifecycle,
         NEW r \in Runs
  PROVE  LedgerStep(r)
  BY DEF IInv, TypeOK, RecoverableSteps, EntryInv, LedgerStep, Pending, Resolved

LEMMA UnchangedLedgerStep ==
  ASSUME IInv, entry' = entry,
         \A q \in Runs : lifecycle[q] = "closed" => lifecycle'[q] = "closed",
         NEW r \in Runs
  PROVE  LedgerStep(r)
  BY DEF LedgerStep

(* Entries move along TRANSITIONS, and closed runs are settled for good.   *)
THEOREM LedgersOnlyAdvance == Spec => LedgerSteps
<1>1. ASSUME IInv, [Next]_vars, NEW r \in Runs
      PROVE  LedgerStep(r)
  <2> USE <1>1 DEF TypeOK, RecoverableSteps, SessionInv, WriteInv, EntryInv,
      Preparing, Writing, Deleting, Op, Transition
  <2>1. ASSUME NEW p \in Sessions, CreateLedger(p)
        PROVE  LedgerStep(r)
    <3>1. /\ run[p] \in Runs /\ lifecycle[run[p]] = "none"
          /\ entry' = [entry EXCEPT ![run[p]] = [o \in Ops |-> "none"]]
          /\ lifecycle' = [lifecycle EXCEPT ![run[p]] = "active"]
          /\ \A o \in Ops : entry[run[p]][o] = "none"
      BY <2>1 DEF CreateLedger, IInv
    <3> QED
      BY <3>1 DEF IInv, LedgerStep
  <2>2. ASSUME NEW p \in Sessions, Intent(p)
        PROVE  LedgerStep(r)
    <3>1. run[p] \in Runs /\ Op(p) \in Ops
      BY <2>2, ContractSteps DEF Intent, IInv
    <3> QED
      BY <2>2, <3>1 DEF Intent, IInv, LedgerStep
  <2>3. ASSUME NEW p \in Sessions, MarkUnknown(p) \/ Confirm(p)
        PROVE  LedgerStep(r)
    <3>1. run[p] \in Runs /\ Op(p) \in Ops /\ Op(p) \in Pending(run[p])
      BY <2>3, ContractSteps DEF MarkUnknown, Confirm, IInv, Pending, Resolved
    <3>2. \E x \in Transitions[entry[run[p]][Op(p)]] :
            entry' = [entry EXCEPT ![run[p]][Op(p)] = x]
      BY <2>3 DEF MarkUnknown, Confirm
    <3>3. lifecycle' = lifecycle
      BY <2>3 DEF MarkUnknown, Confirm, ledgerVars
    <3> QED
      BY <3>1, <3>2, <3>3, PendingEntryStep
  <2>4. ASSUME NEW p \in Sessions, Claim(p)
        PROVE  LedgerStep(r)
    <3>1. PICK o \in ToClaim(p) :
            Transition(run[p], o, ClaimedAs[entry[run[p]][o]])
      BY <2>4 DEF Claim
    <3>2. run[p] \in Runs /\ o \in Ops /\ o \in Pending(run[p])
      BY <2>4, <3>1 DEF Claim, ToClaim, Relevant, ClaimedAs, Pending, Resolved, IInv
    <3>3. lifecycle' = lifecycle
      BY <2>4 DEF Claim
    <3> QED
      BY <3>1, <3>2, <3>3, PendingEntryStep
  <2>5. ASSUME NEW p \in Sessions, MarkAbsent(p) \/ SettleByRelease(p)
        PROVE  LedgerStep(r)
    <3>1. run[p] \in Runs
      BY <2>5 DEF MarkAbsent, SettleByRelease, IInv
    <3>2. lifecycle' = lifecycle
      BY <2>5 DEF MarkAbsent, SettleByRelease
    <3>3. ASSUME NEW o \in Pending(run[p]), Transition(run[p], o, "absent_confirmed")
          PROVE  LedgerStep(r)
      BY <3>1, <3>2, <3>3, PendingEntryStep DEF Pending
    <3>4. CASE entry' = entry
      BY <3>2, <3>4, UnchangedLedgerStep
    <3> QED
      BY <2>5, <3>3, <3>4
         DEF MarkAbsent, SettleByRelease, Unsettled, CanSettle, sessionVars
  <2>6. ASSUME NEW p \in Sessions, Close(p)
        PROVE  LedgerStep(r)
    <3>1. /\ entry' = entry
          /\ \A q \in Runs : lifecycle[q] = "closed" => lifecycle'[q] = "closed"
      BY <2>6 DEF Close, IInv
    <3> QED
      BY <3>1, UnchangedLedgerStep
  <2>7. CASE UNCHANGED <<entry, lifecycle>>
    BY <2>7, UnchangedLedgerStep
  <2> HIDE DEF IInv, LedgerStep
  <2>8. ASSUME NEW p \in Sessions, PrepareStep(p)
        PROVE  LedgerStep(r)
    BY <2>1, <2>2, <2>3, <2>7, <2>8 DEF PrepareStep, Preflight, Send, Respond,
       PrepareFails, Prepared, ledgerVars
  <2>9. ASSUME NEW p \in Sessions, CleanupStep(p)
        PROVE  LedgerStep(r)
    BY <2>4, <2>5, <2>6, <2>7, <2>9 DEF CleanupStep, StartCleanup, CleanupRefused,
       SkipStep, LookUp, SendDelete, PollGone, CleanupStepFails, SweepDone,
       ReleaseEnvironment, ReleaseFails, ledgerVars
  <2>10. ASSUME World
         PROVE  LedgerStep(r)
    BY <2>7, <2>10 DEF World, Commit, Refuse, DeleteEnds, Replace, LeaseEnds,
       ledgerVars
  <2> QED
    BY <2>7, <2>8, <2>9, <2>10 DEF Next, BeginPrepare, Recover, BeginCleanup, Exit,
       Crash, Detach, ledgerVars, vars
<1>2. IInv /\ [Next]_vars => [\A r \in Runs : LedgerStep(r)]_vars
  BY <1>1
<1> QED
  BY <1>2, ReplayInvariant, PTL DEF Spec, LedgerSteps, LedgerStep

(* No cleanup, and nothing but the end of its lease, removes a copy.       *)
THEOREM CopiesAreNeverDeleted == Spec => CopiesSurvive
<1> DEFINE Kept(r, c) ==
      object[r][c] = "copy" /\ object'[r][c] # "copy"
        => lease[LeaseOf[r]] = "ready" /\ lease'[LeaseOf[r]] = "gone"
<1>1. ASSUME IInv, [Next]_vars, NEW r \in Runs, NEW c \in Creators
      PROVE  Kept(r, c)
  <2> USE <1>1
  <2>1. CASE object' = object
    BY <2>1
  <2>2. ASSUME NEW p \in Sessions, ReleaseEnvironment(p)
        PROVE  Kept(r, c)
    <3>1. run[p] \in Runs
      BY <2>2 DEF ReleaseEnvironment, IInv, TypeOK, RecoverableSteps, SessionInv
    <3> QED
      BY <2>2, <3>1, ContractAssumption
         DEF ReleaseEnvironment, DestroyWorld, Bound, IInv, TypeOK
  <2>3. ASSUME NEW l \in Leases, LeaseEnds(l)
        PROVE  Kept(r, c)
    BY <2>3, ContractAssumption DEF LeaseEnds, DestroyWorld, IInv, TypeOK
  <2>4. ASSUME NEW q \in Runs, NEW o \in Ops, Commit(q, o)
        PROVE  Kept(r, c)
    <3>1. object[q][o] # "copy" \/ o \notin Creators
      BY <2>4 DEF Commit, IInv, RecoverableSteps, ObjectInv
    <3> QED
      BY <2>4, <3>1 DEF Commit, IInv, TypeOK
  <2>5. ASSUME NEW d \in deletes, DeleteEnds(d)
        PROVE  Kept(r, c)
    <3>1. PICK q \in Runs, k \in Creators : d[1] = q /\ d[2] = k /\ d[3] = "own"
      BY DEF IInv, TypeOK, DeletionsAreClaimed
    <3>2. object' = object \/ (object[q][k] = "own" /\ object' = [object EXCEPT ![q][k] = "absent"])
      BY <2>5, <3>1 DEF DeleteEnds
    <3>3. object \in [Runs -> [Creators -> Identities \cup {"absent"}]]
      BY DEF IInv, TypeOK
    <3> HIDE <1>1
    <3>4. object[r][c] = "copy" => object'[r][c] = "copy"
      <4>1. CASE object' = object
        BY <4>1
      <4>2. CASE /\ object[q][k] = "own"
                 /\ object' = [object EXCEPT ![q][k] = "absent"]
        <5>1. CASE r = q /\ c = k
          BY <4>2, <5>1
        <5>2. CASE ~(r = q /\ c = k)
          BY <3>3, <4>2, <5>2
        <5> QED
          BY <5>1, <5>2
      <4> QED
        BY <3>2, <4>1, <4>2
    <3> QED
      BY <3>4
  <2>6. ASSUME NEW q \in Runs, NEW k \in Creators, Replace(q, k)
        PROVE  Kept(r, c)
    BY <2>6 DEF Replace, IInv, TypeOK
  <2> HIDE DEF Kept, IInv
  <2>7. ASSUME NEW p \in Sessions, PrepareStep(p)
        PROVE  Kept(r, c)
    BY <2>1, <2>7 DEF PrepareStep, CreateLedger, Preflight, Intent, MarkUnknown,
       Send, Respond, Confirm, PrepareFails, Prepared, worldVars
  <2>8. ASSUME NEW p \in Sessions, CleanupStep(p)
        PROVE  Kept(r, c)
    BY <2>1, <2>2, <2>8 DEF CleanupStep, StartCleanup, CleanupRefused, SkipStep,
       LookUp, Claim, SendDelete, PollGone, MarkAbsent, CleanupStepFails,
       SweepDone, ReleaseFails, SettleByRelease, Close, worldVars
  <2>9. ASSUME World
        PROVE  Kept(r, c)
    BY <2>1, <2>3, <2>4, <2>5, <2>6, <2>9 DEF World, Refuse
  <2> QED
    BY <2>1, <2>7, <2>8, <2>9 DEF Next, BeginPrepare, Recover, BeginCleanup, Exit,
       Crash, Detach, worldVars, vars
<1>2. IInv /\ [Next]_vars => [\A r \in Runs, c \in Creators : Kept(r, c)]_vars
  BY <1>1
<1> QED
  BY <1>2, ReplayInvariant, PTL DEF Spec, CopiesSurvive
=============================================================================
