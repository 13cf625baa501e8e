------------------------- MODULE TransactionReplay -------------------------
(***************************************************************************)
(* Business transactions replayed against an application: ReplaySession    *)
(* (oracles/replay_session.py) over RecoveryLedger                         *)
(* (oracles/recovery_ledger.py), with exact ownership selection            *)
(* (oracles/ownership.py) and the lease a session is bound to              *)
(* (oracles/runtime_binding.py).                                           *)
(*                                                                         *)
(* A run executes the write steps of one frozen contract.  Every write is  *)
(* recorded in a ledger file before it is sent and reconciled afterwards,  *)
(* by the same session or by another process after a crash.  The           *)
(* application answers, loses answers, or commits a request long after its *)
(* sender stopped waiting.                                                 *)
(***************************************************************************)
EXTENDS Naturals, Sequences, FiniteSets

CONSTANTS
  Sessions,        \* processes that hold a ReplaySession
  Runs,            \* run identities
  Projects,        \* project identities
  ProjectOf,       \* the project of a run
  Leases,          \* isolation leases
  LeaseOf,         \* the lease a run is bound to
  Ops,             \* identities of the contract's write steps
  Contract,        \* the write steps in the contract's order
  CreatorOf,       \* the step that creates the object a step works on
  CleanupSteps,    \* the creators that have a deletion step, in order
  Exclusive,       \* ownership mode lease_exclusive (else exact_lookup)
  ReleaseRequired, \* cleanup.environment_release_required
  MaxCrashes,      \* bound: sessions that die in the middle of an action
  NoRun            \* a session that is attached to no run

(* What replay_validation.py accepts: an object is created before it is    *)
(* used, lease-exclusive writes are undone by the environment's release    *)
(* and by nothing else, other writes without a release by deletion steps.  *)
ASSUME ContractAssumption ==
  /\ ProjectOf \in [Runs -> Projects]
  /\ LeaseOf \in [Runs -> Leases]
  /\ Contract \in Seq(Ops)
  /\ CreatorOf \in [Ops -> Ops]
  /\ \A o \in Ops : CreatorOf[CreatorOf[o]] = CreatorOf[o]
  /\ CleanupSteps \in Seq({CreatorOf[o] : o \in Ops})
  /\ Exclusive \in BOOLEAN
  /\ ReleaseRequired \in BOOLEAN
  /\ Exclusive => ReleaseRequired /\ CleanupSteps = <<>>
  /\ MaxCrashes \in Nat
  /\ NoRun \notin Runs

Creators == {CreatorOf[o] : o \in Ops}

VARIABLES
  lifecycle, \* "none" (no ledger file), "active" or "closed"
  entry,     \* state of each operation in the ledger, "none" if not recorded
  identity,  \* object identity recorded with the operation
  tunnel,    \* session whose tunnel origin the ledger's binding names
  request,   \* where the one request of each operation is
  object,    \* what a lookup of a creator's marker finds
  deletes,   \* deletion requests under way
  lease,     \* "ready" or "gone"
  pc,        \* where each session is
  run,       \* the session's _run_id
  at,        \* index of the contract or cleanup step the session is at
  found,     \* identity returned by the session's last lookup
  crashes    \* number of crashes so far

ledgerVars == <<lifecycle, entry, identity, tunnel>>
worldVars == <<request, object, deletes, lease>>
sessionVars == <<pc, run, at, found>>
vars == <<ledgerVars, worldVars, sessionVars, crashes>>

-----------------------------------------------------------------------------
(* The ledger.                                                             *)

EntryStates == {"not_sent", "intent_persisted", "outcome_unknown",
                "owned_confirmed", "cleanup_pending", "cleanup_blocked",
                "absent_confirmed"}

Transitions ==
  [s \in EntryStates |->
     CASE s = "not_sent"         -> {"intent_persisted"}
       [] s = "intent_persisted" -> {"outcome_unknown", "not_sent"}
       [] s = "outcome_unknown"  -> {"owned_confirmed", "absent_confirmed",
                                     "cleanup_blocked"}
       [] s = "owned_confirmed"  -> {"cleanup_pending", "cleanup_blocked",
                                     "absent_confirmed"}
       [] s = "cleanup_pending"  -> {"absent_confirmed", "cleanup_blocked"}
       [] s = "cleanup_blocked"  -> {"owned_confirmed", "absent_confirmed",
                                     "cleanup_pending"}
       [] s = "absent_confirmed" -> {}]

Resolved == {"not_sent", "absent_confirmed"}

(* Operations of run r the ledger records and has not settled.             *)
Pending(r) == {o \in Ops : entry[r][o] \notin Resolved \cup {"none"}}

CleanupConfirmed(r) == Pending(r) = {}

(* transition(): the entry must be recorded and the step must be legal.    *)
Transition(r, o, s) ==
  /\ entry[r][o] # "none"
  /\ s \in Transitions[entry[r][o]]
  /\ entry' = [entry EXCEPT ![r][o] = s]

(* Seeded fault: a lock that refuses nobody.                               *)
NeverCreating(j) == FALSE

(* The lock of a run is an operating-system lock: it is held exactly while *)
(* a session is inside an operation on the run, and a crash frees it.      *)
Busy(r) == \E p \in Sessions : pc[p] # "idle" /\ run[p] = r

(* Likewise the lock of a project, held while a ledger is created.         *)
Creating(j) == \E p \in Sessions : pc[p] = "create" /\ ProjectOf[run[p]] = j

(* Seeded fault: an existing ledger does not stop create().                *)
AnyLedger(r) == TRUE

(* create() refuses a run that has a ledger file already.                  *)
NoLedger(r) == lifecycle[r] = "none"

(* runtime.verify(): the session's lease is ready and unchanged.           *)
Bound(p) == lease[LeaseOf[run[p]]] = "ready"

-----------------------------------------------------------------------------
(* The application's read side.  A marker carries the run's identity and   *)
(* its principal, so nothing but the run's creator, or a later copy of its *)
(* object, carries it.                                                     *)

Identities == {"own", "copy"}

(* Seeded fault: a match by marker is taken whatever its identity.         *)
SelectByMarker(r, c, id) ==
  IF object[r][c] = "absent" THEN "not_found" ELSE "owned"

Select(r, c, id) ==
  IF object[r][c] = "absent" THEN "not_found"
  ELSE IF id \in {"none", object[r][c]} THEN "owned" ELSE "uncertain"

-----------------------------------------------------------------------------
(* Beginning an operation.                                                 *)

Goto(p, l) == pc' = [pc EXCEPT ![p] = l]

(* Contract step p has to write now.                                       *)
Op(p) == Contract[at[p]]

(* A session object serves one lease; it is attached to a run of it or to  *)
(* none.                                                                   *)
SameLease(p, r) == run[p] # NoRun => LeaseOf[run[p]] = LeaseOf[r]

(* Another ledger of the project is active.                                *)
ProjectActive(r) ==
  \E q \in Runs : ProjectOf[q] = ProjectOf[r] /\ lifecycle[q] = "active"

(* prepare() up to the scan of the project's ledgers.  A refusal changes   *)
(* nothing.                                                                *)
BeginPrepare(p, r) ==
  /\ pc[p] = "idle" /\ SameLease(p, r)
  /\ run[p] \notin {NoRun, r} => CleanupConfirmed(run[p])
  /\ lease[LeaseOf[r]] = "ready"
  /\ ~Busy(r)
  /\ NoLedger(r)
  /\ ~Creating(ProjectOf[r])
  /\ ~ProjectActive(r)
  /\ run' = [run EXCEPT ![p] = r]
  /\ Goto(p, "create")
  /\ UNCHANGED <<ledgerVars, worldVars, at, found, crashes>>

(* create(): the ledger is saved active, with no operation yet.            *)
CreateLedger(p) ==
  /\ pc[p] = "create"
  /\ lifecycle' = [lifecycle EXCEPT ![run[p]] = "active"]
  /\ entry' = [entry EXCEPT ![run[p]] = [o \in Ops |-> "none"]]
  /\ identity' = [identity EXCEPT ![run[p]] = [o \in Ops |-> "none"]]
  /\ tunnel' = [tunnel EXCEPT ![run[p]] = {p}]
  /\ at' = [at EXCEPT ![p] = 1]
  /\ Goto(p, "step")
  /\ UNCHANGED <<worldVars, run, found, crashes>>

BeginCleanup(p) ==
  /\ pc[p] = "idle" /\ run[p] # NoRun
  /\ ~Busy(run[p])
  /\ Goto(p, "clean")
  /\ UNCHANGED <<ledgerVars, worldVars, run, at, found, crashes>>

(* Seeded fault: recovery keeps the dead session's tunnel in the binding.  *)
KeepBinding(p, r) == UNCHANGED tunnel

(* rebind_local_tunnel(): the binding's origin becomes that of p's tunnel. *)
RebindTunnel(p, r) == tunnel' = [tunnel EXCEPT ![r] = {p}]

(* recover(): any process may adopt a run whose lease still verifies.      *)
Recover(p, r) ==
  /\ pc[p] = "idle" /\ SameLease(p, r)
  /\ lease[LeaseOf[r]] = "ready"
  /\ ~Busy(r)
  /\ ~NoLedger(r)
  /\ RebindTunnel(p, r)
  /\ run' = [run EXCEPT ![p] = r]
  /\ Goto(p, "clean")
  /\ UNCHANGED <<lifecycle, entry, identity, worldVars, at, found, crashes>>

-----------------------------------------------------------------------------
(* prepare(): one contract step after the other.                           *)

(* _write() up to the intent.  Exact mode looks the marker up: it must     *)
(* match nothing before a creation and the recorded object before a        *)
(* mutation.  Exclusive mode reads the creator's entry instead.            *)
Preflight(p) ==
  LET r == run[p]
      o == Op(p)
      c == CreatorOf[o]
  IN  /\ pc[p] = "step" /\ at[p] <= Len(Contract)
      /\ IF Exclusive
           THEN o # c => entry[r][c] = "owned_confirmed"
           ELSE /\ Bound(p)
                /\ IF o = c THEN Select(r, c, "none") = "not_found"
                            ELSE /\ entry[r][c] # "none"
                                 /\ Select(r, c, identity[r][c]) = "owned"
      /\ Goto(p, "intent")
      /\ UNCHANGED <<ledgerVars, worldVars, run, at, found, crashes>>

Intent(p) ==
  /\ pc[p] = "intent"
  /\ lifecycle[run[p]] = "active"
  /\ entry[run[p]][Op(p)] = "none"
  /\ entry' = [entry EXCEPT ![run[p]][Op(p)] = "intent_persisted"]
  /\ Goto(p, "unknown")
  /\ UNCHANGED <<lifecycle, identity, tunnel, worldVars, run, at, found,
                 crashes>>

MarkUnknown(p) ==
  /\ pc[p] = "unknown"
  /\ Transition(run[p], Op(p), "outcome_unknown")
  /\ Goto(p, "send")
  /\ UNCHANGED <<lifecycle, identity, tunnel, worldVars, run, at, found,
                 crashes>>

Send(p) ==
  /\ pc[p] = "send" /\ Bound(p)
  /\ request' = [request EXCEPT ![run[p]][Op(p)] = "flying"]
  /\ Goto(p, "await")
  /\ UNCHANGED <<ledgerVars, object, deletes, lease, run, at, found, crashes>>

(* A response that meets the step's success conditions.                    *)
Respond(p) ==
  /\ pc[p] = "await"
  /\ request[run[p]][Op(p)] = "done"
  /\ Goto(p, "confirm")
  /\ UNCHANGED <<ledgerVars, worldVars, run, at, found, crashes>>

(* The identity the write's object is confirmed with: that of the response *)
(* or of the creator's entry in exclusive mode, that of a new lookup in    *)
(* exact mode ("none" if the lookup does not confirm it).                  *)
ConfirmedIdentity(r, o) ==
  LET c  == CreatorOf[o]
      id == IF o = c THEN "none" ELSE identity[r][c]
  IN  IF Exclusive THEN IF o = c THEN "own" ELSE id
      ELSE IF Select(r, c, id) = "owned" THEN object[r][c] ELSE "none"

(* The outcome is recorded and the session goes on to the next step.       *)
Confirm(p) ==
  LET r == run[p]
      o == Op(p)
  IN  /\ pc[p] = "confirm"
      /\ Exclusive \/ Bound(p)
      /\ ConfirmedIdentity(r, o) # "none"
      /\ Transition(r, o, "owned_confirmed")
      /\ identity' = [identity EXCEPT ![r][o] = ConfirmedIdentity(r, o)]
      /\ at' = [at EXCEPT ![p] = @ + 1]
      /\ Goto(p, "step")
      /\ UNCHANGED <<lifecycle, tunnel, worldVars, run, found, crashes>>

(* Any exception of prepare(), an unsatisfied assertion included, goes to  *)
(* the cleanup under the same lock.                                        *)
PrepareFails(p) ==
  /\ pc[p] \in {"step", "intent", "unknown", "send", "await", "confirm"}
  /\ Goto(p, "clean")
  /\ UNCHANGED <<ledgerVars, worldVars, run, at, found, crashes>>

(* The session leaves the operation and keeps its run.                     *)
Leave(p) ==
  /\ Goto(p, "idle")
  /\ at' = [at EXCEPT ![p] = 1]
  /\ found' = [found EXCEPT ![p] = "none"]

(* Prepared: the objects stay, unlocked, until cleanup() or recover().     *)
Prepared(p) ==
  /\ pc[p] = "step" /\ at[p] > Len(Contract)
  /\ Leave(p)
  /\ UNCHANGED <<ledgerVars, worldVars, run, crashes>>

-----------------------------------------------------------------------------
(* _cleanup_locked().                                                      *)

(* Creator whose object the cleanup is at, the recorded operations on it,  *)
(* and those not settled yet.                                              *)
Target(p) == CleanupSteps[at[p]]
Relevant(p) == {o \in Ops : /\ CreatorOf[o] = Target(p)
                            /\ entry[run[p]][o] # "none"}
Unsettled(p) == Relevant(p) \cap Pending(run[p])

StartCleanup(p) ==
  /\ pc[p] = "clean" /\ Bound(p) /\ p \in tunnel[run[p]]
  /\ at' = [at EXCEPT ![p] = 1]
  /\ Goto(p, "sweep")
  /\ UNCHANGED <<ledgerVars, worldVars, run, found, crashes>>

(* assert_binding() or the runtime's verification fails: cleanup_failed.   *)
CleanupRefused(p) ==
  /\ pc[p] = "clean"
  /\ Leave(p)
  /\ UNCHANGED <<ledgerVars, worldVars, run, crashes>>

(* Go on with the next cleanup step.                                       *)
NextCleanup(p) ==
  /\ at' = [at EXCEPT ![p] = @ + 1]
  /\ found' = [found EXCEPT ![p] = "none"]
  /\ Goto(p, "sweep")

SkipStep(p) ==
  /\ pc[p] = "sweep" /\ at[p] <= Len(CleanupSteps)
  /\ Unsettled(p) = {}
  /\ NextCleanup(p)
  /\ UNCHANGED <<ledgerVars, worldVars, run, crashes>>

(* Seeded fault: one empty lookup settles an unknown commit.               *)
EmptyIsAbsent(r, c) == Select(r, c, identity[r][c]) = "not_found"

(* The object is known to have existed and no longer does: an empty lookup *)
(* alone does not clear an unknown commit.                                 *)
KnownAbsent(r, c) ==
  identity[r][c] # "none" /\ Select(r, c, identity[r][c]) = "not_found"

LookUp(p) ==
  LET r == run[p]
      c == Target(p)
  IN  /\ pc[p] = "sweep" /\ at[p] <= Len(CleanupSteps)
      /\ Unsettled(p) # {}
      /\ Bound(p)
      /\ \/ /\ Select(r, c, identity[r][c]) = "owned"
            /\ found' = [found EXCEPT ![p] = object[r][c]]
            /\ Goto(p, "claim")
         \/ /\ KnownAbsent(r, c)
            /\ Goto(p, "absent")
            /\ UNCHANGED found
      /\ UNCHANGED <<ledgerVars, worldVars, run, at, crashes>>

(* An operation on the object found is claimed for deletion, one saved     *)
(* transition at a time.                                                   *)
ClaimedAs ==
  [intent_persisted |-> "outcome_unknown",
   outcome_unknown  |-> "owned_confirmed",
   cleanup_blocked  |-> "owned_confirmed",
   owned_confirmed  |-> "cleanup_pending"]

ToClaim(p) == {o \in Relevant(p) : entry[run[p]][o] \in DOMAIN ClaimedAs}

Claim(p) ==
  /\ pc[p] = "claim"
  /\ \E o \in ToClaim(p) :
       LET next == ClaimedAs[entry[run[p]][o]]
       IN  /\ Transition(run[p], o, next)
           /\ identity' = IF next = "owned_confirmed"
                             THEN [identity EXCEPT ![run[p]][o] = found[p]]
                             ELSE identity
  /\ UNCHANGED <<lifecycle, tunnel, worldVars, sessionVars, crashes>>

(* The deletion names the identity found; its outcome is not looked at.    *)
SendDelete(p) ==
  /\ pc[p] = "claim" /\ ToClaim(p) = {}
  /\ \/ /\ Bound(p)
        /\ deletes' = deletes \cup {<<run[p], Target(p), found[p]>>}
     \/ UNCHANGED deletes
  /\ Goto(p, "poll")
  /\ UNCHANGED <<ledgerVars, request, object, lease, run, at, found, crashes>>

PollGone(p) ==
  /\ pc[p] = "poll" /\ Bound(p)
  /\ Select(run[p], Target(p), found[p]) = "not_found"
  /\ Goto(p, "absent")
  /\ UNCHANGED <<ledgerVars, worldVars, run, at, found, crashes>>

MarkAbsent(p) ==
  /\ pc[p] = "absent"
  /\ \/ /\ \E o \in Unsettled(p) : Transition(run[p], o, "absent_confirmed")
        /\ UNCHANGED sessionVars
     \/ /\ Unsettled(p) = {}
        /\ NextCleanup(p)
        /\ UNCHANGED <<entry, run>>
  /\ UNCHANGED <<lifecycle, identity, tunnel, worldVars, crashes>>

(* An exception of one cleanup step is recorded; the others still run.     *)
CleanupStepFails(p) ==
  /\ \/ pc[p] = "sweep" /\ at[p] <= Len(CleanupSteps) /\ Unsettled(p) # {}
     \/ pc[p] \in {"claim", "poll", "absent"}
  /\ NextCleanup(p)
  /\ UNCHANGED <<ledgerVars, worldVars, run, crashes>>

SweepDone(p) ==
  /\ pc[p] = "sweep" /\ at[p] > Len(CleanupSteps)
  /\ Goto(p, IF ReleaseRequired THEN "release" ELSE "close")
  /\ UNCHANGED <<ledgerVars, worldVars, run, at, found, crashes>>

(* Everything that lived in lease l is destroyed with it.                  *)
DestroyWorld(l) ==
  /\ request' = [r \in Runs |-> [o \in Ops |->
                   IF LeaseOf[r] = l /\ request[r][o] = "flying"
                     THEN "refused" ELSE request[r][o]]]
  /\ object' = [r \in Runs |-> [c \in Creators |->
                  IF LeaseOf[r] = l THEN "absent" ELSE object[r][c]]]
  /\ deletes' = {d \in deletes : LeaseOf[d[1]] # l}

(* The environment releaser returns with a verified audit.                 *)
ReleaseEnvironment(p) ==
  /\ pc[p] = "release" /\ Bound(p)
  /\ lease' = [lease EXCEPT ![LeaseOf[run[p]]] = "gone"]
  /\ DestroyWorld(LeaseOf[run[p]])
  /\ Goto(p, "released")
  /\ UNCHANGED <<ledgerVars, run, at, found, crashes>>

(* No release, or none with a verified audit: cleanup_failed.              *)
ReleaseFails(p) ==
  /\ pc[p] = "release"
  /\ Leave(p)
  /\ UNCHANGED <<ledgerVars, worldVars, run, crashes>>

(* Whatever is still pending is settled by the release.  An entry that     *)
(* cannot become absent raises out of the cleanup.                         *)
CanSettle(r) == {o \in Pending(r) : "absent_confirmed" \in Transitions[entry[r][o]]}

SettleByRelease(p) ==
  /\ pc[p] = "released"
  /\ \/ /\ \E o \in CanSettle(run[p]) :
             Transition(run[p], o, "absent_confirmed")
        /\ UNCHANGED sessionVars
     \/ /\ CleanupConfirmed(run[p])
        /\ Goto(p, "close")
        /\ UNCHANGED <<entry, run, at, found>>
     \/ /\ CanSettle(run[p]) = {} /\ ~CleanupConfirmed(run[p])
        /\ Leave(p)
        /\ UNCHANGED <<entry, run>>
  /\ UNCHANGED <<lifecycle, identity, tunnel, worldVars, crashes>>

Close(p) ==
  /\ pc[p] = "close"
  /\ lifecycle' = IF CleanupConfirmed(run[p])
                    THEN [lifecycle EXCEPT ![run[p]] = "closed"]
                    ELSE lifecycle
  /\ Leave(p)
  /\ UNCHANGED <<entry, identity, tunnel, worldVars, run, crashes>>

-----------------------------------------------------------------------------
(* The end of a session: its tunnel closes, its locks are free.            *)

Detach(p) ==
  /\ run' = [run EXCEPT ![p] = NoRun]
  /\ tunnel' = [r \in Runs |-> tunnel[r] \ {p}]
  /\ Leave(p)
  /\ UNCHANGED <<lifecycle, entry, identity, worldVars>>

Exit(p) ==
  /\ pc[p] = "idle" /\ run[p] # NoRun
  /\ Detach(p)
  /\ UNCHANGED crashes

Crash(p) ==
  /\ pc[p] # "idle" /\ crashes < MaxCrashes
  /\ Detach(p)
  /\ crashes' = crashes + 1

-----------------------------------------------------------------------------
(* The application and the lease.                                          *)

(* A request takes effect, possibly long after its sender gave up.         *)
Commit(r, o) ==
  /\ request[r][o] = "flying"
  /\ request' = [request EXCEPT ![r][o] = "done"]
  /\ object' = IF o \in Creators THEN [object EXCEPT ![r][o] = "own"]
                                  ELSE object
  /\ UNCHANGED <<ledgerVars, deletes, lease, sessionVars, crashes>>

Refuse(r, o) ==
  /\ request[r][o] = "flying"
  /\ request' = [request EXCEPT ![r][o] = "refused"]
  /\ UNCHANGED <<ledgerVars, object, deletes, lease, sessionVars, crashes>>

(* A deletion removes the object of that identity and no other.            *)
DeleteEnds(d) ==
  /\ deletes' = deletes \ {d}
  /\ \/ UNCHANGED object
     \/ /\ object[d[1]][d[2]] = d[3]
        /\ object' = [object EXCEPT ![d[1]][d[2]] = "absent"]
  /\ UNCHANGED <<ledgerVars, request, lease, sessionVars, crashes>>

(* Somebody replaces the object by one with the same marker.  Only an      *)
(* object whose identity is on record can be told from its copy.           *)
Replace(r, c) ==
  /\ object[r][c] = "own" /\ identity[r][c] = "own"
  /\ object' = [object EXCEPT ![r][c] = "copy"]
  /\ UNCHANGED <<ledgerVars, request, deletes, lease, sessionVars, crashes>>

(* The lease expires or is released by somebody else; what lived in it is  *)
(* destroyed or, after a failed cleanup, left behind.                      *)
LeaseEnds(l) ==
  /\ lease[l] = "ready"
  /\ lease' = [lease EXCEPT ![l] = "gone"]
  /\ DestroyWorld(l) \/ UNCHANGED <<request, object, deletes>>
  /\ UNCHANGED <<ledgerVars, sessionVars, crashes>>

-----------------------------------------------------------------------------
Init ==
  /\ lifecycle = [r \in Runs |-> "none"]
  /\ entry = [r \in Runs |-> [o \in Ops |-> "none"]]
  /\ identity = [r \in Runs |-> [o \in Ops |-> "none"]]
  /\ tunnel = [r \in Runs |-> {}]
  /\ request = [r \in Runs |-> [o \in Ops |-> "unsent"]]
  /\ object = [r \in Runs |-> [c \in Creators |-> "absent"]]
  /\ deletes = {}
  /\ lease = [l \in Leases |-> "ready"]
  /\ pc = [p \in Sessions |-> "idle"]
  /\ run = [p \in Sessions |-> NoRun]
  /\ at = [p \in Sessions |-> 1]
  /\ found = [p \in Sessions |-> "none"]
  /\ crashes = 0

(* A step of a session inside an operation.                                *)
PrepareStep(p) ==
  \/ CreateLedger(p) \/ Preflight(p) \/ Intent(p) \/ MarkUnknown(p)
  \/ Send(p) \/ Respond(p) \/ Confirm(p) \/ PrepareFails(p) \/ Prepared(p)

CleanupStep(p) ==
  \/ StartCleanup(p) \/ CleanupRefused(p) \/ SkipStep(p) \/ LookUp(p)
  \/ Claim(p) \/ SendDelete(p) \/ PollGone(p) \/ MarkAbsent(p)
  \/ CleanupStepFails(p) \/ SweepDone(p) \/ ReleaseEnvironment(p)
  \/ ReleaseFails(p) \/ SettleByRelease(p) \/ Close(p)

World ==
  \/ \E r \in Runs, o \in Ops : Commit(r, o) \/ Refuse(r, o)
  \/ \E d \in deletes : DeleteEnds(d)
  \/ \E r \in Runs, c \in Creators : Replace(r, c)
  \/ \E l \in Leases : LeaseEnds(l)

Next ==
  \/ \E p \in Sessions, r \in Runs : BeginPrepare(p, r) \/ Recover(p, r)
  \/ \E p \in Sessions : \/ BeginCleanup(p) \/ PrepareStep(p)
                          \/ CleanupStep(p) \/ Exit(p) \/ Crash(p)
  \/ World

Spec == Init /\ [][Next]_vars

-----------------------------------------------------------------------------
(* Properties.                                                             *)

Locations == {"idle", "create", "step", "intent", "unknown", "send", "await",
              "confirm", "clean", "sweep", "claim", "poll", "absent",
              "release", "released", "close"}

(* Type invariant: ledgers, application and sessions have the states the   *)
(* code gives them, and an index never runs past the end of its list.      *)
TypeOK ==
  /\ lifecycle \in [Runs -> {"none", "active", "closed"}]
  /\ entry \in [Runs -> [Ops -> EntryStates \cup {"none"}]]
  /\ identity \in [Runs -> [Ops -> Identities \cup {"none"}]]
  /\ tunnel \in [Runs -> SUBSET Sessions]
  /\ request \in [Runs -> [Ops -> {"unsent", "flying", "done", "refused"}]]
  /\ object \in [Runs -> [Creators -> Identities \cup {"absent"}]]
  /\ deletes \subseteq Runs \X Creators \X (Identities \cup {"none"})
  /\ lease \in [Leases -> {"ready", "gone"}]
  /\ pc \in [Sessions -> Locations]
  /\ run \in [Sessions -> Runs \cup {NoRun}]
  /\ at \in [Sessions -> Nat \ {0}]
  /\ found \in [Sessions -> Identities \cup {"none"}]
  /\ crashes \in 0 .. MaxCrashes

(* At most one session is inside an operation on a run: two processes      *)
(* never prepare, clean up or recover the same transaction at once.        *)
OneOperator ==
  \A p, q \in Sessions :
    pc[p] # "idle" /\ pc[q] # "idle" /\ run[p] = run[q] => p = q

(* A project never has two active transactions: create() scans the ledgers *)
(* and saves its own in two steps, with other processes in between.        *)
OneActiveRun ==
  \A r, q \in Runs :
    /\ ProjectOf[r] = ProjectOf[q]
    /\ lifecycle[r] = "active" /\ lifecycle[q] = "active"
    => r = q

(* No write reaches the application twice, however often a run is          *)
(* prepared, crashes and is recovered.                                     *)
NeverSentTwice ==
  \A p \in Sessions : pc[p] = "send" => request[run[p]][Op(p)] = "unsent"

(* What the ledger says is not there is not there: as long as a creation   *)
(* is unrecorded, only intended, or confirmed absent, no object of it      *)
(* exists and none can still appear.  In particular nothing is left once   *)
(* a run is closed.                                                        *)
LedgerCoversObjects ==
  \A r \in Runs, c \in Creators :
    \/ entry[r][c] \in {"none", "intent_persisted", "absent_confirmed"}
    \/ lifecycle[r] = "closed"
    => object[r][c] # "own" /\ request[r][c] # "flying"

(* A deletion is only ever sent for an object the ledger claims, and a     *)
(* ledger entry that claims an object carries its identity.                *)
DeletionsAreClaimed ==
  /\ \A r \in Runs, o \in Ops :
       entry[r][o] \in {"owned_confirmed", "cleanup_pending"}
         => identity[r][o] = "own"
  /\ \A d \in deletes : /\ d[3] = "own"
                         /\ entry[d[1]][d[2]] \in {"cleanup_pending",
                                                  "absent_confirmed"}

(* An object that replaced the run's own under the same marker is never    *)
(* deleted by a cleanup; it goes with its lease only.                      *)
CopiesSurvive ==
  [][\A r \in Runs, c \in Creators :
       object[r][c] = "copy" /\ object'[r][c] # "copy"
         => lease[LeaseOf[r]] = "ready" /\ lease'[LeaseOf[r]] = "gone"]_vars

(* Every save moves an entry along TRANSITIONS, a recorded operation is    *)
(* never forgotten, and a closed run stays closed and settled.             *)
LedgerSteps ==
  [][\A r \in Runs :
       /\ \A o \in Ops :
            \/ entry'[r][o] = entry[r][o]
            \/ entry[r][o] = "none" /\ entry'[r][o] = "intent_persisted"
            \/ /\ entry[r][o] \in EntryStates
               /\ entry'[r][o] \in Transitions[entry[r][o]]
       /\ lifecycle[r] = "closed" => /\ lifecycle'[r] = "closed"
                                     /\ entry'[r] = entry[r]]_vars

(* What a session inside an operation relies on, by its place in it.       *)
Preparing == {"step", "intent", "unknown", "send", "await", "confirm"}
Writing == Preparing \ {"step"}
Deleting == {"claim", "poll", "absent"}

SessionInv ==
  \A p \in Sessions :
    /\ pc[p] # "idle" => run[p] # NoRun
    /\ run[p] # NoRun => (pc[p] = "create" <=> lifecycle[run[p]] = "none")
    /\ pc[p] \in Preparing => lifecycle[run[p]] = "active"
    /\ pc[p] \in Writing => at[p] <= Len(Contract)
    /\ pc[p] \in Deleting => at[p] <= Len(CleanupSteps)

(* A ledger is created while no other of the project is active or being    *)
(* created.                                                                *)
CreateInv ==
  \A p, q \in Sessions :
    pc[p] = "create" =>
      /\ ~ProjectActive(run[p])
      /\ pc[q] = "create" /\ ProjectOf[run[p]] = ProjectOf[run[q]] => p = q

(* The ledger is ahead of the wire at every single step of a write.        *)
WriteInv ==
  \A p \in Sessions :
    LET r == run[p] IN
    /\ pc[p] = "unknown" => entry[r][Op(p)] = "intent_persisted"
    /\ pc[p] \in {"send", "await", "confirm"}
         => entry[r][Op(p)] = "outcome_unknown"
    /\ pc[p] = "send" => request[r][Op(p)] = "unsent"
    /\ pc[p] = "confirm" => request[r][Op(p)] = "done"

(* What the ledger, the wire and the application say of one operation.     *)
EntryInv ==
  \A r \in Runs, o \in Ops :
    /\ lifecycle[r] = "none" => entry[r][o] = "none"
    /\ entry[r][o] \notin {"not_sent", "cleanup_blocked"}
    /\ entry[r][o] \in {"none", "intent_persisted"} => request[r][o] = "unsent"
    /\ entry[r][o] \in {"none", "intent_persisted", "outcome_unknown"}
         => identity[r][o] = "none"
    /\ identity[r][o] # "copy"
    /\ identity[r][o] = "own" => request[r][CreatorOf[o]] = "done"
    /\ lifecycle[r] = "closed" => o \notin Pending(r)

ObjectInv ==
  \A r \in Runs, c \in Creators :
    /\ object[r][c] # "absent" => request[r][c] = "done"
    /\ object[r][c] = "copy" => identity[r][c] = "own"

(* A cleanup deletes what it has identified, and settles what is gone.     *)
CleanupInv ==
  \A p \in Sessions :
    LET r == run[p] IN
    /\ pc[p] \in Deleting => request[r][Target(p)] = "done"
    /\ pc[p] \in {"claim", "poll"} => found[p] = "own"
    /\ pc[p] = "absent" => object[r][Target(p)] = "absent"
    /\ pc[p] = "released" =>
         /\ \A o \in Ops : request[r][o] # "flying"
         /\ \A c \in Creators : object[r][c] = "absent"

(* At every step the ledger, the application and the session's place agree *)
(* in the way the recovery of that step, by whichever process, depends on. *)
RecoverableSteps ==
  /\ SessionInv /\ CreateInv /\ WriteInv
  /\ EntryInv /\ ObjectInv /\ CleanupInv

-----------------------------------------------------------------------------
(* Liveness.  A session inside an operation goes on.  Recovery is retried  *)
(* by somebody, and neither the cluster queries nor the release fail for   *)
(* ever.                                                                   *)
FairSpec ==
  /\ Spec
  /\ \A p \in Sessions :
       /\ WF_vars(PrepareStep(p) \/ CleanupStep(p))
       /\ SF_vars(StartCleanup(p))
       /\ SF_vars(ReleaseEnvironment(p))
  /\ \A p \in Sessions, r \in Runs : SF_vars(Recover(p, r))

(* In a disposable environment the environment of an active run is         *)
(* released in the end, whatever its sessions lost or left behind.         *)
EnvironmentsAreReleased ==
  \A r \in Runs :
    lifecycle[r] = "active" ~> lease[LeaseOf[r]] = "gone"
=============================================================================
