----------------------------- MODULE EffectFence -----------------------------
(***************************************************************************)
(* The right of a tool call to change the world: the runs of some sessions *)
(* in several processes, and the worker threads of their tool calls, which *)
(* a timeout abandons but cannot kill (tools/registry.py).                 *)
(*                                                                         *)
(* A worker commits its effect inside the mutation authority of its        *)
(* binding (core/tool_execution_journal.py): the binding is not revoked,   *)
(* and the run is still the authority.  For the main loop that is the      *)
(* generation its process holds active (core/session.py), for a fleet      *)
(* child the lease of its run (subagent/runner.py), whose life is the      *)
(* subject of FleetLease and here only ends.  Calls that edit the file do  *)
(* so under its path lock (workspace/file_service.py).                     *)
(*                                                                         *)
(* Locks are held by being at certain points of the code, so they are      *)
(* predicates over the positions of runs and workers.                      *)
(***************************************************************************)
EXTENDS Naturals

CONSTANTS
    Runs,      \* the runs
    SessionOf, \* run -> its session
    HostOf,    \* run -> its process
    Managed,   \* the sessions of fleet children: each run has a lease
    MaxCalls,  \* bound: tool calls of one run
    Edits,     \* the calls that edit the file; the others start a command
    None       \* nobody's bytes

Attempts == Runs \X (1..MaxCalls)

Procs == {HostOf[r] : r \in Runs}
Sessions == {SessionOf[r] : r \in Runs}

ASSUME RunAssumption == DOMAIN HostOf = Runs /\ DOMAIN SessionOf = Runs
ASSUME CallAssumption == MaxCalls \in Nat /\ Edits \subseteq Attempts
ASSUME ManagedAssumption == Managed \subseteq Sessions
ASSUME NoneAssumption == None \notin Attempts

VARIABLES
    phase,    \* run -> where its loop is
    calls,    \* run -> the calls it has dispatched
    active,   \* the runs whose generation is active in their process
    worker,   \* attempt -> where its worker thread is
    revoked,  \* attempts whose binding is revoked
    told,     \* attempt -> what the loop was told of it
    landed,   \* attempts whose effect has happened
    file,     \* the attempt that wrote the file last, or None
    base,     \* attempt -> what it read of the file
    lost,     \* runs whose lease is not current any more
    fenced    \* <<process, session>>: the process saw its lease lost (sticky)

loop == <<phase, calls, active, told>>
world == <<landed, file>>
fenceVars == <<phase, calls, active, worker, revoked, told, landed, file, base,
          lost, fenced>>

-----------------------------------------------------------------------------
\* Helpers

Host(a) == HostOf[a[1]]
Current(r) == <<r, calls[r]>>
Leased(r) == SessionOf[r] \in Managed
Place(r) == <<HostOf[r], SessionOf[r]>>

\* The points inside the context of effect_mutation_authority.
Committing == {"committing", "landed"}
Window == {"probed"} \union Committing
Returned == {"done", "denied", "failed"}
Holding == {"locked", "ready", "waiting", "revoking", "unwinding", "closing"}

\* <sid>.run.lock
RunLockFree(session) ==
    \A r \in Runs : SessionOf[r] = session => phase[r] \notin Holding

\* Mutant: nobody waits for the binding's authority lock.
AuthorityAlwaysFree(a) == TRUE

\* The binding's authority lock.
AuthorityFree(a) == worker[a] \notin Window

\* Mutant: the generation check does not hold the guard across the commit.
GuardAlwaysFree(p) == TRUE

\* _run_save_tokens_guard, one for all sessions of a process; a fleet child's
\* bindings carry no generation and do not take it.
GuardFree(p) ==
    \A a \in Attempts :
        Host(a) = p /\ ~Leased(a[1]) => worker[a] \notin Committing

\* Mutant: edits of the same file are not serialised.
PathAlwaysFree == TRUE

\* The lock of the edited path, across processes.
Editing(a) == worker[a] \in {"reading", "prepared"} \union Window
PathFree == \A a \in Edits : ~Editing(a)

Move(a, stage) == worker' = [worker EXCEPT ![a] = stage]

FenceInit ==
    /\ phase = [r \in Runs |-> "new"] /\ calls = [r \in Runs |-> 0]
    /\ active = {}
    /\ worker = [a \in Attempts |-> "none"] /\ revoked = {}
    /\ told = [a \in Attempts |-> "nothing"]
    /\ landed = {} /\ file = None /\ base = [a \in Attempts |-> None]
    /\ lost = {} /\ fenced = {}

-----------------------------------------------------------------------------
\* A run

\* run_lease; a run that finds the lock taken reports the session busy.
AcquireRunLock(r) ==
    /\ phase[r] = "new"
    /\ RunLockFree(SessionOf[r])
    /\ phase' = [phase EXCEPT ![r] = "locked"]
    /\ UNCHANGED <<calls, active, worker, revoked, told, world, base, lost, fenced>>

\* _activate_run_save_token replaces the session's entry in the process's map.
Activate(r) ==
    /\ phase[r] = "locked"
    /\ GuardFree(HostOf[r])
    /\ active' = {s \in active : Place(s) # Place(r)} \union {r}
    /\ phase' = [phase EXCEPT ![r] = "ready"]
    /\ UNCHANGED <<calls, worker, revoked, told, world, base, lost, fenced>>

\* Mutant: the sticky fence is not consulted when a binding is made.
BornFree(r) == FALSE

\* effect_context, effect_bindings: a binding made after a loss is revoked.
BornRevoked(r) == Place(r) \in fenced

\* The next call gets its binding and its worker thread.  A call of a round
\* whose earlier call fenced the session is still dispatched.
Dispatch(r) ==
    /\ phase[r] = "ready"
    /\ calls[r] < MaxCalls
    /\ calls' = [calls EXCEPT ![r] = @ + 1]
    /\ LET a == <<r, calls[r] + 1>> IN
         /\ Move(a, "ready")
         /\ revoked' = IF BornRevoked(r) THEN revoked \union {a} ELSE revoked
    /\ phase' = [phase EXCEPT ![r] = "waiting"]
    /\ UNCHANGED <<active, told, world, base, lost, fenced>>

\* The worker's future is done.
Harvest(r) ==
    /\ phase[r] = "waiting"
    /\ worker[Current(r)] \in Returned
    /\ told' = [told EXCEPT ![Current(r)] = worker[Current(r)]]
    /\ phase' = [phase EXCEPT ![r] = "ready"]
    /\ UNCHANGED <<calls, active, worker, revoked, world, base, lost, fenced>>

\* The registry's timeout: it gives up waiting.
TimeOut(r) ==
    /\ phase[r] = "waiting"
    /\ phase' = [phase EXCEPT ![r] = "revoking"]
    /\ UNCHANGED <<calls, active, worker, revoked, told, world, base, lost, fenced>>

\* It revokes the binding before TIMEOUT becomes visible.
Revoke(r) ==
    /\ phase[r] = "revoking"
    /\ AuthorityFree(Current(r))
    /\ revoked' = revoked \union {Current(r)}
    /\ told' = [told EXCEPT ![Current(r)] = "timeout"]
    /\ phase' = [phase EXCEPT ![r] = "ready"]
    /\ UNCHANGED <<calls, active, worker, world, base, lost, fenced>>

\* An interrupt of the loop's thread leaves the wait, and nothing is revoked; a
\* fleet child's loop runs in a worker thread, which gets no interrupts.
Interrupted(r) ==
    /\ ~Leased(r)
    /\ phase[r] = "waiting"
    /\ phase' = [phase EXCEPT ![r] = "unwinding"]
    /\ UNCHANGED <<calls, active, worker, revoked, told, world, base, lost, fenced>>

\* Only the run's own entry is removed.
Deactivated(r) == active \ {r}

\* _deactivate_run_save_token, at the end of the run or of its unwinding.
Deactivate(r) ==
    /\ phase[r] \in {"ready", "unwinding"}
    /\ GuardFree(HostOf[r])
    /\ active' = Deactivated(r)
    /\ phase' = [phase EXCEPT ![r] = "closing"]
    /\ UNCHANGED <<calls, worker, revoked, told, world, base, lost, fenced>>

\* The run lock is released last.
ReleaseRunLock(r) ==
    /\ phase[r] = "closing"
    /\ phase' = [phase EXCEPT ![r] = "over"]
    /\ UNCHANGED <<calls, active, worker, revoked, told, world, base, lost, fenced>>

\* _renew_fleet_run between two rounds: a failed renewal, whatever the reason,
\* fences the session, and the loop ends as refused.
RenewalFails(r) ==
    /\ Leased(r)
    /\ phase[r] = "ready"
    /\ fenced' = fenced \union {Place(r)}
    /\ phase' = [phase EXCEPT ![r] = "unwinding"]
    /\ UNCHANGED <<calls, active, worker, revoked, told, world, base, lost>>

\* The lease expires, is taken over or is settled.
LoseLease(r) ==
    /\ Leased(r)
    /\ r \notin lost
    /\ lost' = lost \union {r}
    /\ UNCHANGED <<loop, worker, revoked, world, base, fenced>>

-----------------------------------------------------------------------------
\* A worker

\* An edit takes the lock of its path and reads the file.
ReadFile(a) ==
    /\ a \in Edits
    /\ worker[a] = "ready"
    /\ PathFree
    /\ base' = [base EXCEPT ![a] = file]
    /\ Move(a, "reading")
    /\ UNCHANGED <<loop, revoked, world, lost, fenced>>

\* The bytes are still those it read, and the intended effect is durable;
\* otherwise the edit fails.
Prepare(a) ==
    /\ worker[a] = "reading"
    /\ \/ file = base[a] /\ Move(a, "prepared")
       \/ Move(a, "failed")
    /\ UNCHANGED <<loop, revoked, world, base, lost, fenced>>

\* The worker asks for the authority to mutate.
AsksAuthority(a) == worker[a] = IF a \in Edits THEN "prepared" ELSE "ready"

\* The binding's lock is taken and the binding is not revoked.
EnterAuthority(a) ==
    /\ ~Leased(a[1])
    /\ AsksAuthority(a)
    /\ Move(a, IF a \in revoked THEN "denied" ELSE "probed")
    /\ UNCHANGED <<loop, revoked, world, base, lost, fenced>>

\* Mutant: a late worker finds its generation owned.
OwnedAnyway(a) == TRUE

\* run_generation_authority
Owned(a) == a[1] \in active

\* The guard is taken and the generation is still active.
EnterGuard(a) ==
    /\ worker[a] = "probed"
    /\ GuardFree(Host(a))
    /\ Move(a, IF Owned(a) THEN "committing" ELSE "denied")
    /\ UNCHANGED <<loop, revoked, world, base, lost, fenced>>

\* A fleet child's binding probes its lease; a probe that fails, or that cannot
\* read the registry, revokes the binding and fences the session.
ProbeLease(a) ==
    /\ Leased(a[1])
    /\ AsksAuthority(a)
    /\ \/ /\ a \notin revoked /\ a[1] \notin lost
          /\ Move(a, "committing")
          /\ UNCHANGED <<revoked, fenced>>
       \/ /\ Move(a, "denied")
          /\ revoked' = revoked \union {a}
          /\ fenced' = IF a \in revoked THEN fenced ELSE fenced \union {Place(a[1])}
    /\ UNCHANGED <<loop, world, base, lost>>

\* The physical commit: os.replace, or the start of the command.
Land(a) ==
    /\ worker[a] = "committing"
    /\ \/ /\ landed' = landed \union {a}
          /\ file' = IF a \in Edits THEN a ELSE file
          /\ Move(a, "landed")
       \/ Move(a, "failed") /\ UNCHANGED world
    /\ UNCHANGED <<loop, revoked, base, lost, fenced>>

\* Mutant: the active generation is read inside the window, under its guard.
MayLeaveRereads(a) == worker[a] = "landed" /\ GuardFree(Host(a))

MayLeave(a) == worker[a] = "landed"

\* The locks are released and the tool returns.
LeaveAuthority(a) ==
    /\ MayLeave(a)
    /\ Move(a, "done")
    /\ UNCHANGED <<loop, revoked, world, base, lost, fenced>>

-----------------------------------------------------------------------------
\* The process dies, with its threads; its runs are over.
ProcessDies(p) ==
    /\ active' = {r \in active : HostOf[r] # p}
    /\ phase' = [r \in Runs |->
           IF HostOf[r] = p /\ phase[r] \in Holding THEN "over" ELSE phase[r]]
    /\ worker' = [a \in Attempts |->
           IF Host(a) = p /\ worker[a] \notin {"none"} \union Returned
             THEN "dead" ELSE worker[a]]
    /\ fenced' = {place \in fenced : place[1] # p}
    /\ UNCHANGED <<calls, revoked, told, world, base, lost>>

RunStep(r) ==
    \/ AcquireRunLock(r) \/ Activate(r) \/ Dispatch(r) \/ Harvest(r)
    \/ TimeOut(r) \/ Revoke(r) \/ Interrupted(r) \/ Deactivate(r)
    \/ ReleaseRunLock(r) \/ RenewalFails(r) \/ LoseLease(r)

WorkerStep(a) ==
    \/ ReadFile(a) \/ Prepare(a) \/ EnterAuthority(a) \/ EnterGuard(a)
    \/ ProbeLease(a) \/ Land(a) \/ LeaveAuthority(a)

FenceNext ==
    \/ \E r \in Runs : RunStep(r)
    \/ \E a \in Attempts : WorkerStep(a)
    \/ \E p \in Procs : ProcessDies(p)

FenceSpec == FenceInit /\ [][FenceNext]_fenceVars

\* The loop goes on, its timeouts fire and commits in progress end.  A tool may
\* hang for ever anywhere else.
FairFenceSpec ==
    /\ FenceSpec
    /\ \A r \in Runs :
          /\ WF_fenceVars(Activate(r)) /\ WF_fenceVars(Deactivate(r))
          /\ WF_fenceVars(ReleaseRunLock(r)) /\ WF_fenceVars(Harvest(r))
          /\ WF_fenceVars(TimeOut(r)) /\ WF_fenceVars(Revoke(r))
    /\ \A a \in Attempts :
          /\ WF_fenceVars(EnterGuard(a)) /\ WF_fenceVars(Land(a))
          /\ WF_fenceVars(LeaveAuthority(a))

-----------------------------------------------------------------------------
\* Properties

Phases == {"new", "over"} \union Holding
Stages == {"none", "ready", "reading", "prepared", "dead"} \union Window
            \union Returned

\* The state keeps its shape, one run at a time holds a session, and only a run
\* that is under way is active in its process.
FenceTypeOK ==
    /\ phase \in [Runs -> Phases] /\ calls \in [Runs -> 0..MaxCalls]
    /\ worker \in [Attempts -> Stages] /\ revoked \subseteq Attempts
    /\ told \in [Attempts -> {"nothing", "timeout"} \union Returned]
    /\ landed \subseteq Attempts /\ file \in Edits \union {None}
    /\ base \in [Attempts -> Edits \union {None}]
    /\ lost \subseteq Runs /\ fenced \subseteq Procs \X Managed
    /\ active = {r \in Runs : phase[r] \in {"ready", "waiting", "revoking",
                                            "unwinding"}}
    /\ \A r \in Runs : phase[r] \in {"waiting", "revoking"} => calls[r] # 0
    /\ \A r, s \in Runs : phase[r] \in Holding /\ phase[s] \in Holding
                            /\ SessionOf[r] = SessionOf[s] => r = s

\* After the model was told that a call timed out, nothing that the abandoned
\* worker does changes the world any more (the wait of revoke for the window).
SilentAfterTimeout ==
    [][\A a \in Attempts :
          told[a] = "timeout" => (a \in landed' <=> a \in landed)]_fenceVars

\* A worker thread that has not returned.
Live(a) == worker[a] \notin {"none", "dead"} \union Returned

\* The loop of the call's run waits for this very call.
Awaited(a) ==
    phase[a[1]] \in {"waiting", "revoking"} /\ a = Current(a[1])

\* What effect_mutation_authority promises, "exact attempt + run ownership
\* across one physical mutation commit": while a commit is in progress its
\* binding is not revoked, and its run is the authority; a fleet child's, whose
\* lease was looked at only when it entered, is the one its loop waits for.
OwnershipHeld ==
    \A a \in Attempts : worker[a] \in Committing =>
        /\ a \notin revoked
        /\ IF Leased(a[1]) THEN Awaited(a) ELSE Owned(a)

\* Revocation is final for the binding: a worker whose binding is revoked, and
\* so every one whose timeout was told, is not inside the authority, whatever it
\* had begun (revoke waits for the binding's lock).
RevokedStayOut ==
    /\ \A a \in revoked : worker[a] \notin Window
    /\ \A a \in Attempts : told[a] = "timeout" => a \in revoked

\* A fleet child leaves no thread behind that could still act: what has not
\* returned is the call its loop waits for or was revoked, and all of it was
\* revoked once the session is fenced.
ChildrenAreAwaited ==
    \A a \in Attempts : Leased(a[1]) /\ Live(a) /\ a \notin revoked =>
        Awaited(a) /\ Place(a[1]) \notin fenced

\* One edit at a time is between its read and its return, and while it may
\* still land the file is what it read.
OneEditor ==
    \A a \in Edits :
        /\ worker[a] \in {"prepared", "probed", "committing"} => base[a] = file
        /\ \A b \in Edits :
              Editing(a) /\ Editing(b) => a = b

\* The fence is never out of step with the runs it stands for, whatever
\* timeouts, interrupts, lost leases and crashes come between: one holder per
\* session, only runs under way active, every commit in progress owned, nobody
\* revoked inside, one editor.  The parts above together, which is the invariant
\* that every step preserves.
FenceIsSound ==
    /\ FenceTypeOK
    /\ OwnershipHeld
    /\ RevokedStayOut
    /\ ChildrenAreAwaited
    /\ OneEditor

\* No effect lands, from whatever abandoned thread of whatever process, unless
\* the run of its call still holds the session's run lock.
LandsUnderRunLock ==
    [][\A a \in landed' \ landed : phase[a[1]] \in Holding]_fenceVars

\* An edit replaces exactly the bytes it read, although other sessions, in this
\* process and in others, edit the same file (the path lock).
NoLostEdit ==
    [][file' # file => base[file'] = file]_fenceVars

\* Once a process has seen the lease of a session lost, or could not tell, none
\* of its calls changes the world again, even if the lease is still current.
FencedIsSilent ==
    [][\A a \in landed' \ landed : Place(a[1]) \notin fenced]_fenceVars

\* A run that has its session gives it back, although tools may hang: nobody
\* waits for ever on the binding's lock, the guard or the path lock.
RunsFinish ==
    \A r \in Runs : (phase[r] \in Holding) ~> (phase[r] = "over")
=============================================================================
