------------------------------ MODULE WakeSchedule ------------------------------
(***************************************************************************)
(* One entry of the shared schedule file and the processes that tick on it *)
(* (core/scheduler.py): a wake that a human authorised, which is to start  *)
(* a run of the loop when its time comes, or to end as a notification.     *)
(*                                                                         *)
(* Three stores describe the entry: the schedule file, the private ledger  *)
(* of authorisations (core/trace_leak/wake_authority.py) and the grants in *)
(* each process's memory.  A claim (a lease in the file) gives one         *)
(* scheduler thread the delivery (core/schedule_delivery.py); the run it   *)
(* queues is admitted later, by its own thread, and its terminal callback  *)
(* later still.                                                            *)
(*                                                                         *)
(* Every change of the file is one read-modify-write under the file lock   *)
(* and so one step here, with its outcome: committed, "lost" (it raises    *)
(* and nothing is written) or "skipped" (preserve_fields fails, the caller *)
(* is told nothing and nothing is written).  Clock times are the facts the *)
(* code tests: the trigger has passed, the anchor has passed, the claim is *)
(* still live.                                                             *)
(***************************************************************************)
EXTENDS Naturals, FiniteSets

CONSTANTS
    Procs,      \* the processes that run a scheduler thread
    CannotRun,  \* those whose runner is off or whose workspace is not the pinned one
    Runs,       \* bound: runs of the loop queued or running at once
    Standing,   \* a standing grant of MaxFires fires, or a wake that fires once
    MaxFires,   \* fires granted
    Predicate,  \* the entry also waits for the end of a background job
    MaxRetries, \* bound: WAKE_MAX_RETRIES
    FaultKinds, \* what may befall a commit: a subset of {"lost", "skipped"}
    MaxFaults,  \* bound: such commits
    MaxCrashes, \* bound: crashes (the process starts again)
    Rearming,   \* bound: the processes where a run of the human may re-arm it
    Slow,       \* may a delivery outlast the claim's 30 seconds?
    None,       \* nobody
    Dead        \* a process that is not there any more

ASSUME FireAssumption == MaxFires \in Nat \ {0} /\ (~Standing => MaxFires = 1)
ASSUME PredicateAssumption == Predicate \in BOOLEAN /\ (Predicate => ~Standing)
ASSUME RetryAssumption == MaxRetries \in Nat \ {0, 1}
ASSUME FaultAssumption ==
    FaultKinds \subseteq {"lost", "skipped"} /\ MaxFaults \in Nat /\ MaxCrashes \in Nat
    /\ Rearming \subseteq Procs
ASSUME SlowAssumption == Slow \in BOOLEAN
ASSUME NameAssumption ==
    None # Dead /\ {None, Dead} \intersect (Procs \union Runs) = {}

VARIABLES
    entry,     \* the entry in the file; once removed only its count matters
    ledger,    \* its record of authority
    grants,    \* the processes with its grant in memory
    thread,    \* process -> where its scheduler thread is, and what it saw of
               \* the entry it claimed: a wake, which occurrence, the last child
    run,       \* run -> where it is, whose, and for which occurrence
    event,     \* the process that sees the job ended, while the entry waits
               \* for that, or None
    expired,   \* the standing grant's last day has passed
    arming,    \* the processes where a run of the human is about to re-arm it
    begun,     \* history: occurrence -> admissions
    worked,    \* history: the occurrences whose run got to its work
    notified,  \* the occurrences with a notification file
    cancelled, \* history: a cancellation was reported done
    overrun,   \* history: a claim ran out before its delivery was done
    faults, crashes

vars == <<entry, ledger, grants, thread, run, event, expired, arming, begun,
          worked, notified, cancelled, overrun, faults, crashes>>
history == <<begun, worked, notified, cancelled, overrun>>

Occurrences == 1..MaxFires
Occ(e) == e.count + 1

-----------------------------------------------------------------------------
\* Helpers

Outcomes == {"ok"} \union (IF faults < MaxFaults THEN FaultKinds ELSE {})

\* _mutate: what the file holds after a change with this outcome.
Commit(outcome, changed) ==
    /\ entry' = IF outcome = "ok" THEN changed ELSE entry
    /\ faults' = IF outcome = "ok" THEN faults ELSE faults + 1

Raises(outcome) == outcome = "lost"

\* _pid_alive(wake_owner_pid) and it is not this process
OwnedElsewhere(p) == entry.owner \in Procs \ {p}

\* The event came first (the entry is still armed), or the time has come.
Triggered(p) == entry.wait = "due" \/ (entry.armed /\ event = p)

\* Mutant: a claim is respected however old it is.
ClaimableUnheld(p) ==
    Triggered(p) /\ entry.holder = None /\ ~(entry.wake /\ OwnedElsewhere(p))

Claimable(p) ==
    /\ Triggered(p)
    /\ ~entry.live
    /\ ~(entry.wake /\ OwnedElsewhere(p))

\* WakeAuthorizationStore.state, through authority_state
Authority ==
    IF ~entry.there THEN "missing"
    ELSE IF ledger.state = "pending" /\ Standing /\ expired THEN "expired"
    ELSE ledger.state

\* is_final_fire
Final(e) == ~(Standing /\ e.wake) \/ e.used >= MaxFires \/ expired

Fresh(p) ==
    [there |-> TRUE, wake |-> TRUE, wait |-> "anchor", ripe |-> FALSE, count |-> 0,
     holder |-> None, live |-> FALSE, owner |-> p, started |-> FALSE, retries |-> 0,
     child |-> None, used |-> 0, armed |-> Predicate]

Gone(e) == [Fresh(None) EXCEPT !.there = FALSE, !.count = e.count, !.armed = FALSE]

\* _advance: a missed anchor within the grace is due at once.
Advanced(e) ==
    LET next == [e EXCEPT !.count = @ + 1, !.holder = None, !.live = FALSE] IN
    IF ~Standing \/ next.count >= MaxFires \/ (e.wake /\ Final(e))
    THEN {Gone(next)}
    ELSE IF e.wake
    THEN {[next EXCEPT !.wait = w, !.ripe = (w = "due"), !.started = FALSE,
                       !.owner = None, !.retries = 0] : w \in {"anchor", "due"}}
    ELSE {[next EXCEPT !.wait = "retry"]}

\* Mutant: a later occurrence passes for the retry of the first.
SpentOnce(occ) ==
    IF Standing /\ ledger.last # 0 THEN ledger
    ELSE [ledger EXCEPT !.state = IF Standing THEN "pending" ELSE "started",
                        !.used = @ + 1, !.last = occ]

\* consume: one credit for one occurrence
Spent(occ) ==
    IF ~Standing THEN [ledger EXCEPT !.state = "started", !.used = 1]
    ELSE IF ledger.last = occ THEN ledger
    ELSE [state |-> IF ledger.used + 1 >= MaxFires THEN "consumed" ELSE "pending",
          used |-> ledger.used + 1, last |-> occ]

\* The handles in a process's registry: a run leaves it after its callback.
Registered(p) == {r \in Runs : run[r].at # "none" /\ run[r].proc = p}
Unused == {r \in Runs : /\ run[r].at = "none" /\ entry.child # r
                        /\ \A p \in Procs : thread[p].child # r}

Idle == [at |-> "idle", wake |-> FALSE, occ |-> 0, child |-> None]
NoRun == [at |-> "none", proc |-> None, occ |-> 0]

Goto(p, place) ==
    thread' = [thread EXCEPT ![p] = IF place = "idle" THEN Idle ELSE [@ EXCEPT !.at = place]]
Put(r, place) ==
    run' = [run EXCEPT ![r] = IF place = "none" THEN NoRun ELSE [@ EXCEPT !.at = place]]

NoRecord == [state |-> "none", used |-> 0, last |-> 0]
Pending == [state |-> "pending", used |-> 0, last |-> 0]

Init ==
    /\ entry = Gone([count |-> 0])
    /\ ledger = NoRecord
    /\ grants = {}
    /\ thread = [p \in Procs |-> Idle]
    /\ run = [r \in Runs |-> NoRun]
    /\ event = None /\ expired = FALSE /\ arming = {}
    /\ begun = [o \in Occurrences |-> 0] /\ worked = {} /\ notified = {}
    /\ cancelled = FALSE
    /\ overrun = FALSE
    /\ faults = 0 /\ crashes = 0

-----------------------------------------------------------------------------
\* The human's operations

\* add: the authority exists before the entry can be claimed.
Add(p) ==
    /\ ledger.state = "none"
    /\ \E outcome \in Outcomes :
        /\ Commit(outcome, Fresh(p))
        /\ ledger' = IF Raises(outcome) THEN [Pending EXCEPT !.state = "revoked"]
                     ELSE Pending
        /\ grants' = IF Raises(outcome) THEN {} ELSE {p}
    /\ UNCHANGED <<thread, run, event, expired, arming, history, crashes>>

\* Removing the entry, the grant and the authority: the user's cancel, and the
\* delivery of a wake whose goal is over.
Remove(p, outcome) ==
    /\ Commit(outcome, Gone(entry))
    /\ grants' = grants \ {p}
    /\ ledger' = [ledger EXCEPT !.state = "revoked"]
    /\ cancelled' = TRUE

Cancel(p) ==
    /\ entry.there
    /\ \E outcome \in Outcomes \ {"lost"} : Remove(p, outcome)
    /\ UNCHANGED <<thread, run, event, expired, arming, begun, worked, notified, overrun, crashes>>

\* revoke_wake_grant: the entry goes on as a reminder.
RevokeGrant(p) ==
    /\ entry.there /\ entry.wake
    /\ \E outcome \in Outcomes \ {"lost"} :
        Commit(outcome, [entry EXCEPT !.wake = FALSE, !.started = FALSE,
                                      !.owner = None, !.used = 0])
    /\ grants' = grants \ {p}
    /\ ledger' = [ledger EXCEPT !.state = "revoked"]
    /\ UNCHANGED <<thread, run, event, expired, arming, history, crashes>>

\* The entry can be given authority again (issue accepts it).
Rearmable ==
    /\ entry.there /\ entry.wake /\ ~entry.started
    /\ Standing \/ ledger.state = "pending"

\* rearm_wake_grants: a run of the human in the entry's session issues the
\* authority again where the process that had it is gone.  It looks for such
\* an entry without the file lock ...
RearmLooks(p) ==
    /\ entry.there /\ entry.wake /\ ~entry.started
    /\ p \notin grants
    /\ entry.owner \in {None, Dead}
    /\ p \in Rearming \ arming /\ arming' = arming \union {p}
    /\ UNCHANGED <<entry, ledger, grants, thread, run, event, expired, history,
                   faults, crashes>>

\* ... and adopts it under the lock, where it does not look at the owner again,
Rearm(p) ==
    /\ p \in arming /\ arming' = arming \ {p}
    /\ Rearmable
    /\ \E outcome \in Outcomes, soon \in {entry.wait, "anchor"} :
        /\ soon = "anchor" => entry.wait \in {"anchor", "retry"} /\ ~entry.ripe
        /\ Commit(outcome, [entry EXCEPT !.owner = p, !.retries = 0,
                                         !.wait = IF entry.ripe THEN "due" ELSE soon])
        /\ grants' = IF Raises(outcome) THEN grants ELSE grants \union {p}
    /\ ledger' = IF ledger.state = "pending" THEN [ledger EXCEPT !.last = 0] ELSE ledger
    /\ UNCHANGED <<thread, run, event, expired, history, crashes>>

\* ... unless it started, was cancelled or lost its authority meanwhile, or its
\* goal is no longer sure.
RearmFails(p) ==
    /\ p \in arming /\ arming' = arming \ {p}
    /\ UNCHANGED <<entry, ledger, grants, thread, run, event, expired, history,
                   faults, crashes>>

-----------------------------------------------------------------------------
\* The scheduler thread

\* claim_due: first the verified authority of a dead owner is taken over.
Claim(p) ==
    LET recovers == /\ entry.wake /\ ~entry.started /\ ~OwnedElsewhere(p)
                    /\ p \notin grants /\ ledger.state = "pending"
        found == [entry EXCEPT !.owner = IF recovers THEN p ELSE @,
                               !.armed = @ /\ ~Triggered(p)]
        claimed == [found EXCEPT !.holder = p, !.live = TRUE]
    IN
    /\ thread[p].at = "idle" /\ entry.there
    /\ found # entry \/ Claimable(p)
    /\ grants' = IF recovers THEN grants \union {p} ELSE grants
    /\ \E outcome \in Outcomes :
        /\ Commit(outcome, IF Claimable(p) THEN claimed ELSE found)
        /\ thread' = IF Claimable(p) /\ ~Raises(outcome)
                     THEN [thread EXCEPT ![p] = [at |-> "claimed", wake |-> found.wake,
                                               occ |-> Occ(found), child |-> found.child]]
                     ELSE thread
    /\ event' = IF entry'.armed THEN event ELSE None
    /\ UNCHANGED <<ledger, run, expired, arming, history, crashes>>

\* The delivery's reasons to notify instead of running.  (Where the grant is
\* missing, the claim has just tried what the delivery tries: to recover it.)
MustNotify(p) ==
    \/ ~thread[p].wake
    \/ Standing /\ Authority # "pending"
    \/ p \notin grants
    \/ p \in CannotRun

\* Mutant: the previous fire is not looked for.
PreviousIgnored(p) == FALSE

\* The run of the previous fire, as far as this process can see it.
PreviousRuns(p) == Standing /\ thread[p].child \in Registered(p)

\* Mutant: a wake that cannot run is acknowledged without a notification.
ChooseSilence(p) ==
    /\ thread[p].at = "claimed" /\ MustNotify(p)
    /\ Goto(p, "ack")
    /\ UNCHANGED <<entry, ledger, grants, run, event, expired, arming, history, faults, crashes>>

ChooseNotify(p) ==
    /\ thread[p].at = "claimed" /\ MustNotify(p)
    /\ Goto(p, "notify")
    /\ UNCHANGED <<entry, ledger, grants, run, event, expired, arming, history, faults, crashes>>

\* The goal is over, or was replaced.
ChooseCancel(p) ==
    /\ thread[p].at = "claimed" /\ thread[p].wake
    /\ \E outcome \in Outcomes :
        IF Raises(outcome)
        THEN /\ Commit(outcome, entry)
             /\ Goto(p, "retry") /\ UNCHANGED <<ledger, grants, cancelled>>
        ELSE Remove(p, outcome) /\ Goto(p, "idle")
    /\ UNCHANGED <<run, event, expired, arming, begun, worked, notified, overrun, crashes>>

\* The goal cannot be read, which is found before all that forces a
\* notification; or a restart barrier stands, the previous fire runs, no
\* session can be had.
ChooseDefer(p) ==
    /\ thread[p].at = "claimed" /\ thread[p].wake
    /\ Goto(p, "defer")
    /\ UNCHANGED <<entry, ledger, grants, run, event, expired, arming, history, faults, crashes>>

\* A fire of a standing grant gets a session of its own.  The note of that
\* session is best effort; the note that the run is awaited is not.
Start(p) ==
    /\ thread[p].at = "claimed" /\ ~MustNotify(p) /\ ~PreviousRuns(p)
    /\ \/ \E r \in Unused, outcome \in Outcomes :
            /\ Standing \/ Registered(p) = {}
            /\ outcome = "lost" => Standing
            /\ Commit(outcome, IF Standing /\ entry.there /\ entry.holder = p
                               THEN [entry EXCEPT !.child = r] ELSE entry)
            /\ run' = [run EXCEPT ![r] =
                 [at |-> "queued", proc |-> p, occ |-> thread[p].occ]]
            /\ Goto(p, "idle")
       \/ /\ Goto(p, "defer")  \* the runner refuses
          /\ UNCHANGED <<entry, run, faults>>
       \/ /\ "lost" \in Outcomes
          /\ Commit("lost", entry)
          /\ Goto(p, "retry") /\ UNCHANGED run
    /\ UNCHANGED <<ledger, grants, event, expired, arming, history, crashes>>

\* defer_wake_retry finds the entry unclaimed or under the caller's claim.
Deferrable(p) == entry.there /\ entry.holder \in {None, p}

\* The retry budget is used up: the count, or the window of 30 minutes.
MayExhaust == entry.retries >= 1
MustExhaust == entry.retries + 1 >= MaxRetries

Deferred(exhausted) ==
    LET counted == [entry EXCEPT !.retries = IF @ < MaxRetries THEN @ + 1 ELSE @] IN
    IF exhausted THEN counted
    ELSE [counted EXCEPT !.wait = "retry", !.holder = None, !.live = FALSE]

\* defer_wake_retry for process p, then the caller's next place: none is
\* reached if it raises, spent if the budget is.
Defer(p, outcome, next, raised, spent, done) ==
    \/ /\ ~Deferrable(p) /\ next = done /\ outcome = "ok"
       /\ UNCHANGED <<entry, faults>>
    \/ /\ Deferrable(p)
       /\ \E exhausted \in BOOLEAN :
           /\ exhausted => MayExhaust
           /\ MustExhaust => exhausted
           /\ Commit(outcome, Deferred(exhausted))
           /\ next = IF Raises(outcome) THEN raised ELSE IF exhausted THEN spent ELSE done

DoDefer(p) ==
    /\ thread[p].at = "defer"
    /\ \E outcome \in Outcomes, next \in {"retry", "notify", "idle"} :
        Defer(p, outcome, next, "retry", "notify", "idle") /\ Goto(p, next)
    /\ UNCHANGED <<ledger, grants, run, event, expired, arming, history, crashes>>

\* One file for each occurrence, however often it is written.
DoNotify(p) ==
    /\ thread[p].at = "notify"
    /\ \/ /\ notified' = notified \union {thread[p].occ}
          /\ Goto(p, "ack") /\ UNCHANGED faults
       \/ /\ "lost" \in Outcomes
          /\ Goto(p, "retry") /\ faults' = faults + 1 /\ UNCHANGED notified
    /\ UNCHANGED <<entry, ledger, grants, run, event, expired, arming, begun, worked, cancelled, overrun, crashes>>

\* mark_triggered by process p: only the holder of the claim, unless the caller
\* names no owner.
Mark(p, anyone, outcome) ==
    IF entry.there /\ (anyone \/ entry.holder = p)
    THEN /\ \E next \in Advanced(entry) : Commit(outcome, next)
         /\ IF Final(entry) /\ ~Raises(outcome)
            THEN /\ grants' = grants \ {p}
                 /\ ledger' = [ledger EXCEPT !.state = "revoked"]
            ELSE UNCHANGED <<grants, ledger>>
    ELSE outcome = "ok" /\ UNCHANGED <<entry, grants, ledger, faults>>

DoAck(p) ==
    /\ thread[p].at = "ack"
    /\ \E outcome \in Outcomes :
        /\ Mark(p, FALSE, outcome)
        /\ Goto(p, IF Raises(outcome) THEN "retry" ELSE "idle")
    /\ UNCHANGED <<run, event, expired, arming, history, crashes>>

\* retry_later; if that fails too, the claim is left to expire.
DoRetry(p) ==
    /\ thread[p].at = "retry"
    /\ IF Deferrable(p)
       THEN \E outcome \in Outcomes :
              Commit(outcome, [entry EXCEPT !.wait = IF @ = "due" THEN "retry" ELSE @,
                                            !.holder = None, !.live = FALSE])
       ELSE UNCHANGED <<entry, faults>>
    /\ Goto(p, "idle")
    /\ UNCHANGED <<ledger, grants, run, event, expired, arming, history, crashes>>

-----------------------------------------------------------------------------
\* A queued run, on its own thread

\* The session's lock: a wake that fires once goes to its one session.
SessionFree == Standing \/ \A r \in Runs : run[r].at \notin {"noted", "running"}

\* Mutant: the entry's start mark and the ledger are not looked at.
AdmissibleTwice(p) == entry.there /\ entry.wake /\ entry.ripe

\* Mutant: an entry that is gone is as good as one that never started.
AdmissibleGone(p) == entry.wake /\ ~entry.started

\* note_wake_started looks at the entry in the file, not at the one claimed.
Admissible(p) ==
    /\ entry.there /\ entry.holder = p /\ entry.live /\ entry.ripe
    /\ entry.wake /\ ~entry.started
    /\ ledger.state = "pending"

\* The session is busy, the goal was replaced, or note_wake_started refuses.
Refuse(r) ==
    /\ run[r].at = "queued"
    /\ Put(r, "failing")
    /\ UNCHANGED <<entry, ledger, grants, thread, event, expired, arming, history, faults, crashes>>

\* on_acquired, first half: note_wake_started spends the credit in the ledger
\* and marks the entry.
Admit(r) ==
    /\ run[r].at = "queued" /\ SessionFree /\ Admissible(run[r].proc)
    /\ ledger' = Spent(Occ(entry))
    /\ \E outcome \in Outcomes :
        /\ Commit(outcome, [entry EXCEPT !.started = TRUE,
                              !.used = IF Standing THEN ledger'.used ELSE @])
        /\ IF Raises(outcome)
           THEN Put(r, "failing") /\ UNCHANGED begun
           ELSE Put(r, "noted") /\ begun' = [begun EXCEPT ![Occ(entry)] = @ + 1]
    /\ UNCHANGED <<grants, thread, event, expired, arming, worked, notified, cancelled, overrun, crashes>>

\* on_acquired, second half: mark_triggered.  If it raises, the run stops
\* before any work and its terminal callback has nothing to do.
MarkStarted(r) ==
    /\ run[r].at = "noted"
    /\ \E outcome \in Outcomes :
        /\ Mark(run[r].proc, FALSE, outcome)
        /\ Put(r, IF Raises(outcome) THEN "none" ELSE "running")
        /\ worked' = IF Raises(outcome) THEN worked ELSE worked \union {run[r].occ}
    /\ UNCHANGED <<thread, event, expired, arming, begun, notified, cancelled, overrun, crashes>>

RunEnds(r) ==
    /\ run[r].at = "running"
    /\ Put(r, "none")
    /\ UNCHANGED <<entry, ledger, grants, thread, event, expired, arming, history, faults, crashes>>

\* terminal of a run that was not admitted; what it raises is swallowed.
Terminal(r) ==
    /\ run[r].at = "failing"
    /\ \E outcome \in Outcomes, next \in {"none", "giving_up"} :
        Defer(run[r].proc, outcome, next, "none", "giving_up", "none") /\ Put(r, next)
    /\ UNCHANGED <<ledger, grants, thread, event, expired, arming, history, crashes>>

GiveUp(r) ==
    /\ run[r].at = "giving_up"
    /\ \/ /\ notified' = notified \union {run[r].occ}
          /\ Put(r, "closing") /\ UNCHANGED faults
       \/ /\ "lost" \in Outcomes
          /\ Put(r, "none") /\ faults' = faults + 1 /\ UNCHANGED notified
    /\ UNCHANGED <<entry, ledger, grants, thread, event, expired, arming, begun, worked, cancelled, overrun, crashes>>

\* Here mark_triggered is called without an owner.
Close(r) ==
    /\ run[r].at = "closing"
    /\ \E outcome \in Outcomes : Mark(run[r].proc, TRUE, outcome)
    /\ Put(r, "none")
    /\ UNCHANGED <<thread, event, expired, arming, history, crashes>>

-----------------------------------------------------------------------------
\* Time and crashes

\* scheduled_trigger_at passes.
AnchorPasses ==
    /\ entry.there /\ ~entry.ripe
    /\ entry' = [entry EXCEPT !.ripe = TRUE,
                              !.wait = IF @ = "anchor" THEN "due" ELSE @]
    /\ UNCHANGED <<ledger, grants, thread, run, event, expired, arming, history, faults, crashes>>

\* trigger_at passes.
RetryPasses ==
    /\ entry.there /\ entry.wait = "retry"
    /\ entry' = [entry EXCEPT !.wait = "due"]
    /\ UNCHANGED <<ledger, grants, thread, run, event, expired, arming, history, faults, crashes>>

\* A thread is still delivering, or a run it queued is not past its admission.
Delivering(p) ==
    \/ p \in Procs /\ thread[p].at # "idle"
    \/ \E r \in Runs : run[r].proc = p /\ run[r].at \notin {"none", "running"}

\* Claims are not renewed.
LeaseExpires ==
    /\ entry.there /\ entry.live
    /\ Slow \/ \A p \in Procs : entry.holder = p => thread[p].at = "idle"
    /\ entry' = [entry EXCEPT !.live = FALSE]
    /\ overrun' = (overrun \/ Delivering(entry.holder))
    /\ UNCHANGED <<ledger, grants, thread, run, event, expired, arming, begun, worked, notified,
                   cancelled, faults, crashes>>

GrantExpires ==
    /\ Standing /\ ~expired /\ expired' = TRUE
    /\ UNCHANGED <<entry, ledger, grants, thread, run, event, arming, history, faults, crashes>>

\* The job ends in the process that owns the wake: job registries are local.
JobEnds ==
    /\ entry.armed /\ entry.owner \in Procs /\ event = None
    /\ event' = entry.owner
    /\ UNCHANGED <<entry, ledger, grants, thread, run, expired, arming, history, faults, crashes>>

\* What is left of a process: its name in the file.
Fallen(p) ==
    /\ crashes < MaxCrashes /\ crashes' = crashes + 1
    /\ entry' = [entry EXCEPT !.holder = IF @ = p THEN Dead ELSE @,
                              !.owner = IF @ = p THEN Dead ELSE @]
    /\ grants' = grants \ {p}
    /\ thread' = [thread EXCEPT ![p] = Idle]
    /\ run' = [r \in Runs |-> IF run[r].proc = p THEN NoRun ELSE run[r]]
    /\ arming' = arming \ {p}
    /\ UNCHANGED <<expired, history, faults>>
    /\ event' = IF event = p THEN None ELSE event

Crash(p) == ledger.state # "none" /\ Fallen(p) /\ UNCHANGED ledger

\* ... between the ledger's write and the file's, in note_wake_started
CrashAdmitting(r) ==
    /\ run[r].at = "queued" /\ SessionFree /\ Admissible(run[r].proc)
    /\ ledger' = Spent(Occ(entry))
    /\ Fallen(run[r].proc)

-----------------------------------------------------------------------------
Human(p) == \/ Add(p) \/ Cancel(p) \/ RevokeGrant(p)
            \/ RearmLooks(p) \/ Rearm(p) \/ RearmFails(p)
Tick(p) == \/ Claim(p) \/ ChooseNotify(p) \/ ChooseCancel(p) \/ ChooseDefer(p)
           \/ Start(p) \/ DoDefer(p) \/ DoNotify(p) \/ DoAck(p) \/ DoRetry(p)
Work(r) == \/ Refuse(r) \/ Admit(r) \/ MarkStarted(r) \/ RunEnds(r)
           \/ Terminal(r) \/ GiveUp(r) \/ Close(r)

Next ==
    \/ \E p \in Procs : Human(p) \/ Tick(p) \/ Crash(p)
    \/ \E r \in Runs : Work(r) \/ CrashAdmitting(r)
    \/ AnchorPasses \/ RetryPasses \/ LeaseExpires \/ GrantExpires
    \/ JobEnds

Spec == Init /\ [][Next]_vars

\* Threads go on and time passes; what humans do, and crashes, need not happen.
FairSpec ==
    /\ Spec
    /\ \A p \in Procs : WF_vars(Tick(p))
    /\ \A r \in Runs : WF_vars(Work(r))
    /\ WF_vars(AnchorPasses) /\ WF_vars(RetryPasses) /\ WF_vars(LeaseExpires)

-----------------------------------------------------------------------------
\* Properties

Entries == [there : BOOLEAN, wake : BOOLEAN, wait : {"anchor", "retry", "due"},
          ripe : BOOLEAN, count : 0..MaxFires, holder : Procs \union {None, Dead},
          live : BOOLEAN, owner : Procs \union {None, Dead}, started : BOOLEAN,
          retries : 0..MaxRetries, child : Runs \union {None}, used : 0..MaxFires,
          armed : BOOLEAN]

\* The state keeps its type; in particular the counts never pass the fires
\* granted (count, wake_fires_used) and the retry budget (retry_count).
TypeOK ==
    /\ entry \in Entries
    /\ ledger \in [state : {"none", "pending", "started", "consumed", "revoked"},
                   used : 0..MaxFires, last : 0..MaxFires]
    /\ grants \subseteq Procs
    /\ thread \in [Procs -> [at : {"idle", "claimed", "notify", "defer", "ack", "retry"},
                             wake : BOOLEAN, occ : 0..MaxFires, child : Runs \union {None}]]
    /\ run \in [Runs -> [at : {"none", "queued", "noted", "running", "failing",
                               "giving_up", "closing"},
                         proc : Procs \union {None}, occ : 0..MaxFires]]
    /\ event \in Procs \union {None} /\ expired \in BOOLEAN
    /\ arming \subseteq Rearming
    /\ cancelled \in BOOLEAN /\ overrun \in BOOLEAN
    /\ begun \in [Occurrences -> Nat]
    /\ worked \subseteq Occurrences /\ notified \subseteq Occurrences
    /\ faults \in 0..MaxFaults /\ crashes \in 0..MaxCrashes

\* No occurrence is admitted twice, whichever processes claim it and wherever
\* they die or fail between the ledger, the file and the acknowledgement
\* (note_wake_started).
StartsOnce == \A o \in Occurrences : begun[o] <= 1

\* Every admitted occurrence has spent a credit of its own, and so has the one
\* that was paid last: no retry and no takeover lets a later fire ride on an
\* earlier payment (consume).
StartsArePaid ==
    Cardinality({o \in Occurrences : begun[o] > 0 \/ o = ledger.last}) <= ledger.used

\* After a cancellation was reported done no run is admitted any more, even
\* one that was queued before (cancel against on_acquired).
CancelIsFinal == [][cancelled => begun' = begun]_vars

\* A wake that left the file was carried out, notified or cancelled: none is lost
\* among claims, retries, stale callbacks and crashes, and to be admitted is not
\* enough, since the run stops if its acknowledgement fails (on_acquired).  A
\* standing grant loses a fire when its claim runs out under the delivery.
GoneIsAnswered ==
    (Standing => ~overrun) /\ ledger.state # "none" /\ ~entry.there
        => \A o \in 1..entry.count : o \in worked \union notified

\* Two fires of one task never run at the same time, as long as a claim outlasts
\* the delivery it is for and no commit fails (the previous fire is looked for,
\* but its note is best effort and bound to the claim: _spawn_session).
FiresDoNotOverlap ==
    Standing /\ ~overrun /\ faults = 0 => Cardinality({r \in Runs : run[r].at \in {"noted", "running"}}) <= 1

\* What the properties above rest on.  Nothing moves before the entry is added,
\* an entry in the file has fires left and so has a pending record, and a record
\* is revoked for good before its cancellation is reported.
RecordIsTrue ==
    /\ ledger.state = "none" =>
        /\ ~entry.there /\ \A o \in Occurrences : begun[o] = 0
        /\ \A p \in Procs : thread[p].at = "idle"
        /\ \A r \in Runs : run[r].at = "none"
    /\ entry.there => entry.count < MaxFires
    /\ ledger.state = "pending" => ledger.used < MaxFires
    /\ cancelled => ledger.state = "revoked"

\* The entry or the ledger remembers what was admitted (wake_started_at, count).
BegunIsMarked ==
    \A o \in Occurrences : begun[o] > 0 =>
        IF Standing
        THEN entry.there /\ entry.wake
                => o < Occ(entry) \/ (o = Occ(entry) /\ entry.started)
        ELSE ledger.state # "pending"

\* Threads and runs deliver an occurrence of the entry, and those about to
\* acknowledge it have notified or started it.
StagesAreTrue ==
    /\ \A p \in Procs : thread[p].at # "idle" => thread[p].occ \in Occurrences
    /\ \A p \in Procs : thread[p].at = "ack" => thread[p].occ \in notified
    /\ \A r \in Runs : run[r].at # "none" =>
        run[r].proc \in Procs \ CannotRun /\ run[r].occ \in Occurrences
    /\ \A r \in Runs : run[r].at = "closing" => run[r].occ \in notified
    /\ \A r \in Runs : run[r].at = "noted" => \E o \in Occurrences : begun[o] > 0

\* While no claim has run out under a delivery, one delivery goes on at a time,
\* for the current occurrence and under a live claim.
InDelivery(r) == run[r].at \notin {"none", "running"}
Covered(p, occ) == entry.holder = p /\ entry.live /\ occ = Occ(entry)
DeliveriesAreCovered ==
    Standing /\ ~overrun /\ entry.there =>
        /\ \A p \in Procs : thread[p].at # "idle" => Covered(p, thread[p].occ)
        /\ \A r \in Runs : InDelivery(r) =>
            /\ Covered(run[r].proc, run[r].occ)
            /\ thread[run[r].proc].at = "idle"
            /\ \A s \in Runs : InDelivery(s) => s = r
            /\ run[r].at = "noted" => begun[Occ(entry)] > 0

\* ... and every occurrence before the current one is carried out or notified.
PastIsAnswered ==
    (Standing => ~overrun) =>
        \A o \in 1..entry.count : o \in worked \union notified

\* ... and the run of a fire is known to whoever may start the next.
ChildIsKnown ==
    Standing /\ ~overrun /\ faults = 0 =>
        \A r \in Runs : run[r].at # "none" =>
            /\ entry.there => entry.child = r
            /\ \A p \in Procs \ CannotRun :
                thread[p].at = "claimed" => thread[p].child = r
            /\ \A s \in Runs : run[s].at # "none" => s = r

\* The entry, the ledger, the claims and what was really started agree: no fire
\* is admitted twice, none without a credit, none is lost, and no count passes
\* what was granted (note_wake_started, consume, mark_triggered).
FiresAreAccounted ==
    /\ TypeOK /\ RecordIsTrue /\ StagesAreTrue /\ BegunIsMarked
    /\ StartsOnce /\ StartsArePaid
    /\ DeliveriesAreCovered /\ PastIsAnswered

\* A due occurrence does not stay due for ever: the entry moves on or leaves the
\* file, which it only does (see above) for an occurrence that is carried out,
\* notified or cancelled.
DueIsAnswered ==
    \A o \in Occurrences :
        (entry.there /\ entry.ripe /\ Occ(entry) = o)
            ~> (~entry.there \/ Occ(entry) > o)
=============================================================================
