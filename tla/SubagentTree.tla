---------------------------- MODULE SubagentTree ----------------------------
(***************************************************************************)
(* The background children of one root session (subagent/runner.py): how   *)
(* they are reserved, started, steered, cancelled and finalized, and the   *)
(* facts about each that outlive the process                               *)
(* (core/subagent_topology.py, core/subagent_delivery.py).                 *)
(*                                                                         *)
(* The root's runs follow each other in one thread; each child has a       *)
(* thread of its own, and may have children; a user's Stop is carried out  *)
(* by yet another thread.  cancel_parent is a loop that any of them may be *)
(* in; what it still has to visit is in rows.  A child has one generation, *)
(* drawn with its identifier, and stands for it; identifiers are fresh,    *)
(* and numbered here in the order in which they are drawn.                 *)
(***************************************************************************)
EXTENDS Naturals, Sequences, FiniteSets, Functions, SequencesExt

CONSTANTS
    Root,         \* the root session
    Stop,         \* the thread that carries out a user's Stop
    None,         \* no child
    LateSpawn,    \* may spawn_subagent reserve after its own timeout?
    Isolated,     \* do children run in a worktree of their own?
    MaxKids,      \* bound: children reserved
    MaxRuns,      \* bound: runs of the root session
    MaxEvents     \* bound: runs, broken runs, stops, reservations, refusals,
                  \* timeouts, messages, follow-ups, evictions, failed writes
                  \* and calls, exhausted rounds and restarts, together

ASSUME NamesAssumption ==
    /\ Root # Stop /\ None \notin {Root, Stop}
    /\ {Root, Stop, None} \cap (1..MaxKids) = {}
ASSUME FlagAssumption == LateSpawn \in BOOLEAN /\ Isolated \in BOOLEAN
ASSUME BoundAssumption ==
    /\ MaxKids \in Nat /\ MaxRuns \in Nat /\ MaxEvents \in Nat

Kids == 1..MaxKids
Agents == Kids \union {Root}     \* who may have children
Cancellers == Agents \union {Stop}

VARIABLES
    log,      \* each child's durable facts
    sess,     \* the steers in each child's saved session
    kin,      \* parent and parent's run of each reserved child
    active,   \* children registered with the runner
    signal,   \* their cancel events, with who set them
    handle,   \* _handles: what the runner tells of each child
    worker,   \* where each child's thread is
    waits,    \* the child whose startup each agent awaits
    run,      \* the root session's run
    stop,     \* the run that the Stop thread was asked to cancel, or 0
    stopped,  \* runs that were stopped
    broken,   \* runs that an exception, or a closed stream, broke off
    rows,     \* children each canceller still has to visit
    events    \* what MaxEvents counts, so far

tree == <<kin, active, waits>>
facts == <<log, sess>>
parent == <<run, stop, stopped, broken>>
vars == <<facts, tree, signal, handle, worker, parent, rows, events>>

-----------------------------------------------------------------------------
NoResult == [out |-> "none", ans |-> "none"]
NoFacts == [linked |-> FALSE, steers |-> <<>>, cancel |-> FALSE,
            result |-> NoResult, terminal |-> "none"]
NoHandle == [st |-> "none", ans |-> "none"]
Unborn == [pc |-> "none", next |-> "none", batch |-> <<>>, seen |-> {},
           missed |-> {}, res |-> NoResult]

At(k, pc) == worker[k].pc = pc
Counts == events < MaxEvents /\ events' = events + 1
NoFault == UNCHANGED events

Children(a) == {k \in active : kin[k].parent = a}
OfRun(g) == {k \in Children(Root) : kin[k].gen = g}

\* EventStore.append of a fact to the child's log, or nothing is written.
Appends(k, new) == log' = [log EXCEPT ![k] = new] /\ NoFault
AppendFails == UNCHANGED log /\ Counts

\* pending_mailbox: what is in the log and not in the session.
Unread(k) ==
    LET upTo[i \in 0..Len(log[k].steers)] ==
            IF i = 0 THEN <<>>
            ELSE IF log[k].steers[i] \in Range(sess[k]) THEN upTo[i-1]
            ELSE Append(upTo[i-1], log[k].steers[i])
    IN  upTo
Pending(k) == Unread(k)[Len(log[k].steers)]

\* Each thread goes on with one field, or more, of its state changed.
Becomes(k, new) == worker' = [worker EXCEPT ![k] = new]
Goes(k, pc) == Becomes(k, [Unborn EXCEPT !.pc = pc, !.res = worker[k].res])
Scans(k, next) == Becomes(k, [worker[k] EXCEPT !.pc = "inject", !.next = next])
Asks(k, seen) == Becomes(k, [worker[k] EXCEPT !.pc = "asked", !.seen = seen])
Ends(k, pc, out) ==
    Becomes(k, [Unborn EXCEPT !.pc = pc, !.res = [out |-> out, ans |-> "first"],
                              !.missed = IF out = "completed"
                                         THEN Range(log[k].steers) \ worker[k].seen
                                         ELSE {}])

Init ==
    /\ log = [k \in Kids |-> NoFacts]
    /\ sess = [k \in Kids |-> <<>>]
    /\ kin = [k \in Kids |-> [parent |-> None, gen |-> 0]]
    /\ active = {}
    /\ signal = [k \in Kids |-> "none"]
    /\ handle = [k \in Kids |-> NoHandle]
    /\ worker = [k \in Kids |-> Unborn]
    /\ waits = [a \in Agents |-> None]
    /\ run = [gen |-> 0, pc |-> "ended"]
    /\ stop = 0 /\ stopped = {} /\ broken = {}
    /\ rows = [c \in Cancellers |-> {}]
    /\ events = 0

-----------------------------------------------------------------------------
(* An agent starts a child: start().                                       *)

Working(a) ==
    /\ waits[a] = None
    /\ IF a = Root THEN run.pc = "work" \/ (LateSpawn /\ run.gen > 0)
                   ELSE At(a, "tool")

\* _reserve_background_child: a child of the root belongs to the run, one of
\* a child to no run (its tools execute under an empty generation).
Reserve(a, k) ==
    /\ Working(a)
    /\ k = 1 + Cardinality({c \in Kids : kin[c].parent # None})
    /\ kin' = [kin EXCEPT ![k] = [parent |-> a, gen |-> IF a = Root THEN run.gen ELSE 0]]
    /\ active' = active \union {k}
    /\ waits' = [waits EXCEPT ![a] = k]
    /\ handle' = [handle EXCEPT ![k] = [st |-> "running", ans |-> "none"]]
    /\ worker' = [worker EXCEPT ![k].pc = "boot"]
    /\ Counts
    /\ UNCHANGED <<facts, signal, parent, rows>>

\* The run boundary (worktree, fleet lease, the thread itself) refuses the
\* child: the parent's thread finalizes it.
StartRefused(a) ==
    LET k == waits[a]
    IN /\ k # None /\ At(k, "boot")
       /\ Ends(k, "cleared", "refused") /\ Counts
       /\ UNCHANGED <<facts, tree, signal, handle, parent, rows>>

\* The start event is set, or start() has finalized the child that the
\* boundary refused, which nothing was recorded of.
StartReturns(a) ==
    LET k == waits[a]
    IN /\ k # None /\ ~At(k, "boot")
       /\ worker[k].res.out = "refused" => log[k].linked
       /\ waits' = [waits EXCEPT ![a] = None]
       /\ UNCHANGED <<facts, kin, active, signal, handle, worker, parent, rows,
                      events>>

\* No startup within two seconds: only the event is set, nothing is recorded.
StartTimesOut(a) ==
    LET k == waits[a]
    IN /\ k # None /\ At(k, "boot")
       /\ signal' = [signal EXCEPT ![k] = IF @ = "none" THEN "startup" ELSE @]
       /\ waits' = [waits EXCEPT ![a] = None]
       /\ Counts
       /\ UNCHANGED <<facts, kin, active, handle, worker, parent, rows>>

-----------------------------------------------------------------------------
(* The child's thread: _run_reserved_child and _execute_subagent.          *)

Local(k) == UNCHANGED <<tree, signal, handle, parent, rows>>

\* linked and generation_started are durable before the task is saved, and
\* the task before the startup is acknowledged.
Boot(k) ==
    /\ At(k, "boot")
    /\ \/ Appends(k, [log[k] EXCEPT !.linked = TRUE]) /\ Goes(k, "first")
       \/ /\ log' \in {log, [log EXCEPT ![k].linked = TRUE]} /\ Counts
          /\ Ends(k, "cleared", "failed")
       \/ /\ log' = [log EXCEPT ![k].linked = TRUE] /\ Counts
          /\ Ends(k, "persist", "failed")
    /\ UNCHANGED sess /\ Local(k)

\* Mutant: the thread is given an event of its own.
NeverCancelled(k) == FALSE

Cancelled(k) == signal[k] # "none"

\* The head of a round; steers are not looked for before the first.  A child
\* whose fleet lease is lost gives up.
RoundBegins(k) ==
    /\ At(k, "first") \/ At(k, "round")
    /\ \/ Cancelled(k) /\ Ends(k, "persist", "cancelled") /\ NoFault
       \/ ~Cancelled(k) /\ Ends(k, "persist", "refused") /\ Counts
       \/ ~Cancelled(k) /\ At(k, "first") /\ Asks(k, {}) /\ NoFault
       \/ ~Cancelled(k) /\ At(k, "round") /\ Scans(k, "ask") /\ NoFault
    /\ UNCHANGED facts /\ Local(k)

\* The rounds are used up (truncated, told here as failed); nobody looks for a
\* cancellation any more.
RoundsEnd(k) ==
    /\ At(k, "round")
    /\ Ends(k, "persist", "failed") /\ Counts
    /\ UNCHANGED facts /\ Local(k)

\* Mutant: a final answer is returned although steers arrived meanwhile.
FinishedWithSteers(k) ==
    IF worker[k].next = "ask" THEN Asks(k, Range(sess'[k]))
    ELSE IF worker[k].next = "end" THEN Ends(k, "persist", "completed")
    ELSE Goes(k, "round")

\* What follows a look at the mailbox: with nothing new an answer is final.
Injected(k) ==
    IF worker[k].next = "ask" THEN Asks(k, Range(sess'[k]))
    ELSE IF worker[k].next = "end" /\ sess'[k] = sess[k]
         THEN Ends(k, "persist", "completed")
    ELSE Goes(k, "round")

\* _inject_pending_agent_messages reads the mailbox ...
InjectRead(k) ==
    /\ At(k, "inject")
    /\ UNCHANGED <<facts, events>>
    /\ IF Pending(k) = <<>> THEN Injected(k)
       ELSE Becomes(k, [worker[k] EXCEPT !.pc = "save", !.batch = Pending(k)])
    /\ Local(k)

\* ... and saves the session with what it read, or the child fails.
InjectSave(k) ==
    /\ At(k, "save")
    /\ \/ /\ sess' = [sess EXCEPT ![k] = @ \o worker[k].batch]
          /\ Injected(k) /\ NoFault
       \/ UNCHANGED sess /\ Counts /\ Ends(k, "persist", "failed")
    /\ UNCHANGED log /\ Local(k)

\* The model answers, with tool calls or an answer; or its error is passing
\* and the next round begins; or the child fails.
Answered(k) ==
    /\ At(k, "asked")
    /\ \/ Cancelled(k) /\ Ends(k, "persist", "cancelled")
       \/ ~Cancelled(k) /\ (Scans(k, "end") \/ Goes(k, "tool"))
       \/ Goes(k, "round")
       \/ Ends(k, "persist", "failed")
    /\ IF worker'[k].res.out = "failed" THEN Counts ELSE NoFault
    /\ UNCHANGED facts /\ Local(k)

ToolDone(k) ==
    /\ At(k, "tool") /\ waits[k] = None
    /\ IF Cancelled(k) THEN Ends(k, "persist", "cancelled") ELSE Scans(k, "round")
    /\ UNCHANGED <<facts, events>> /\ Local(k)

\* _persist_terminal_result: the first result of a generation is the only one.
Persist(k) ==
    /\ At(k, "persist")
    /\ \/ Appends(k, [log[k] EXCEPT !.result = worker[k].res])
       \/ AppendFails
    /\ Goes(k, "cleared")
    /\ UNCHANGED sess /\ Local(k)

\* Mutant: only children of a run are looked for.
CascadeByRun(k) == {c \in Children(k) : kin[c].gen = run.gen}

Descendants(k) == Children(k)

\* _finalize_child first cancels the child's own children.
Cascade(k) ==
    /\ At(k, "cleared")
    /\ rows' = [rows EXCEPT ![k] = Descendants(k)]
    /\ Goes(k, "cascade")
    /\ UNCHANGED <<facts, tree, signal, handle, parent, events>>

\* Mutant: the terminal fact does not wait for the result's.
TerminalAnyway(k) == TRUE

ResultIsDurable(k) == log[k].result # NoResult

\* The end of _finalize_child: the terminal fact, if the result is durable;
\* then the child is forgotten and its handle has the result, to which the
\* note about an isolated worktree was added after it was recorded.
Finalize(k) ==
    /\ At(k, "cascade") /\ rows[k] = {}
    /\ \/ ResultIsDurable(k) /\ Appends(k, [log[k] EXCEPT !.terminal = worker[k].res.out])
       \/ ResultIsDurable(k) /\ AppendFails
       \/ ~ResultIsDurable(k) /\ UNCHANGED <<log, events>>
    /\ active' = active \ {k}
    /\ signal' = [signal EXCEPT ![k] = "none"]
    /\ handle' = [handle EXCEPT ![k] =
            [st |-> worker[k].res.out, ans |-> IF Isolated THEN "noted" ELSE "first"]]
    /\ worker' = [worker EXCEPT ![k] = [Unborn EXCEPT !.pc = "done"]]
    /\ UNCHANGED <<sess, kin, waits, parent, rows>>

ChildStep(k) ==
    \/ Boot(k) \/ RoundBegins(k) \/ RoundsEnd(k) \/ InjectRead(k) \/ InjectSave(k)
    \/ Answered(k) \/ ToolDone(k) \/ Persist(k) \/ Cascade(k) \/ Finalize(k)

-----------------------------------------------------------------------------
(* cancel_parent: a child's cancellation is recorded, its thread told, and *)
(* its own children, as they are then, are next.  One that was finalized   *)
(* meanwhile is only recorded.                                             *)

CancelStep(c) ==
    /\ \E k \in rows[c] :
        /\ Appends(k, [log[k] EXCEPT !.cancel = TRUE]) \/ AppendFails
        /\ IF k \in active
           THEN /\ signal' = [signal EXCEPT ![k] = IF @ = "none" THEN "parent" ELSE @]
                /\ rows' = [rows EXCEPT ![c] = (@ \ {k}) \union Children(k)]
           ELSE /\ rows' = [rows EXCEPT ![c] = @ \ {k}]
                /\ UNCHANGED signal
    /\ UNCHANGED <<sess, tree, handle, worker, parent>>

-----------------------------------------------------------------------------
(* The root session's thread, and a Stop.                                  *)

Free == run.pc = "work" /\ waits[Root] = None

StartRun ==
    /\ run.pc = "ended" /\ run.gen < MaxRuns
    /\ run' = [gen |-> run.gen + 1, pc |-> "work"]
    /\ Counts
    /\ UNCHANGED <<facts, tree, signal, handle, worker, stop, stopped, broken,
                   rows>>

\* Mutant: whichever run they belong to.
ChildrenOfAnyRun(g) == Children(Root)

\* The children that a cancellation for run g is about.
Targets(g) == OfRun(g)

\* What is still running is cancelled before the run gives its answer, or
\* ends in another way.
RunFinishes ==
    /\ Free
    /\ run' = [run EXCEPT !.pc = "closing"]
    /\ rows' = [rows EXCEPT ![Root] = Targets(run.gen)]
    /\ UNCHANGED <<facts, tree, signal, handle, worker, stop, stopped, broken,
                   events>>

RunEnds ==
    /\ run.pc = "closing" /\ rows[Root] = {}
    /\ run' = [run EXCEPT !.pc = "ended"]
    /\ UNCHANGED <<facts, tree, signal, handle, worker, stop, stopped, broken,
                   rows, events>>

\* An exception that is no LLMError, or a consumer that closes the stream,
\* leaves run_stream before it comes to cancel_session; neither the stream's
\* cleanup nor the runner, which tells the failure, cancels the children.
RunBreaks ==
    /\ Free
    /\ run' = [run EXCEPT !.pc = "ended"]
    /\ broken' = broken \union {run.gen}
    /\ Counts
    /\ UNCHANGED <<facts, tree, signal, handle, worker, stop, stopped, rows>>

StopRequest ==
    /\ run.pc # "ended" /\ run.gen \notin stopped
    /\ stop = 0 /\ rows[Stop] = {}
    /\ stop' = run.gen /\ stopped' = stopped \union {run.gen}
    /\ Counts
    /\ UNCHANGED <<facts, tree, signal, handle, worker, run, broken, rows>>

\* The request's thread comes to the hook later, perhaps in the next run.
StopCancels ==
    /\ stop # 0
    /\ rows' = [rows EXCEPT ![Stop] = Targets(stop)]
    /\ stop' = 0
    /\ UNCHANGED <<facts, tree, signal, handle, worker, run, stopped, broken,
                   events>>

\* send_current_message to a child that is still registered.
Steer(k) ==
    /\ Free /\ k \in Children(Root)
    /\ log' = [log EXCEPT ![k].steers = Append(@, Len(@) + 1)] /\ Counts
    /\ UNCHANGED <<sess, tree, signal, handle, worker, parent, rows>>

\* followup_current on a finished child; its result is recorded only if the
\* generation has none, and replaces that of the handle all the same.
FollowUp(k) ==
    /\ Free /\ kin[k].parent = Root
    /\ IF handle[k].st = "none" THEN log[k].terminal # "none"
                                ELSE handle[k].st # "running"
    /\ IF ResultIsDurable(k) THEN UNCHANGED log
       ELSE log' \in {log, [log EXCEPT ![k].result = [out |-> "completed", ans |-> "follow"]]}
    /\ Counts
    /\ handle' = IF handle[k].st = "none" THEN handle
                 ELSE [handle EXCEPT ![k] = [st |-> "settled", ans |-> "follow"]]
    /\ UNCHANGED <<sess, tree, signal, worker, parent, rows>>

\* Another session's child takes the slot of a finished one.
Prune(k) ==
    /\ handle[k].st \notin {"none", "running"}
    /\ handle' = [handle EXCEPT ![k] = NoHandle]
    /\ Counts
    /\ UNCHANGED <<facts, tree, signal, worker, parent, rows>>

\* The process is lost; nothing revives a child.
Crash ==
    /\ Counts
    /\ active' = {} /\ signal' = [k \in Kids |-> "none"]
    /\ handle' = [k \in Kids |-> NoHandle]
    /\ worker' = [k \in Kids |-> IF kin[k].parent = None THEN Unborn
                                  ELSE [Unborn EXCEPT !.pc = "done"]]
    /\ waits' = [a \in Agents |-> None]
    /\ run' = [run EXCEPT !.pc = "ended"] /\ stop' = 0
    /\ rows' = [c \in Cancellers |-> {}]
    /\ UNCHANGED <<facts, kin, stopped, broken>>

AgentStep(a) ==
    \/ \E k \in Kids : Reserve(a, k)
    \/ StartRefused(a) \/ StartReturns(a) \/ StartTimesOut(a)

RootStep ==
    \/ StartRun \/ RunFinishes \/ RunEnds \/ RunBreaks
    \/ StopRequest \/ StopCancels \/ Crash
    \/ \E k \in Kids : Steer(k) \/ FollowUp(k) \/ Prune(k)

Next ==
    \/ \E a \in Agents : AgentStep(a)
    \/ \E k \in Kids : ChildStep(k)
    \/ \E c \in Cancellers : CancelStep(c)
    \/ RootStep

Spec == Init /\ [][Next]_vars

\* Threads run, and each call to the provider or a tool comes back.
Fairness ==
    /\ \A k \in Kids : WF_vars(ChildStep(k))
    /\ \A c \in Cancellers : WF_vars(CancelStep(c))
    /\ \A a \in Agents : WF_vars(StartReturns(a) \/ StartTimesOut(a))

FairSpec == Spec /\ Fairness

-----------------------------------------------------------------------------
Outcomes == {"none", "completed", "failed", "cancelled", "refused"}
Answers == {"none", "first", "noted", "follow"}
Results == [out : Outcomes, ans : Answers]

TypeOK ==
    /\ \A k \in Kids :
        /\ log[k].result \in Results /\ log[k].terminal \in Outcomes
        /\ kin[k].parent \in Agents \union {None} /\ kin[k].gen \in 0..MaxRuns
        /\ signal[k] \in {"none", "startup", "parent"}
        /\ handle[k].st \in Outcomes \union {"running", "settled"}
        /\ handle[k].ans \in Answers
    /\ active \subseteq {k \in Kids : kin[k].parent # None}
    /\ run \in [gen : 0..MaxRuns, pc : {"work", "closing", "ended"}]
    /\ \A c \in Cancellers : rows[c] \subseteq Kids

\* The child that k was started by is over; or the run that it was started by
\* has come to its end, and was not broken off.
Orphan(k) ==
    LET a == kin[k].parent
    IN IF a = Root THEN /\ run.gen > kin[k].gen \/ run.pc = "ended"
                        /\ kin[k].gen \notin broken
                   ELSE At(a, "done")

(* Whoever is registered when the run or the child that started it is over *)
(* has been told to stop (_finalize_child, runner.py:1233: a terminal      *)
(* child cannot leave its own active descendants executing; engine.py:2711 *)
(* for a run that answers, and :2841 for one that ends otherwise).  The    *)
(* latter is said of every run that is not completed; the code does it for *)
(* those that come to the end of run_stream, so a run that an exception    *)
(* broke off is exempt here: its own children go on, with nothing to stop  *)
(* them but a Stop that is still pending; what those started is not exempt.*)
(* Reservations, stops, cascades and finalizations of several threads      *)
(* overlap.                                                                *)
TreeIsQuiet == TypeOK /\ \A k \in active : Orphan(k) => signal[k] # "none"

\* Something above k was stopped, or is over or ending.
Doomed(k) ==
    LET a == kin[k].parent
    IN IF a = Root
       THEN kin[k].gen \in stopped \/ run.gen > kin[k].gen \/ run.pc # "work"
       ELSE signal[a] # "none" \/ worker[a].pc \in {"cascade", "done"}

(* cancel_parent: a child is told to stop, and its log says so, only on    *)
(* behalf of the run or the child that started it.  A Stop that is carried *)
(* out after the next run has begun leaves that run's children alone.      *)
CancelHasAReason ==
    \A k \in Kids : (signal[k] = "parent" \/ log[k].cancel) => Doomed(k)

(* Steers reach the child's session in the order of the log, none twice    *)
(* and none skipped, whatever save fails; and a child that completes has   *)
(* answered with every steer that was queued when it last looked           *)
(* (runner.py:3437: an answer generated before a new steer is not final).  *)
SteersAreAnswered ==
    \A k \in Kids : IsPrefix(sess[k], log[k].steers) /\ worker[k].missed = {}

\* What result_current finds, and subagent_result writes into the root's
\* transcript: with the result's identity if that is durable.
Receipt(k) ==
    IF handle[k].st = "none" THEN [bound |-> TRUE, ans |-> log[k].result.ans]
    ELSE [bound |-> ResultIsDurable(k), ans |-> handle[k].ans]

Readable(k) ==
    IF handle[k].st = "none" THEN log[k].linked /\ ResultIsDurable(k)
    ELSE handle[k].st # "running"

(* A terminal fact has its result before it, with the same outcome; and a  *)
(* receipt that names the result tells what is recorded for good under     *)
(* that name, through pruned handles and restarts: all but the answer of a *)
(* follow-up, which replaces the handle's and is recorded nowhere.         *)
TranscriptsAreTrue ==
    \A k \in Kids :
        /\ log[k].terminal # "none" => log[k].result.out = log[k].terminal
        /\ Readable(k) /\ Receipt(k).bound =>
            ResultIsDurable(k) /\ Receipt(k).ans \in {log[k].result.ans, "follow"}

(* A child that was told to stop gives up its place, with its handle       *)
(* terminal, however long it would have gone on.                           *)
CancelledChildEnds == \A k \in Kids : (signal[k] # "none") ~> (k \notin active)

=============================================================================
