# A verification project for llm-first-loop

`llm_loop` (Python, `src/src/llm_loop/`) is an agent runtime: a loop that asks
a language model what to do, runs the tools it names, keeps the transcript on
disk, wakes itself up on a schedule and spawns sub-agents, all of it as several
long-lived processes (web, feishu, terminal) that share one data directory.
There is no database: the shared state is JSON and JSONL files under `flock`,
and almost every correctness question of this program is about what several
processes, abandoned threads and crashes may do to those files.

The TLA+ modules here model that coordination core. Each is translated from
the source, which is the reference; `PROJECT.json` maps every definition to its
lines. Paths below are relative to `src/src/llm_loop/`.

## Contents

| module | what it is |
| --- | --- |
| `RunAuthority` | abstract: authority over one fleet run, its facts and its single settlement |
| `FleetLease` | the fleet registry, the coordinator and the lease discipline of the sub-agent runner; implements `RunAuthority` |
| `ToolLedger` | abstract: a declared tool call runs at most once and what is told of it agrees |
| `ToolJournal` | the tool cycle, the execution journal, the two copies of the transcript, repair and recovery; implements `ToolLedger` |
| `EffectFence` | who may change the world: run lock, run generations, effect bindings, timeouts, leases |
| `WakeSchedule` | the shared schedule file, the ledger of wake authority, the delivery and the admission of a wake |
| `EventLog` | abstract: one sequence of events that only grows |
| `EventStore` | the event log of a session: append, rotation into segments, torn lines, the cached reader; implements `EventLog` |
| `TaskClaim` | claims on a task and the combined update of the two ledgers that describe it |
| `MergeQueue` | the queue of lanes before main, with checks that run outside its lock |
| `HumanTurnQueue` | the human turns waiting for a session, the tabs and the fallback that dispatch them, interjection into a live run |
| `SubagentTree` | the background children of a session: start, steers, cancellation, results, follow-ups, restart |
| `...Proofs` | TLAPS theorems about a module, for all values of its constants (section 6); `AuthorityProofs` is about `FleetLease` and `EffectFence` |
| `MC...` | instances of a module for TLC |

## 1. Inventory

For each component: the state it keeps, its operations, what it talks to, what
is hard about it, and what makes it correct. Components without a module yet
have a place in the plan below, or a reason why they have none.

**Fleet run lease** (`fleet/store.py`, `fleet/coordinator.py`, and the begin,
heartbeat, fence and settle code of `subagent/runner.py`).
State: `state.json` with the leases and the settlements of every run workspace,
one JSONL of facts per workspace; in memory, the lease object of each run.
Operations: acquire, renew, reclaim (by time, with or without the generation that
was seen, by force, or plain), settle, record a fact. Called by the sub-agent runner between the rounds of a child,
and by operators. Hard: several processes race for one workspace, a superseded
worker carries on with its old lease object, the process may die between the
last fact and the settlement. Correct when authority over a run only moves
forward, has one holder, is settled exactly once, with the story told, and a
worker that has lost it stops.

**Tool cycle, execution journal, session transcript**
(`core/loop/engine_services/tool_cycle.py`, `core/tool_execution_journal.py`,
`core/session.py`, `core/loop/events.py`).
State: the session's JSON file, its event log, one staged result file per
execution, the messages in memory. Operations: declare, start, execute, stage,
finish, record, commit, skip, cancel, save with backfill, and the repair and
recovery at the start of the next run. Hard: five writes per call with a crash
possible between any two, and appends to the event log that are fail-open.
Correct when no call is run twice, no receipt lies about what happened, and an
exact result that was made durable is not replaced by a guess.

**Effect fence and mutation authority** (`core/tool_execution_journal.py`,
`core/session.py`, `tools/registry.py`, `workspace/file_service.py`).
State: the `.run.lock` of a session, the active run generation of each session
in a process, the binding of each tool call (with a lock and a revoked flag),
the sticky fence of a fleet child, the lock of each edited path. Operations:
activate and deactivate a generation, bind, dispatch, time out, revoke, enter
and leave the mutation authority. Hard: a timed-out worker thread cannot be
killed and reaches its commit later; three locks nest. Correct when nothing
lands after its timeout was reported, nor without the run that owns it.

**Scheduler and wake authority** (`core/scheduler.py`,
`core/schedule_delivery.py`, `core/trace_leak/wake_authority.py`,
`core/schedule_task_grant.py`).
State: the schedule file, the signed ledger of authorisations, the grants in
each process's memory, notification files. Operations: add, cancel, revoke,
re-arm, claim, deliver (notify, defer, start), admit, acknowledge, retry.
Interacts with the background runner (`core/loop/runner.py`), which queues the
run and calls back at admission and at its end, from another thread. Hard: two
processes tick on one file; claim, ledger, file and callback are four steps.
Correct when an authorised wake starts at most once per occurrence, pays for
it, respects a cancellation, and leaves the file only when it was carried out or
notified.

**Loop engine** (`core/loop/engine.py`, `engine_services/`): rounds, budgets,
fallbacks, termination. State in memory, per run. What a round writes is in
`ToolJournal`. Correct when it terminates within its budgets and every exit
passes through the same settlement.

**Background runner and run registry** (`core/loop/runner.py`,
`core/loop/runstate.py`): handles by session, subscriber queues, cancellation.
Hard: a run between its last event and its removal from the registry. Correct
when a session has one run per process and a resumed reader never hangs.

**Session management gate, branches, retraction** (`core/session.py`,
`core/message_retraction.py`): whole-run operations against management
operations. Correct when neither sees the other's half-done work.

**Event log store** (`event_log/`).
State: a JSONL file per session, or a directory of segments once it has been
rotated, the `flock` of the session, a cache of the parsed events in each
process. Operations: append, strict append of a human message with read-back,
fork, rotation, `read`, `last_seq`, `read_cached`; migration and retirement.
Every other component writes its facts here. Hard: readers take no lock; the
first rotation turns a file into a directory in several steps; a torn line takes
the next event with it; the cache is judged by the last `seq`. Correct when
`seq` has no duplicate and no gap, a read is a prefix of the log, and what was
acknowledged can be read.

**Sub-agent runner** (`subagent/runner.py`), **topology, delivery and
settlement** (`core/subagent_topology.py`, `core/subagent_delivery.py`,
`introspection/settlement.py`, `tools/builtin/subagent_result.py`).
State: in memory, the tables of children by parent, cancel events, handles and
mailboxes; durable, the facts of each child in its own event log (linked,
steers, cancel, result, terminal) and the child's saved session. Operations:
start, steer, report, cancel a parent's children, finalize, read a result,
follow up, recover after a restart. Each child has a thread; the parent's run,
a user's Stop and the finalization of a child each cancel from a thread of
their own. Hard: a cascade walks a tree that grows meanwhile; facts and handles
are written one after the other. Correct when no child works on for a parent
that is over, nothing is cancelled for somebody else's reason, and the parent's
transcript tells what is on disk.

**Task claims and task store** (`introspection/task_claim.py`,
`task_store.py`). State: claims in one JSONL, tasks in another, under two nested
locks. Operations: grant, renew, release, revoke, and the update of a task by a
caller with or without a token, which may claim, revoke and renew on its way.
Hard: deadlines and a clock that is set back, late tokens, three policies, a
failure between the two files. Correct when a run that has lost its claim cannot
write the task with it. **Goals** (`goal.py`) share the ledger.

**Merge queue and lanes** (`introspection/merge_queue.py`,
`tools_merge_queue.py`, `lane.py`). State: rows of lanes in one file, with
versions. Operations: enqueue, preflight (in two critical sections around checks
that run git and read receipts), confirm, mark merged, abort, requeue. Hard: the
row, the other rows and main change while the checks run. Correct when one lane
at a time is merging, what is ready is compatible, and what a human has taken
out stays out.

**Web turn queue** (`web/human_turn_queue.py`, `web/queue_recovery.py`, the
queue's routes in `web/routes.py`). State: a JSON file and its copy in memory, a
status per turn. Operations: enqueue, cancel, list, claim, release, interject,
receive, deny, settle; a reaper that reads the event log, a fallback thread.
Interacts with the background runner and its mailbox. Hard: tabs come and go,
claims time out, the server restarts, saves fail; whether a turn was executed
must be read from the log. Correct when a turn is executed once, a cancelled one
never, and whoever sent an accepted one learns in the end what became of it.

**Service control and admission barriers** (`runtime/service_control.py`,
`runtime/admission_barrier.py`): barrier files that stop admissions during a
restart. Correct when a live operation's barrier is never removed by another.

**Background jobs** (`tools/builtin/job_registry.py`), **MCP client**
(`tools/mcp_client.py`), **provider pool** (`llm/pool.py`,
`resources/governor.py`), **resource budgets** (`resources/`), **compensation
of missed messages** (`feishu/compensation.py`), **evolution**
(`introspection/evolution.py`): each a small state machine over a file or a
table, with timeouts or restarts.

Not to be modelled: prompt building, memory and knowledge retrieval, methods,
judgements over text, front ends, drivers of browsers, desktops and remote
services, wiring and configuration. They hold text or pass it on; a model of
them would have no control to check.

## 2. Plan

Done, in order of importance: `FleetLease` (who may run), `ToolJournal` (what a
run did), `EffectFence` (who may still change the world), `WakeSchedule` (what
starts a run), `EventStore` (where all of it is written), `SubagentTree` (who
works for whom), `HumanTurnQueue` (what a human is owed), `TaskClaim` and
`MergeQueue` (what sessions share). Every invariant and every action property that
a run checks is also a theorem (section 6). Next:

1. `AdmissionBarrier`: establish, adopt and release, and the service control
   that calls them; then the scheduler's and the web queue's barriers, which
   are choices now, can be composed with it.
2. The background runner and the session gate, whose registry and mailbox
   `HumanTurnQueue` and `WakeSchedule` each model as far as they use them.
3. `JobRegistry`, the provider pool and the budgets; the loop engine's budgets
   and exits.
4. Reports and settlement of children, composed with `ToolJournal` through the
   receipt of `subagent_result`.

## 3. The models and the code

### FleetLease and RunAuthority

One run workspace, any number of processes. `leases` is the list of leases of
the workspace (the n-th is `lease-<ws>-g<n>`), `settlement` its entry under
`settlements`, `facts` its JSONL. Each registry operation re-reads the file
under the cross-process lock and replaces it at once, so it is one action; the
exception is the first, unlocked read of `begin_run`, whose result (`seen`) a
process acts on later. `pc` is where a process is in the runner: begin, start
fact, rounds with heartbeat and fence check, settlement fact, settlement.
Windows are seconds left, which `Tick` lowers; copies of a window age with it.
`StoreError` is an operation that raises, with what the runner does then, and
`Crash` keeps the disk only.

`RunAuthority` says what the registry is for, in three variables: epochs are
granted one after the other, facts are written by the newest, and the run
closes once. `KeepsAuthority` is the refinement. The four takeovers are actions of
their own: `ReclaimIfExpired` is `begin_run`'s, which names the generation it saw;
`ForceReclaim` an operator's who names one too; `Reclaim` and
`ReclaimRunIfExpired` are operators' who name none and take what they find.
`FenceLost` is what the runner asks after each heartbeat.

### ToolJournal and ToolLedger

One session and the runs of the loop over it, one after the other. `json` and
`events` are the two durable copies of the transcript, `mem` the one in memory,
`wal` the execution events of the log, `sidecar` the staged results, `executed`
what has really happened. `MayFail` names the writes that may fail (the log is
fail-open, and the code's reaction to each loss is its own). A crash can happen
at every point. The run that follows loads the file, repairs it from the log
(`Repair`), settles or synthesizes a receipt for each open execution
(`RecoverCall`, `ReceiptCommitted`) and saves. Read-only calls of a round run
together, the others one by one; an interjection drops the segments that have
not started. `CatchUp` is the backfill's loop over the messages, one message at a time.

`ToolLedger` is what the model that declared a call is owed. The refinement
maps "told" to what the durable log tells first.

What the loop still owes (`Owed`) is the point of the invariants: which calls a
phase has yet to answer, and what no copy of the transcript may therefore say
of them. `StagesAreTrue` ties what the run believes of a call to the journal and
the world, `TracesAreInOrder` the journal's facts to each other, `CommitsAreTold`
the settled executions to the durable copies, `MemoryExtendsFile` the memory to
the file.

### EffectFence

The runs of some sessions in some processes, and the worker threads of their
tool calls. Locks are not variables: a lock is held by being at certain points
of the code. `Dispatch`, `TimeOut`, `Revoke` and `Harvest` are the registry's
side of a call; `ReadFile`, `Prepare`, `EnterAuthority`, `EnterGuard`,
`ProbeLease`, `Land` and `LeaveAuthority` the worker's. A main-loop binding is
checked against the active generation of its process, a fleet child's against
its lease, whose life is `FleetLease`'s subject and here only ends. An edit is in
progress (`Editing`) from its read to its return, under the lock of its path. Its
specification is `FenceSpec`, and what it shares in name with `FleetLease` has the
prefix `Fence`, because `AuthorityProofs` extends both.

### WakeSchedule

One entry of the schedule file and the processes that tick on it. `entry` is
what the file holds, `ledger` its signed record, `grants` the processes with
the grant in memory, `thread` where each scheduler thread is in the delivery of
a claimed entry, `run` the runs of the loop that were queued for it. A
read-modify-write of the file is one step with three outcomes: it commits, it
raises ("lost"), or the write of the authority's projection fails and it is
dropped in silence ("skipped"). Clock readings are kept as the facts the code
tests: `wait` and `ripe` (`trigger_at` and `scheduled_trigger_at` have passed),
`live` (the claim's 30 seconds have not). A human's run re-arms an entry in two
steps, since it looks for orphans without the lock (`RearmLooks`) and does not look
at the owner again when it adopts (`Rearm`, `RearmFails`). `begun` counts
admissions; `worked` has the occurrences whose run got past its acknowledgement to
its work, which is less. `Standing` chooses between a standing
grant of `MaxFires` fires and a wake that fires once, `Predicate` whether the
end of a background job may fire it first. `overrun` records that a claim ran out
while its holder was delivering, which is what two properties of standing grants
have to exclude.

### EventStore and EventLog

One session, threads of several processes. A file is a sequence of lines, each
whole, torn or glued (`Put`). A writer takes the flock (`Begin`), may rotate
(`MakeDir`, `Move`, `NextSegment`, `Create`), computes the next `seq` from the
tail (`NextSeq`), writes, reads back if the message is a human's authorisation
(`Write`, `ReadBack`) and, after it has left the lock, extends its process's
cache (`ExtendCache`). `read_cached` is six steps (`Look` to `Return`), each of
which sees the files as they are then. `EventLog` is one sequence that grows at
its end, and human messages that stay in it; `KeepsLog` is the refinement.

### TaskClaim

One task and the runs that want it. Both ledgers are files of rows of which the
last counts, so a ledger is the row that counts and whether the file ends in a
torn line. An operation holds both locks and is one step, in which each append
has an outcome. `Update` is `update_task_under_claim` as a whole: resolve the
caller, revoke on reopen or claim on first start, write the task, renew.
`TimeMoves` lets the clock pass a deadline or be set back behind it.

### MergeQueue

Rows of lanes, commits of main, and callers of `lane_queue_submit`, which is
three critical sections (`TakeSlot`, `Snapshot`, `WriteVerdict`) with the checks
in between (`RunChecks`). What git and the reviewers' receipts say is a choice;
whether the base is current and the paths are disjoint is computed from what the
caller has in its hands by then.

### HumanTurnQueue

One session. `mem` and `disk` are the queue and its file, which differ once a
save raises; `log` holds the messages and run ends from which `Probe`
(`_queue_claim_state`) tells what became of a claim; `run` is the registered run
with its mailbox, which may take its message in (`RunIngress`), be refused by the
ingress guard (`RunDenied`), or raise before or after that (`RunRaises`); `holder` what a tab, the request it has sent, or the fallback
thread is about to do. Each queue operation is a step, each request several. An
interjected turn goes through `InterjectClaim`, `InterjectHand`, `Consume` and
`Ack`, or back through `InterjectRefused` and the fallback's orphan check.

### SubagentTree

One root session, its runs one after the other, its background children and
theirs. `log` and `sess` are what a child leaves on disk; `active`, `signal`,
`handle`, `waits` and `rows` what the process knows. A child's thread is `Boot`,
`RoundBegins`, `InjectRead` and `InjectSave`, `Answered`, `ToolDone`, `Persist`,
`Cascade`, `Finalize`. `cancel_parent` is a loop that the root's thread, a Stop's
thread and the thread of any finished child may be in at the same time: `rows` is
what each still has to visit, `CancelStep` visits one. A run of the root ends through
its cascade (`RunFinishes`, `RunEnds`), or is broken off without one (`RunBreaks`),
by an exception that nobody catches inside or a stream that is closed. What the parent is told is
not state but two operators, `Readable` and `Receipt`, read from the handle while
there is one and from the log afterwards. `LateSpawn` and `Isolated` are two
paths of the code that break a property (section 5), and are off in the run.

## 4. The runs

Each property has a mutant: a plausible bug in the code's definition (a guard
dropped, a check against the wrong thing) that makes TLC find the property
violated in the same run. The mutants are the operators marked `Mutant` beside
the definition they replace.

| run | instance | shows |
| --- | --- | --- |
| `lease` | a bounded and an expiry-free process, three generations, any crash and store error, `FairSpec` | registry, settlement and facts are never out of step; fence by time; licensed takeovers; refinement of `RunAuthority`; a worker that is superseded or expired gives its run up |
| `journal_faults` | two rounds of one call, four runs, every write may fail | receipts tell the truth, exact results survive, the file never forgets, refinement of `ToolLedger` |
| `journal_exact` | a read-only and a mutating call in one round and a second round, three runs; no lost message event | every call is answered exactly once, the log is ahead of the file |
| `effect_live` | three runs of one session in two processes, a call each, `FairFenceSpec` | commits are owned, happen under the session's run lock, and every run gives its session back |
| `effect_fleet` | the main session and a fleet child in two processes, two calls each on one file | silence after a timeout and after a fence, no lost edit |
| `wake_once` | two processes, one fire with a job predicate, a lost or skipped commit, a crash, a re-arm in one of the processes, `FairSpec` | one start, no wake leaves the file unless it was carried out, notified or cancelled, cancellation is final, a due wake is in the end answered |
| `wake_standing` | two fires, three runs, a lost commit, a crash, claims that run out under a delivery | each fire starts once, pays for itself and is carried out or notified; fires do not overlap unless a claim ran out under its delivery or a commit was lost |
| `event_store` | a loop that appends and rotates, a process that takes human messages and forks, a cached reader; a torn line, a crash, three segments | one gapless sequence in which what was acknowledged can be read, exact cached reads, refinement of `EventLog` |
| `task_claim` | two runs and callers without identity, three claims, each policy, a failed append or a death between the ledgers | a lost claim never writes again, a live one is kept |
| `merge_queue` | two callers, two lanes, two areas, three rows, a commit of main | one lane in the slot, ready lanes are disjoint, ends are final |
| `turn_queue` | two tabs and the fallback, two turns, a direct message, one fault (among them a refusal by the guard and an exception before the message is an event), one restart, `FairSpec` | a turn runs once, is told completed only by its run or a refusal, is delivered once without faults, a cancelled one never; an accepted one is settled in the end if anybody reads the queue, and else settled or a claim without a holder |
| `subagent_tree` | two children, or a child and a grandchild, two root runs, five events (a Stop, a run broken off, steers, timeouts, failed writes, follow-ups, a restart), `FairSpec` | no child works on unnoticed for a child that is over or a run that came to its end, none is cancelled for another run, steers are answered, transcripts are true, a cancelled child ends |

**Bounds.** Three generations are what it takes for a stale holder, its
successor and a successor of that one to exist together; two processes race,
and any number is covered by the theorems. Two rounds and four runs of
`ToolJournal` let a crash during a recovery be recovered, and that recovery
crash too. One call per run is enough for `effect_live`, whose subject is the
order of runs and their leftovers; `effect_fleet` has two, so that a call
follows a timeout or a fence of its own run. Two fires are the first and the
last of a standing grant, and `MaxRetries = 2` makes both a retry and an
exhausted budget happen (the code's is higher, which only repeats retries).
`Rearming` has one process: a re-arm whose look is out of date needs another that
takes the entry over meanwhile, which the second process does by claiming.
`Cap = 1` makes every append due for rotation, so three events are three
segments. Three claims are a claim, the one that takes it over, and the one that
takes over that; three rows of `MergeQueue` let a lane come back while another
waits, and `MaxChanges = 7` lets one lane be submitted, checked, confirmed and
merged while the other is submitted and checked. Two turns are the one that runs
and the one that waits or is interjected; its safety was also checked with two
faults. Five events of `SubagentTree` are two runs, two children and one thing
that goes wrong, or one run and three; its invariants were also checked with
seven (8 million states).

**Deadlock.** Only `FleetLease` never stops, because time always passes. The
others end when their bounds are used up, hence `CHECK_DEADLOCK FALSE`.
`RunsFinish`, `DueIsAnswered`, `AcceptedIsAnswered` and `CancelledChildEnds` say
where they may not stop.

**An assumption with a reason.** `journal_exact` excludes lost message events.
With one, the log's order differs for ever from the file's (section 5), the
repair is refused from then on, and exact-once answers are out of reach; what
still holds with lost messages is what `journal_faults` checks.

**Fairness.** `FleetLease` (in its MC module): a run that has begun goes on, since
its provider calls and tools have timeouts and its loop comes to the next round
or returns. Nothing else is obliged: not that time passes, not that an operator
acts, not that a refused run is begun again (`_begin_fleet_run` is called once per
start, under a fresh session id, and nobody repeats it), not that faults end.
Hence no property says that a dead worker's workspace is taken over; nothing in
the code promises it. `EffectFence`: the loop goes
on, the registry's timeouts fire (its `wait` has one) and a commit in progress
ends, being a few system calls; a tool may hang anywhere else. Tools registered
without a timeout are outside this. `WakeSchedule`: scheduler threads and queued
runs go on, and the two trigger times and the claim's expiry come; humans need
not act. `wake_once` has `Slow = FALSE`: a claim does not run out during the few
file operations of its own delivery. Without it two processes may take an entry
from each other for ever, each between its notification and its acknowledgement;
the 30 seconds of a claim are what the code relies on here. `HumanTurnQueue`:
server threads are scheduled, a tab that has claimed acts or dies, and a run ends.
Nobody is obliged to read the queue; the second part of `AcceptedIsAnswered` has
that as its own hypothesis (`WF_vars(ListActive)`). `SubagentTree`: threads run, calls to
the provider and to tools return (both have timeouts), and the wait for a
startup is bounded by two seconds; nothing obliges the root to act.

## 5. Disagreements met while modelling

No run repeats these: each was seen on the way, as a counterexample of a variant
of a model (named where one switch shows it) or in the code while it was
translated.

*ToolJournal.* `_event_backfill` repairs a lost message by appending it at the
end of the log; the replay orders by `seq`, so log and session never agree again
and the crash repair refuses its work (`core/session.py:1447` and `:1452` against
`:1393`). A receipt is matched to an execution by `tool_call_id` alone, so a
provider that reuses an id would have one call answered by another's receipt
(`core/tool_execution_journal.py:886`). A crash between the declaration's message
event and the first `declared` event leaves calls that recovery does not see
(`tool_cycle.py:481`). The save after a batch precedes the receipts of the calls
that a gap skipped, although a comment promises one result or cancellation per
declaration at any save (`tool_cycle.py:629` against `:1020`).

*WakeSchedule.* If the authority's projection cannot be written, `_mutate`
returns as if it had committed (`core/scheduler.py:625` against `:587`): with two
skipped commits a fire starts twice. `note_wake_started` refuses any claim before
the scheduled time (`core/scheduler.py:816`), hence every claim that an event
won, although the tool promises a wake at whichever comes first
(`tools/builtin/schedule.py:152`). With two processes that can both run wakes
`FiresDoNotOverlap` fails, as `is_running` sees one process only
(`core/schedule_delivery.py:162`). It also fails in one process without its
hypotheses, although the same task is not to run concurrently
(`core/schedule_delivery.py:168`): when a claim runs out while the run it queued
is not admitted, the thread claims again, the late callback of the first run
releases that second claim (owners are compared per thread, not per claim,
`core/scheduler.py:873`), the note of the next child is then skipped
(`core/scheduler.py:845`), and a further delivery starts a run beside it. TLC
needs three queued runs for this. A late `defer_wake_retry` reaches the next
occurrence, which has no claim and so passes its owner check
(`core/scheduler.py:873`). A re-arm issues a record without `last_occurrence`, so
an occurrence whose file commit was lost is paid twice
(`core/trace_leak/wake_authority.py:262`). `claim_due` disarms a predicate that
is true whether or not its entry can be claimed (`core/scheduler.py:1162`), the
acknowledgement of a terminal callback names no owner
(`core/schedule_delivery.py:207`), and a notification is repeated after a crash
before its acknowledgement (`core/scheduler.py:1452`). An admission whose
acknowledgement fails has spent its credit and does no work
(`core/schedule_delivery.py:192`), and its terminal callback takes it for started
(`:202`); what is left for the human is the notification that a later claim ends in.
`GoneIsAnswered`
fails for a standing grant without its hypothesis: when a claim runs out between
the two halves of an admission, the same thread claims again, and the late
`mark_triggered` of the admitted run, whose owner still matches, advances the
occurrence of that second claim, which is then neither started nor notified
(`core/schedule_delivery.py:193`, `core/scheduler.py:1215`).

*EffectFence and FleetLease.* The lease is probed when the authority is entered
and may be lost before the commit (`core/tool_execution_journal.py:482`). An
approval callback and a network trigger run inside the mutation authority
(`tools/builtin/codearts_dispatch.py:130`). A follow-up run of a fleet child has
no lease entry and is fenced at its first call (`subagent/runner.py:1108`).
`reclaim_run_if_expired` names no generation (`fleet/coordinator.py:161`), although
the registry's check of one is what makes a recovery the one that was meant: it
takes over whatever expired lease it finds. Nobody repeats a begin that was refused
by a live lease which then expires (`subagent/runner.py:1020`, `:1490`).
`reclaim` supersedes a live lease although the docstring calls `force_reclaim`
the only way to (`fleet/store.py:350` against `:489`). Windows are measured with
`time.time()`, which may step back and reopen one (`fleet/store.py:101`).

*EventStore.* With `"move"` in `MayFail` TLC finds `AckedIsReadable` violated:
`_migrate_to_segments` makes the directory before it moves the file into it, and
if the move fails, or the process dies in between, `_is_multi_segment` is true
for ever, every earlier event is hidden and `seq` starts at 1 again
(`event_log/rotate.py:111` against "迁移不丢事件", `event_log/store.py:335`). The
run excludes this one fault. A torn line makes the next event unreadable although
its append returned, and strict human appends after it uncertain.

*TaskClaim.* With `"torn"` in `Faults`, `HoldersAreFenced` fails: a row that is
glued to a torn one is lost although it was acknowledged
(`task_claim.py:406` against `:12`). Under the policy "off" the implicit claim of
a first start takes over another run's active one. A reopening that is then
refused has already revoked the claim. A claim past its deadline is not revoked
on reopen, and its token still writes (`task_claim.py:821`, against
`docs/design/DESIGN-20261103-multi-task-concurrency-v2.md:493` and
`tests/test_task_claim.py:253`).

*MergeQueue.* Versions are per row, and a lane that comes back starts again at
1: a verdict made for the earlier row is accepted by the later one
(`merge_queue.py:605`), which is why `EndIsFinal` and `ReadyLanesAreDisjoint` ask
for a verdict of the row's own. `request_merge` does not compare the base with
main again. `requeue`, `note_main_advanced`, `enter_merging` and
`complete_merged` have no caller in production, and a row whose slot was busy has
no way back to its preflight.

*HumanTurnQueue.* If nobody reads the queue, an accepted turn may stay claimed by
nobody for ever: the fallback looks at queued turns only, so a claim that a
restart or a dead tab left is never reaped (`web/queue_recovery.py:197` against
its lines 3-5 and 11-12, which promise to go on without a tab). `Stranded` in
`AcceptedIsAnswered` is this case; without it the first part is violated. A turn whose
message the ingress guard denies returns normally (`core/loop/engine.py:855`), so
that the runner tells "completed" (`core/loop/runner.py:980`) for a message that
no run took in, while an interjected row that is denied becomes
`interject_denied`: `denied` in `CompletedByItsRun` is this case. An exception
before the message is an event (a session that does not load, an epoch that is
gone, a budget that is refused) is told "failed" (`core/loop/runner.py:988`), and
an accepted turn has then ended without reaching the session. With
`Late = TRUE`, a holder that acts after its minute, `RunsOnce`, `DeliveredOnce`
and `CancelIsFinal` fail: claims and hand-offs are judged by status alone, which
is the same for the next holder (`web/human_turn_queue.py:345`, `:382`). With
`"program"` in `Others`, `CompletedByItsRun` fails: the end of a program's run is
taken for the turn's (`web/routes.py:289`). The fallback passes "not_started" to
`mark_terminal`, which raises, and the error is swallowed
(`web/queue_recovery.py:214`). A save that fails in `enqueue` answers 503, but
the turn is in memory and runs. A turn with another human's message between its
own and the end of its run stays "unknown" for ever.

*SubagentTree.* The children of a run that does not complete are to stop
(`core/loop/engine.py:2840`), but the call that stops them (`:2843`) is in no
`finally`: an exception other than `LLMError` (`:2155`) and the `GeneratorExit` of a
closed stream (`:1982`, `core/loop/lifecycle.py:360`) pass it by, and the runner,
which tells the failure, does not cancel either (`core/loop/runner.py:988`).
`RunBreaks` does this; without the exemption of `broken` runs in `Orphan`,
`TreeIsQuiet` fails. With `LateSpawn = TRUE` `TreeIsQuiet` fails: the registry stops
waiting for `spawn_subagent` after five seconds, its thread goes on, and
`_reserve_background_child` does not look whether the run it belongs to is over
(`subagent/runner.py:1494`). With `Isolated = TRUE` `TranscriptsAreTrue` fails:
the note about a kept worktree is added to the answer after the result was
recorded (`subagent/runner.py:1997`), so a restarted parent never hears of the
tree. A follow-up's answer replaces the handle's but is refused by
`result_available`, and is bound to the first result's identity
(`Receipt` says so: it is the one answer that may differ); it runs with a fresh
event, so no Stop reaches it. A steer that is accepted after the child's last
look and before it is unregistered is never delivered. A crash between result
and terminal leaves the topology "orphaned", with a result that can be read and
settled. A cancellation may be recorded in the log of a child that has finished,
and a startup that timed out is cancelled without any record.

## 6. Proofs

All nine components have their theorems, in eight modules (`AuthorityProofs` holds
those of `FleetLease` and of `EffectFence`, the two halves of the right to write,
which share no variable). They hold for every value of the constants that the
component's assumptions allow; TLC evaluates those assumptions for the instances.
A hypothesis beyond them is an operator of the proof module, named in the theorem,
and each excludes a case in which the code does break the property (section 5).

| module | theorem | states | hypothesis |
| --- | --- | --- | --- |
| `AuthorityProofs` | `RegistryStaysSound` | `RegistryIsSound` | |
| | `TypeCorrect`, `AuthorityIsUnique`, `HolderIsUnique`, `StoryIsTold` | its parts | |
| | `SettlementCloses` | `SettledIsClosed` | |
| | `WindowIsAuthority` | `ExpiredNeverRevives` | |
| | `TakeoversAreLicensed` | `TimeLicensedTakeover` | |
| | `RegistryKeepsAuthority` | `KeepsAuthority` | |
| `ToolJournalProofs` | `JournalStaysSound` | `JournalIsSound` | |
| | `FileIsOnlyExtended` | `FileNeverForgets` | |
| | `ExactResultsSurvive` | `ExactResultSurvives` | |
| | `JournalImplementsLedger` | `KeepsLedger` | |
| | `TranscriptStaysExact` | `TranscriptIsExact` | `NoLoss` |
| | `DeclaredStayAnswered` | `DeclaredAreAnswered` | `NoLoss` |
| `AuthorityProofs` | `FenceStaysSound` | `FenceIsSound` | |
| | `TimeoutSilences` | `SilentAfterTimeout` | |
| | `LandingsAreLocked` | `LandsUnderRunLock` | |
| | `EditsAreNotLost` | `NoLostEdit` | |
| | `FencedStaySilent` | `FencedIsSilent` | |
| `WakeScheduleProofs` | `TypeCorrect` | `TypeOK` and what the rest needs first | |
| | `CancelledNeverStarts` | `CancelIsFinal` | |
| | `FiresStayAccounted` | `FiresAreAccounted` | `NoSkips` |
| | `NoFireTwice` | `StartsOnce` | `NoSkips` |
| | `NoFireLost` | `GoneIsAnswered` | `NoSkips` |
| | `OneFireAtATime` | `FiresDoNotOverlap` | `NoSkips`, `OneCanRun` |
| `TaskClaimProofs` | `TypeCorrect` | `TypeOK` | |
| | `HoldersStayFenced` | `ClaimsAreSound` | `NothingTorn` |
| | `LiveClaimsAreKept` | `LiveClaimIsKept` | |
| `MergeQueueProofs` | `QueueStaysSound` | `QueueIsSound` | |
| | `EndsAreFinal` | `EndIsFinal` | |
| `HumanTurnQueueProofs` | `TurnsRunOnce` | `RunsOnce` and the parts under it | `InTime` |
| | `QueueStaysSound` | `QueueIsSound` | `InTime`, `NoPrograms` |
| | `DeliveredAtMostOnce` | `DeliveredOnce` | `InTime` |
| | `WithdrawnStaysAway` | `CancelIsFinal` | `InTime` |
| `EventStoreProofs` | `StoreStaysConsistent` | the inductive invariant of the rest | `NoMoveFault` |
| | `LogStaysSound` | `LogIsSound` | `NoMoveFault` |
| | `CachedReadsAreExact` | `CachedReadIsExact` | `NoMoveFault` |
| | `StoreImplementsLog` | `KeepsLog` | `NoMoveFault` |
| `SubagentTreeProofs` | `TreeStaysQuiet` | `TreeIsQuiet` | `NoLateSpawn` |
| | `CancelsHaveReasons` | `CancelHasAReason` | |
| | `SteersStayAnswered` | `SteersAreAnswered` | |
| | `TranscriptsStayTrue` | `TranscriptsAreTrue` | `NotIsolated` |

The hypotheses. `NoLoss`: no append of a message event fails (`MayFail` of
`journal_exact`). `NoSkips`: for a standing grant, no commit is dropped in silence
because the projection could not be written. `OneCanRun`: at most one process can
run wakes, since a process sees its own runs only. `NothingTorn`: no line of the
claim ledgers is written in part; errors and deaths between the appends remain.
`InTime`: whoever holds a turn acts within the minute of its claim. `NoPrograms`:
no program runs in the session. `NoMoveFault`: the move of the first rotation
neither fails nor is interrupted (`MayFail` of `event_store`); every other write
and creation may fail. `NoLateSpawn`: no reservation comes after the tool call that
asked for it has timed out (`LateSpawn` of `subagent_tree`). `NotIsolated`: children
work in the parent's directory, so that no note about a worktree is added to an
answer that is already recorded (`Isolated`). Each is met by the instance of the run that
checks the property, and leaves every other fault of the module in.

**FleetLease.** For every set of processes, every assignment of windows and every
bound on generations. `RegistryIsSound` is the conjunction of `TypeOK`, `OnlyNewestLives`,
`SettlementMatchesLease`, `CarriersAreHonest`, `FactsTellOneStory` and
`SettlementIsTold`; the run `lease` checks it. `CarriersAreHonest` is
what makes it inductive: that facts are ordered and a settlement is told cannot
be seen from the disk alone, since it depends on where in its run the process
is that carries a generation, and on no two processes carrying the same one.
A step changes the disk in one of four shapes (`StepShape`): the lease states
stay as they are and perhaps time passes (`SameStates`), a successor is granted
(`Granted`), a fact is told (`Told`), the run is closed (`Closed`). The disk
conjuncts are proved once per shape; the processes' conjunct is proved for the
process that moves (`CarriersStep`, one step per action) and for bystanders
(`BystanderStep`). The action properties follow from it and the shape of
the step, and so does the refinement, whose `Grant`, `Write` and `Settle` are
the last three shapes.

A takeover that time licensed is one whose new record says so (`MintIsRecorded`).
Both of its makers check the window under the lock; `begin_run`'s also compares
the generation with the one it saw, which an operator's does not.

**ToolJournal.** For any plan of rounds, any set of writes that may fail and any
number of runs. The three copies of the transcript are sequences, and the
properties quantify over positions; the proofs look at a copy as the set of its
messages, in which appending adds one (`SayShape`), a save adds only what the
memory has (`CatchUpSteps`, `BackfillExtends`, by least counterexample over the
loop) and a repair replaces the memory by the log's set (`RepairShape`). In that
form (`SetForm`) an action that says nothing leaves all copies alone
(`NothingSaid`), one that says something adds one message (`SomethingSaid`), and
what is left per action is whether the message is true. That needs `Owed`: a
receipt of denial is written for a call only when the phase owes it one and it
has not run (`Denied`), and a synthesized receipt is true because of
`TracesAreInOrder` (`SynthesizedIsTrue`). `ExactResultSurvives` (in sets,
`ExactInSets`) is inductive on top of that: the finished event comes while the
call is still owed its receipt, so that no copy says anything of it yet. The refinement maps
"told" to the first receipt of the log: an event once written stays
(`FirstToldStays`), a call runs at most once (`RunsAreNew`), and an answer agrees
with the world by `JournalIsSound`. Under `NoLoss` the log's n-th event is the
n-th message (`ExactLog`), so that the repair is never refused, and recovery finds
in the memory whatever a committed execution was told.

**EffectFence.** For any runs, sessions, processes, calls and edits. The types and
the seven parts of `FenceIsSound` are preserved by each step of a run, a worker and
a crash. The action properties follow from it because the file and `landed` change
in one action only (`OnlyLandingChanges`), whose guard the invariant speaks of:
who is in `Committing` owns the authority, is not revoked, and has the file as it
read it.

**WakeSchedule.** For any processes, any number of fires, runs, retries and faults
of the allowed kinds. Each commit of the schedule file has one of few shapes
(`CommitShape` and the lemmas after it), and what happens to an occurrence is
described by what the entry, the ledger, the threads and the runs may do in one
step (`EntryChange`, `MovesShape`). `RecordIsTrue` and `StagesAreTrue` say what a
record and a stage of a delivery mean; `BegunIsMarked` that the file or the
ledger remembers each admission, which is what makes `StartsOnce` inductive;
`StartsArePaid` counts admitted occurrences against credits; `DeliveriesAreCovered`
that, while no claim has run out under a delivery, each delivery has a live claim
of its own for the current occurrence, on which `PastIsAnswered` and
`ChildIsKnown` rest: the entry moves past an occurrence only by the acknowledgement
of somebody who has carried it out or notified it (`PastIsKept`). A look that is out
of date changes nothing but `arming` and is treated with time.

**TaskClaim.** For any runs, statuses and bound. `EndedStaysOver` and
`TokensAreKnown` are what `HoldersAreFenced` needs: a claim is over in the ledger
as soon as its holder is told, and no token is of a later generation than the
claim that counts. `LiveClaimsAreKept` needs the types only, and torn lines do not
touch it.

**MergeQueue.** For any lanes, areas and callers. The checks run outside the lock,
so that two ready lanes are disjoint only because a verdict is refused when the
version has moved: `SnapshotsStillHold` says what a caller may rely on while the
version is the one it read. `Rewrite` and the rows it leaves alone are treated
once (`RewriteShape`, `RowsChange`).

**HumanTurnQueue.** For any number of tabs, turns, messages of others, faults and
restarts. A turn is at any time with at most one of: a holder, the run that
carries it, a mailbox (`WhoHasIt`); `HoldersAreHonest`, `RunIsHonest` and
`FilesAreHonest` say what each of them may believe, in memory and after a
restart, and from these `RunsOnce` is immediate: who starts a turn has it alone,
and it never started. `OverIsOver` ties what is told completed to the log, or to a
refusal by the guard.
`ProbeShape` says what the probe can conclude from a log, by least and greatest
positions. `DeliveriesAreKnown` is `RunsOnce` for deliveries to a mailbox, which
failed writes and restarts can repeat.

**EventStore.** For any threads in any processes, any operations of each, any
rotation limit and any failed or torn writes and deaths. What a file holds is
defined by recursion over its lines and over the segments (`Kept`, `Joined`);
the proofs use what these do at each step (`KeptSteps`, `JoinedSteps`), and from
it what an append of a line or of a file adds (`ParsedAppend`, `EventsAppend`,
`WriteAdds`). Induction over positions is `UpTo`, by least counterexample. The
invariant `IInv` has, beside the types: who is inside an operation holds the
flock (`FlockHeld`); one of the two forms holds the log, and every archived
segment has an event (`Layout`), without which the tail of the last archive would
not be the last number (`NextSeqIsNext`); the events are numbered by position
(`Numbered`); without a torn line nothing is broken (`Intact`) and what was
returned is at its place (`Returned`); a cache in use is a beginning of the log
(`CacheIsPrefix`); and each reader, at each of its looks, has seen the log as it
then was, or nothing if it met the first rotation (`ReaderTrue`). A write gives
the lock back in the step that writes, so that the log can only grow while a
writer still has its event in hand: `CacheGrows` and `ReadersGrow` say that
growing is enough, and `ExtendTrue` that a late extension of the cache either
continues it or drops it. The refinement adds that the written identifier is new
and that a human message which was read back is not glued (`ReadBackWhole`).

**SubagentTree.** For any number of children in any tree, any number of runs,
stops, steers, failed writes and restarts. `Base` has the types and what is drawn
when: children are numbered in the order of their reservation, registered exactly
while their thread lives, and a parent is reserved before its children. On top of
it each property has an invariant of its own. `Quiet`: at the end of a run, and in
the cascade of a child, each child of it has been told or is still in the rows of
the thread that walks them; at the moment the parent is over the rows are empty,
so that all have been told (a run that was broken off has no such moment, and is
exempt; what its children started is not), and nothing reserves for it afterwards, which is where
`NoLateSpawn` is used. `Reasons`: what a canceller has yet to visit has a reason
too, not only what it has visited, and a stop that has not been carried out names
a stopped run; a reason never goes away, since runs only advance and who is told
stays told until it is over. `Steers`, about one child's log, session and thread
(`SteersFine`): steers are numbered by their position, the saved session is a
beginning of the log, a batch about to be saved continues it, and who has asked
has seen exactly what is saved; hence an answer after which the mailbox is found
empty has missed none. What the mailbox holds is a recursion over the log
(`Unread`); `UnreadSteps` says what it does at each position and `PendingIsRest`
that it is the rest of the log after the session. `Records`: while a child lives,
its result is unrecorded or the one it carries, and the handle says running; a
handle that is terminal agrees with the result if there is one. Steps of one
thread that concern nobody else (`OneThread`), and steps that move no thread
(`Aside`), are each treated once; the restart, the cascade, the finalization and
the cancellation have a lemma per invariant.

**Only model-checked.** `StaleWorkersStop`, `RunsFinish`, `DueIsAnswered`,
`AcceptedIsAnswered` and `CancelledChildEnds`: liveness under fairness, and the
ENABLED in it, are out of the prover's reach. So is induction over data with the
library's theorems, which take an operator as a parameter; where a proof needs
one, it takes the least counterexample in the naturals (`LeastExists`, `UpTo`),
which is enough for the recursive functions here (`CatchUp`, `Kept`, `Joined`,
`Unread`). No module has a RECURSIVE operator. That the cases which the hypotheses
exclude do break their properties is shown by TLC (section 5), not proved.

## 7. What is left out

- `FleetLease`: several workspaces (they share a lock and nothing else),
  projections, observation, recovery cards, a clock that runs backwards.
- `ToolJournal`: sub-agents' own tool round, compaction and retraction of the
  transcript, rotation and torn lines of the log (`EventStore`), messages
  without calls, ids reused by a provider.
- `EffectFence`: the interjection interrupt gate, write scopes, artifact and
  observed facts, remote dispatch, tools without a timeout, follow-up runs of a
  fleet child (which have no lease entry, and are fenced at their first call).
- `WakeSchedule`: wake pools, `upgrade_to_standing`, tampered records, the
  expiry of adding, commits whose durability is uncertain (when the file is
  seen to match they count as committed), plain reminders that repeat, the
  reading of the goal, which is a choice of the delivery, and the delivery's own
  attempt to recover a grant (`core/schedule_delivery.py:129`), which repeats what
  the claim has just done and differs only where the claim could not read the
  ledger.
- `EventStore`: a flock that degrades to no lock, migration, retirement and
  deletion of a session, the filter of the hook chain, the loss of power, a torn
  line that lacks only its newline.
- `TaskClaim`: compaction, quotas, path overlap warnings, cascades to child
  tasks, events.
- `MergeQueue`: a lock that fails open, a corrupted file (which fails closed);
  confirm, abort and requeue act with the version they have just read.
- `HumanTurnQueue`: a holder that acts after the minute of its claim (`Late`, which
  is off in the run and in the theorems: what it then does to a turn that has been
  given to another is in section 5), the probe's reads are one step, no run of the session in
  another process, no torn lines, recovery markers, delivery receipts of channels
  or metrics.
- `SubagentTree`: reports of a child to its parent, the limit of 20 messages,
  the commit of a settlement, release of a generation, the synchronous `run()`,
  the number of handles (`Prune` is another session's reservation), independent
  reviews, archiving, a child that reads its own children's results or steers
  them, a busy session lease; `cancel_parent` scans a child's children in the
  step that tells the child.
- Everything the inventory lists without a module.
