----------------------------- MODULE ToolJournal -----------------------------
(***************************************************************************)
(* The life of the tool calls of one session, across crashes and restarts: *)
(* the main loop's tool cycle (core/loop/engine_services/tool_cycle.py),   *)
(* the tool execution journal (core/tool_execution_journal.py), the two    *)
(* durable copies of the transcript (session JSON and event log) with the  *)
(* backfill of a save (core/session.py) and the repair and recovery at the *)
(* start of the next run (core/loop/events.py).                            *)
(*                                                                         *)
(* Calls are numbered in the order in which the model declares them.  An   *)
(* append to the event log is fail-open: it returns None and the code goes *)
(* on, each in its way.  Journal events only ever add a fact about one     *)
(* execution, so they are a set; message events are a sequence.  Messages  *)
(* without tool calls take the same path and are left out.                 *)
(***************************************************************************)
EXTENDS Naturals, Sequences

CONSTANTS
    Rounds,    \* Rounds[r]: the calls declared by the r-th assistant message
    ReadOnly,  \* the calls that registry.execute_many runs concurrently
    MayFail,   \* which writes may fail
    MaxRuns    \* bound: runs of the loop over the session

Calls == UNION {Rounds[r] : r \in DOMAIN Rounds}
Writes == {"message", "declared", "started", "finished", "committed",
           "sidecar", "save"}

ASSUME RoundsAssumption ==
    /\ Rounds \in Seq(SUBSET Nat)
    /\ \A r \in DOMAIN Rounds : Rounds[r] # {}
    /\ \A r, s \in DOMAIN Rounds : r < s =>
          \A c \in Rounds[r], d \in Rounds[s] : c < d
ASSUME FaultAssumption == ReadOnly \subseteq Calls /\ MayFail \subseteq Writes
ASSUME MaxRunsAssumption == MaxRuns \in Nat

VARIABLES
    json,      \* the session file's messages
    events,    \* message.appended events in seq order, with their index
    wal,       \* tool.execution.* facts: pairs of a kind and a call
    sidecar,   \* calls whose exact result is staged in a file
    executed,  \* calls whose effects have happened in the world
    pc,        \* where the loop is; "off" between runs
    mem,       \* session.messages of the run
    round,     \* assistant messages with tool calls so far
    todo,      \* calls the current phase has still to visit, in order
    stage,     \* what the run knows of each call of its round
    repaired,  \* recover() has synthesized a receipt, and will save
    runs       \* runs so far

disk == <<json, events, wal, sidecar>>
vars == <<json, events, wal, sidecar, executed, pc, mem, round, todo, stage,
          repaired, runs>>

\* What a receipt tells.  result: the tool's own answer.  not_started,
\* cancelled, skipped: written by the loop for a call it did not run.
\* restart_before_execution, outcome_unknown, result_unavailable: synthesized
\* by recover().
Denials == {"not_started", "cancelled", "skipped", "restart_before_execution"}
Outcomes == Denials \union {"result", "outcome_unknown", "result_unavailable"}

Declaration(r) == [role |-> "assistant", id |-> r, says |-> "tool_calls"]
Receipt(c, outcome) == [role |-> "tool", id |-> c, says |-> outcome]

-----------------------------------------------------------------------------
\* Helpers

First(S) == CHOOSE c \in S : \A d \in S : c <= d

\* The possible outcomes of a fail-open write.
Attempt(kind) == IF kind \in MayFail THEN BOOLEAN ELSE {TRUE}

\* replay_session: the messages in seq order, whatever their index.
Replay(log) == [i \in DOMAIN log |-> log[i].msg]

HasReceipt(messages, c) ==
    \E i \in DOMAIN messages : messages[i].role = "tool" /\ messages[i].id = c

HasDeclaration(messages, c) ==
    \E i \in DOMAIN messages :
        messages[i].role = "assistant" /\ c \in Rounds[messages[i].id]

Known(c, kind) == <<kind, c>> \in wal

\* sess.messages.append, then _append_message_event.
Say(msg, ok) ==
    /\ mem' = Append(mem, msg)
    /\ events' = IF ok THEN Append(events, [index |-> Len(mem) + 1, msg |-> msg])
                 ELSE events

Note(kind, c, ok) == wal' = IF ok THEN wal \union {<<kind, c>>} ELSE wal

Indices(log) == {log[i].index : i \in DOMAIN log}

\* _event_backfill: append the messages whose index no event has, except the
\* appends that fail again; CatchUp is the log after each message.
CatchUp(lost) ==
    LET upTo[i \in 0..Len(mem)] ==
          IF i = 0 THEN events
          ELSE IF i \in Indices(events) \union lost THEN upTo[i-1]
          ELSE Append(upTo[i-1], [index |-> i, msg |-> mem[i]])
    IN upTo

Backfill(lost) == CatchUp(lost)[Len(mem)]

\* SessionStore.save: the file is replaced, then the log is backfilled.
Save ==
    /\ json' = mem
    /\ \E lost \in SUBSET (DOMAIN mem \ Indices(events)) :
         /\ lost = {} \/ "message" \in MayFail
         /\ events' = Backfill(lost)

\* A save whose OSError the caller swallows.
TrySave == Save \/ ("save" \in MayFail /\ UNCHANGED <<json, events>>)

\* The next phase, when the current one has visited c.
Visited(c, next, calls) ==
    IF todo = {c} THEN pc' = next /\ todo' = calls
    ELSE todo' = todo \ {c} /\ UNCHANGED pc

NoStages == [c \in Calls |-> "none"]
InStage(s) == {c \in Calls : stage[c] \in s}

\* The run is over or the process is gone; the memory of it goes with it.
Forget ==
    /\ pc' = "off"
    /\ mem' = << >>
    /\ todo' = {}
    /\ stage' = NoStages
    /\ repaired' = FALSE

Init ==
    /\ json = << >> /\ events = << >> /\ wal = {} /\ sidecar = {}
    /\ executed = {} /\ pc = "off" /\ mem = << >> /\ round = 0 /\ todo = {}
    /\ stage = NoStages /\ repaired = FALSE /\ runs = 0

-----------------------------------------------------------------------------
\* The start of a run: load, repair, recover

\* reconcile: the session is loaded from its JSON.
StartRun ==
    /\ pc = "off"
    /\ runs < MaxRuns
    /\ runs' = runs + 1
    /\ mem' = json
    /\ pc' = "repairing"
    /\ UNCHANGED <<disk, executed, round, todo, stage, repaired>>

\* Mutant: the log is trusted whatever the file says.
ReplayableAlways(log) == TRUE

\* The file is a prefix of the replayed log.
Replayable(log) ==
    /\ Len(mem) <= Len(log)
    /\ SubSeq(Replay(log), 1, Len(mem)) = mem

\* Mutant: only executions that have started are recovered.
OpenExecutionsStarted ==
    {c \in Calls : Known(c, "started") /\ ~Known(c, "committed")}

\* The executions recover() finds declared and not committed.
OpenExecutions ==
    {c \in Calls : Known(c, "declared") /\ ~Known(c, "committed")}

\* _inject_interruption_recovery; recover() then reads the journal.
Repair ==
    /\ pc = "repairing"
    /\ mem' = IF Replayable(events) THEN Replay(events) ELSE mem
    /\ pc' = "recovering"
    /\ todo' = OpenExecutions
    /\ UNCHANGED <<disk, executed, round, stage, repaired, runs>>

\* The receipt recover() writes for an execution without one.
Synthesized(c) ==
    IF Known(c, "finished")
    THEN IF c \in sidecar THEN "result" ELSE "result_unavailable"
    ELSE IF Known(c, "started") THEN "outcome_unknown"
    ELSE "restart_before_execution"

\* Mutant: a receipt is synthesized although there is one.
AnsweredNever(c) == FALSE

Answered(c) == HasReceipt(mem, c)

\* recover() visits one open execution: commit the receipt it has, skip the
\* call if its declaration is not in the session, synthesize its receipt.
RecoverCall ==
    /\ pc = "recovering"
    /\ todo # {}
    /\ LET c == First(todo) IN
         \/ /\ Answered(c)
            /\ pc' = "recommitting"
            /\ UNCHANGED <<events, mem, todo, repaired>>
         \/ /\ ~Answered(c) /\ ~HasDeclaration(mem, c)
            /\ todo' = todo \ {c}
            /\ UNCHANGED <<events, mem, pc, repaired>>
         \/ /\ ~Answered(c) /\ HasDeclaration(mem, c)
            /\ repaired' = TRUE
            /\ \E ok \in Attempt("message") :
                 /\ Say(Receipt(c, Synthesized(c)), ok)
                 /\ IF ok THEN pc' = "recommitting" /\ UNCHANGED todo
                    ELSE todo' = todo \ {c} /\ UNCHANGED pc
    /\ UNCHANGED <<json, wal, sidecar, executed, round, stage, runs>>

\* The end of recover(): one save for all it synthesized.
RecoverSave ==
    /\ pc = "recovering"
    /\ todo = {}
    /\ IF repaired THEN TrySave ELSE UNCHANGED <<json, events>>
    /\ repaired' = FALSE
    /\ pc' = "idle"
    /\ UNCHANGED <<wal, sidecar, executed, mem, round, todo, stage, runs>>

-----------------------------------------------------------------------------
\* One round of tool calls

\* The assistant message with its calls; if its event is lost, no execution is
\* declared and no call will start.
DeclareRound ==
    /\ pc = "idle"
    /\ round < Len(Rounds)
    /\ round' = round + 1
    /\ todo' = Rounds[round + 1]
    /\ \E ok \in Attempt("message") :
         /\ Say(Declaration(round + 1), ok)
         /\ pc' = IF ok THEN "declaring" ELSE "starting"
    /\ UNCHANGED <<json, wal, sidecar, executed, stage, repaired, runs>>

\* _declare_tool_execution_wal, one call; a lost event leaves no execution id.
Declared ==
    /\ pc = "declaring"
    /\ LET c == First(todo) IN
         \E ok \in Attempt("declared") :
           /\ Note("declared", c, ok)
           /\ stage' = [stage EXCEPT ![c] = IF ok THEN "declared" ELSE "none"]
           /\ Visited(c, "starting", Rounds[round])
    /\ UNCHANGED <<json, events, sidecar, executed, mem, round, repaired, runs>>

\* The client disconnects, or the run is cancelled, before anything started.
Cancel ==
    /\ pc = "starting"
    /\ todo = Rounds[round]
    /\ pc' = "cancelling"
    /\ UNCHANGED <<disk, executed, mem, round, todo, stage, repaired, runs>>

SynthesizeCancelled ==
    /\ pc = "cancelling"
    /\ LET c == First(todo) IN
         /\ \E ok \in Attempt("message") : Say(Receipt(c, "cancelled"), ok)
         /\ Visited(c, "ending", {})
    /\ UNCHANGED <<json, wal, sidecar, executed, round, stage, repaired, runs>>

\* Mutant: a start that is not durable is ignored.
MayStartAnyway(c, ok) == stage[c] = "declared"

\* Only a declared execution whose start is durable may run.
MayStart(c, ok) == stage[c] = "declared" /\ ok

Started ==
    /\ pc = "starting"
    /\ LET c == First(todo) IN
         \E ok \in (IF stage[c] = "declared" THEN Attempt("started") ELSE {FALSE}) :
           /\ Note("started", c, ok)
           /\ stage' = [stage EXCEPT ![c] =
                  IF MayStart(c, ok) THEN "ready"
                  ELSE IF stage[c] = "declared" THEN "refused" ELSE "none"]
           /\ Visited(c, "executing", {})
    /\ UNCHANGED <<json, events, sidecar, executed, mem, round, repaired, runs>>

\* Read-only calls first and together, the others one by one in their order.
Due(c) ==
    \A d \in InStage({"ready", "running", "staged"}) \ {c} :
        c \in ReadOnly \/ (d \notin ReadOnly /\ c < d)

\* The tool runs, and its effects happen.
Execute(c) ==
    /\ pc = "executing"
    /\ stage[c] = "ready"
    /\ Due(c)
    /\ executed' = executed \union {c}
    /\ stage' = [stage EXCEPT ![c] = "running"]
    /\ UNCHANGED <<disk, pc, mem, round, todo, repaired, runs>>

\* persist_finished, first half: the exact receipt is staged; an exception is
\* swallowed by execute_many.
StageResult(c) ==
    /\ pc = "executing"
    /\ stage[c] = "running"
    /\ InStage({"staged"}) = {}
    /\ \E ok \in Attempt("sidecar") :
         /\ sidecar' = IF ok THEN sidecar \union {c} ELSE sidecar
         /\ stage' = [stage EXCEPT ![c] = IF ok THEN "staged" ELSE "done"]
    /\ UNCHANGED <<json, events, wal, executed, pc, mem, round, todo, repaired,
                   runs>>

\* persist_finished, second half: the finished event with the staged digest.
Finished(c) ==
    /\ pc = "executing"
    /\ stage[c] = "staged"
    /\ \E ok \in Attempt("finished") : Note("finished", c, ok)
    /\ stage' = [stage EXCEPT ![c] = "done"]
    /\ UNCHANGED <<json, events, sidecar, executed, pc, mem, round, todo,
                   repaired, runs>>

\* Between two segments: nothing in flight, and the read-only segment is either
\* wholly ahead or wholly behind.
AtBoundary ==
    /\ InStage({"running", "staged"}) = {}
    /\ \/ InStage({"ready"}) \intersect ReadOnly = {}
       \/ InStage({"done"}) \intersect ReadOnly = {}

\* An interjection is waiting: the segments not yet dispatched are dropped.
GapSkip ==
    /\ pc = "executing"
    /\ InStage({"ready"}) # {}
    /\ AtBoundary
    /\ stage' = [c \in Calls |-> IF stage[c] = "ready" THEN "skipped" ELSE stage[c]]
    /\ UNCHANGED <<disk, executed, pc, mem, round, todo, repaired, runs>>

\* The results are in; their receipts are recorded in declaration order.
ExecutionEnds ==
    /\ pc = "executing"
    /\ InStage({"ready", "running", "staged"}) = {}
    /\ pc' = "recording"
    /\ todo' = Rounds[round] \ InStage({"skipped"})
    /\ UNCHANGED <<disk, executed, mem, round, stage, repaired, runs>>

\* Mutant: the execution is settled although its receipt's event was lost.
SettlesAnyway(c, ok) == stage[c] # "none"

Settles(c, ok) == stage[c] # "none" /\ ok

\* _record_single_receipt: the message and its event; the commit follows only
\* a durable message of a declared execution.
RecordReceipt ==
    /\ pc = "recording"
    /\ todo # {}
    /\ LET c == First(todo) IN
         \E ok \in Attempt("message") :
           /\ Say(Receipt(c, IF stage[c] = "done" THEN "result" ELSE "not_started"), ok)
           /\ IF Settles(c, ok) THEN pc' = "committing" /\ UNCHANGED todo
              ELSE todo' = todo \ {c} /\ UNCHANGED pc
    /\ UNCHANGED <<json, wal, sidecar, executed, round, stage, repaired, runs>>

\* Mutant: the sidecar goes even if the commit is not durable.
UnlinkedAnyway(c, ok) == sidecar \ {c}

Unlinked(c, ok) == IF ok THEN sidecar \ {c} ELSE sidecar

\* receipt_committed, from the tool cycle or from recover().
ReceiptCommitted ==
    /\ pc \in {"committing", "recommitting"}
    /\ LET c == First(todo) IN
         /\ \E ok \in Attempt("committed") :
              /\ Note("committed", c, ok)
              /\ sidecar' = Unlinked(c, ok)
         /\ todo' = todo \ {c}
    /\ pc' = IF pc = "committing" THEN "recording" ELSE "recovering"
    /\ UNCHANGED <<json, events, executed, mem, round, stage, repaired, runs>>

\* The snapshot after the batch, then the receipts of the skipped calls.
RoundSaved ==
    /\ pc = "recording"
    /\ todo = {}
    /\ TrySave
    /\ todo' = InStage({"skipped"})
    /\ pc' = IF todo' = {} THEN "idle" ELSE "skipping"
    /\ stage' = NoStages
    /\ UNCHANGED <<wal, sidecar, executed, mem, round, repaired, runs>>

SynthesizeSkipped ==
    /\ pc = "skipping"
    /\ LET c == First(todo) IN
         /\ \E ok \in Attempt("message") : Say(Receipt(c, "skipped"), ok)
         /\ Visited(c, "idle", {})
    /\ UNCHANGED <<json, wal, sidecar, executed, round, stage, repaired, runs>>

\* The loop has its answer, or gives up.
LoopEnds ==
    /\ pc = "idle"
    /\ pc' = "ending"
    /\ UNCHANGED <<disk, executed, mem, round, todo, stage, repaired, runs>>

FinalSave ==
    /\ pc = "ending"
    /\ TrySave
    /\ Forget
    /\ UNCHANGED <<wal, sidecar, executed, round, runs>>

\* The process dies; disk and world remain.
Crash ==
    /\ pc # "off"
    /\ Forget
    /\ UNCHANGED <<disk, executed, round, runs>>

Next ==
    \/ StartRun \/ Repair \/ RecoverCall \/ RecoverSave
    \/ DeclareRound \/ Declared \/ Cancel \/ SynthesizeCancelled \/ Started
    \/ \E c \in Calls : Execute(c) \/ StageResult(c) \/ Finished(c)
    \/ GapSkip \/ ExecutionEnds \/ RecordReceipt \/ ReceiptCommitted
    \/ RoundSaved \/ SynthesizeSkipped \/ LoopEnds \/ FinalSave \/ Crash

Spec == Init /\ [][Next]_vars
-----------------------------------------------------------------------------
\* Properties

Labels == {"off", "repairing", "recovering", "recommitting", "idle",
           "declaring", "starting", "cancelling", "executing", "recording",
           "committing", "skipping", "ending"}
Stages == {"none", "declared", "refused", "ready", "running", "staged", "done",
           "skipped"}
Messages == [role : {"assistant", "tool"}, id : Nat,
             says : Outcomes \union {"tool_calls"}]
Transcripts == {mem, json, Replay(events)}

\* The state keeps its shape, nothing of a run's memory outlives it, and the
\* phases that visit calls one by one have one to visit.
TypeOK ==
    /\ json \in Seq(Messages) /\ mem \in Seq(Messages)
    /\ events \in Seq([index : Nat \ {0}, msg : Messages])
    /\ wal \subseteq {"declared", "started", "finished", "committed"} \X Calls
    /\ sidecar \subseteq Calls /\ executed \subseteq Calls /\ todo \subseteq Calls
    /\ round \in 0..Len(Rounds) /\ runs \in 0..MaxRuns
    /\ stage \in [Calls -> Stages] /\ repaired \in BOOLEAN /\ pc \in Labels
    /\ pc = "off" => mem = << >> /\ todo = {} /\ stage = NoStages
    /\ pc \in {"declaring", "starting", "cancelling", "skipping", "committing",
              "recommitting"} => todo # {}

\* No copy of the transcript says that a call did not run when it did, or that
\* it answered when it did not run, whatever was lost before a crash: a start
\* is durable before the call runs (started, recover).
ReceiptsTellTheTruth ==
    \A messages \in Transcripts : \A i \in DOMAIN messages :
        /\ messages[i].says \in Denials => messages[i].id \notin executed
        /\ messages[i].says = "result" => messages[i].id \in executed

\* Once its finished event is durable, the exact result of a call stays
\* available until its receipt is settled, and no later recovery tells
\* anything else of it (finished stages the file first, receipt_committed
\* unlinks it last).
ExactResultSurvives ==
    \A c \in Calls : Known(c, "finished") =>
        /\ c \in sidecar \/ Known(c, "committed")
        /\ \A messages \in Transcripts : \A i \in DOMAIN messages :
              messages[i].role = "tool" /\ messages[i].id = c
                => messages[i].says = "result"

\* A call is answered in a durable copy of the transcript.
Told(c) == HasReceipt(json, c) \/ HasReceipt(Replay(events), c)

\* A settled execution is told: recovery, which passes settled executions over,
\* loses nothing by it.  A call is about to be settled only when it is told,
\* and recovery, which looks into its memory, finds no answer there that is not.
CommitsAreTold ==
    /\ \A c \in Calls : Known(c, "committed") => Told(c)
    /\ pc \in {"committing", "recommitting"} => Told(First(todo))
    /\ pc \in {"recovering", "recommitting"} =>
        \A c \in todo : HasReceipt(mem, c) => Told(c)

\* A call leaves its traces in their order: declared in a round that has come,
\* started before it ran, finished after; an open execution is not settled.
TracesAreInOrder ==
    /\ \A c \in Calls :
        /\ Known(c, "declared") => \E r \in 1..round : c \in Rounds[r]
        /\ Known(c, "started") => Known(c, "declared")
        /\ c \in executed => Known(c, "started")
        /\ Known(c, "finished") => c \in executed
    /\ pc \in {"recovering", "recommitting"} =>
        \A c \in todo : Known(c, "declared") /\ ~Known(c, "committed")

InRound == {"declaring", "starting", "cancelling", "executing", "recording",
            "committing"}

\* What the run believes of the calls of its round is so in the world and in
\* the journal; it visits only those, and believes nothing of others.
StagesAreTrue ==
    /\ pc \in InRound \union {"skipping"} => round > 0 /\ todo \subseteq Rounds[round]
    /\ pc \in {"executing", "idle", "ending"} => todo = {}
    /\ pc \in {"repairing", "recovering", "recommitting", "idle", "skipping"} =>
        stage = NoStages
    /\ pc \in {"declaring", "starting", "cancelling", "ending"} =>
        InStage({"done", "skipped"}) = {}
    /\ pc \in {"recording", "committing"} =>
        InStage({"ready"}) = {} /\ todo \intersect InStage({"skipped"}) = {}
    /\ \A c \in Calls :
        /\ stage[c] # "none" => Known(c, "declared") /\ c \in Rounds[round]
        /\ stage[c] = "ready" => Known(c, "started")
        /\ stage[c] \in {"running", "staged"} => pc = "executing"
        /\ stage[c] = "staged" => c \in sidecar
    /\ pc \in InRound =>
        Rounds[round] \intersect executed = InStage({"running", "staged", "done"})
    /\ pc = "skipping" => todo \intersect executed = {}

\* The calls that the loop, or recover(), has still to answer.
Owed ==
    IF pc \in {"declaring", "starting", "executing"} THEN Rounds[round]
    ELSE InStage({"skipped"}) \union
         IF pc \in {"committing", "recommitting"} THEN todo \ {First(todo)} ELSE todo

\* Each message tells of a call or a round that has come, and no copy of the
\* transcript answers a call of the round before its turn.
MessagesAreKnown ==
    \A messages \in Transcripts : \A i \in DOMAIN messages :
        LET m == messages[i]
        IN \/ m.role = "assistant" /\ m.id \in 1..round /\ m.says = "tool_calls"
           \/ /\ m.role = "tool" /\ m.says \in Outcomes
              /\ \E r \in 1..round : m.id \in Rounds[r]
              /\ pc \notin {"recovering", "recommitting"} => m.id \notin Owed

\* A run carries on what the file says.
MemoryExtendsFile ==
    /\ pc # "off" => Len(json) <= Len(mem) /\ SubSeq(mem, 1, Len(json)) = json
    /\ pc = "repairing" => mem = json

\* Journal, transcript and world are never out of step: the parts above
\* together.
JournalIsSound ==
    /\ TypeOK /\ ReceiptsTellTheTruth /\ CommitsAreTold
    /\ TracesAreInOrder /\ StagesAreTrue /\ MessagesAreKnown /\ MemoryExtendsFile

\* While no message event is lost: when a run is ready for the model, every
\* declared execution whose call is in its history is answered there, whatever
\* crashes and lost journal events came before (recover passes over the settled
\* ones, and relies on the repair for their receipts).
DeclaredAreAnswered ==
    pc = "idle" =>
        \A c \in Calls : Known(c, "declared") /\ HasDeclaration(mem, c)
            => HasReceipt(mem, c)

\* No save drops or rewrites a message that an earlier one wrote, however the
\* log and the file disagree (the prefix check of the repair).
FileNeverForgets ==
    [][Len(json) <= Len(json') /\ SubSeq(json', 1, Len(json)) = json]_vars

\* The outcome of a call that the durable log tells first.
FirstTold(c) ==
    LET told == {i \in DOMAIN events : events[i].msg.role = "tool"
                                        /\ events[i].msg.id = c}
    IN IF told = {} THEN "untold" ELSE events[First(told)].msg.says

\* The journal and the loop around it keep the promise of ToolLedger.
Ledger == INSTANCE ToolLedger WITH
    ran <- executed,
    told <- [c \in Calls |-> FirstTold(c)],
    Untold <- "untold"

KeepsLedger == Ledger!LedgerSpec

\* While no message event is lost, the file is never ahead of the log nor at
\* odds with it, so that the repair is never refused, and a run has in its
\* memory what the log says.
LogIsAhead ==
    /\ Len(json) <= Len(events)
    /\ SubSeq(Replay(events), 1, Len(json)) = json
    /\ \A i \in DOMAIN events : events[i].index = i
    /\ pc \notin {"off", "repairing"} => mem = Replay(events)

\* While no message event is lost, a declared execution is one of a call that
\* the log shows, and in a run it has its answer or is still owed one.
NobodyIsForgotten ==
    /\ \A c \in Calls : Known(c, "declared") =>
        /\ HasDeclaration(Replay(events), c)
        /\ pc \notin {"off", "repairing"} => HasReceipt(mem, c) \/ c \in Owed
    /\ pc = "declaring" => \A c \in Rounds[round] : HasDeclaration(Replay(events), c)

\* While no message event is lost, a call is answered at most once in every
\* copy of the transcript, and a run that is ready for the model has exactly
\* one answer for each call that ever ran.
ExecutionsAreToldOnce ==
    /\ \A messages \in Transcripts : \A i, j \in DOMAIN messages :
          messages[i].role = "tool" /\ messages[i].role = messages[j].role
            /\ messages[i].id = messages[j].id => i = j
    /\ pc = "idle" => \A c \in executed : HasReceipt(mem, c)

\* The two copies of the transcript agree and tell each execution once: the
\* parts above together.
TranscriptIsExact == LogIsAhead /\ NobodyIsForgotten /\ ExecutionsAreToldOnce
=============================================================================
