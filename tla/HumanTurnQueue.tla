--------------------------- MODULE HumanTurnQueue ---------------------------
(***************************************************************************)
(* The human turns waiting for one session (web/human_turn_queue.py), the  *)
(* browser tabs and the server's fallback thread that compete to dispatch  *)
(* them (web/routes.py, web/queue_recovery.py), the background run that    *)
(* executes one (core/loop/runner.py), and the interjection of a waiting   *)
(* turn into the run that is executing another.                            *)
(*                                                                         *)
(* Each operation of the queue holds its lock and rewrites its file, so it *)
(* is one step; an operation whose save raises leaves memory changed.      *)
(* What a request does between two calls is several steps.                 *)
(***************************************************************************)
EXTENDS Naturals, Sequences, FiniteSets, FiniteSetsExt

CONSTANTS
    Tabs,         \* browser tabs
    Others,       \* kinds of run that no queued turn starts
    Late,         \* may whoever holds a turn act after it was taken for gone?
    MaxItems,     \* bound: turns enqueued
    MaxOthers,    \* bound: runs of another kind
    MaxFaults,    \* bound: failed writes, tabs that die, barriers, exceptions
    MaxCrashes,   \* bound: restarts of the server
    Fallback,     \* the fallback thread
    None          \* no item

ASSUME OthersAssumption == Others \subseteq {"human", "program"}
ASSUME HolderAssumption == Fallback \notin Tabs
ASSUME FlagAssumption == Late \in BOOLEAN
ASSUME BoundAssumption ==
    /\ MaxItems \in Nat /\ MaxOthers \in Nat
    /\ MaxFaults \in Nat /\ MaxCrashes \in Nat
    /\ None \notin 1..MaxItems

Items == 1..MaxItems  \* in the order in which they were enqueued
Holders == Tabs \union {Fallback}

VARIABLES
    mem,       \* HumanTurnQueue._items
    disk,      \* human_turn_queue.json
    log,       \* the session's events: user messages and ends of runs
    run,       \* the registered run of the session
    holder,    \* what each tab, or the request it has sent, is about to do
    born,      \* turns enqueued so far
    gens,      \* runs started so far
    others,    \* of these, runs of another kind
    faults,    \* what went wrong so far
    crashes,   \* restarts so far
    accepted,  \* history: turns answered 202
    withdrawn, \* history: turns whose cancellation was answered ok
    over,      \* history: turns whose message a run took in, and has returned
    denied     \* history: turns whose message the ingress guard refused

items == <<mem, disk, faults>>
history == <<accepted, withdrawn, over, denied>>
counters == <<born, gens, others, crashes>>
vars == <<items, log, run, holder, counters, history>>

-----------------------------------------------------------------------------
NoRun == [gen |-> 0, item |-> None, by |-> None, pc |-> "none", box |-> {}, at |-> None]
Idle == [pc |-> "idle", item |-> None, gen |-> 0]
Absent == [status |-> "absent", gen |-> 0]

Is(i, status) == mem[i].status = status
Held(i) == \E h \in Holders : holder[h].item = i

\* Something of the finite budget goes wrong in this step, or nothing does.
Fault == faults < MaxFaults /\ faults' = faults + 1
NoFault == UNCHANGED faults

\* _save after memory has become new: the file follows, or the save raises
\* and the file may have been replaced or not.
Saves(new) == mem' = new /\ disk' = new /\ NoFault
SaveRaises(new) == mem' = new /\ disk' \in {disk, new} /\ Fault

Ingresses(i) == {p \in DOMAIN log : log[p].item = i}

\* _queue_claim_state's reading of the log: what follows the turn's message up
\* to the end of a run or to the message of another human.
After(p) == {q \in p+1 .. Len(log) : log[q].kind # "program"}

\* Mutant: another human's message does not hide the end that follows it.
OutcomeGuesses(p) ==
    LET ends == {q \in p+1 .. Len(log) : log[q].kind = "end"}
    IN IF ends = {} THEN "ingress_open" ELSE log[Min(ends)].reason

Outcome(p) ==
    IF After(p) = {} THEN "ingress_open"
    ELSE LET e == log[Min(After(p))]
         IN IF e.kind = "end" THEN e.reason ELSE "unknown"

Probe(i) ==
    IF run # NoRun THEN "active"
    ELSE IF Ingresses(i) = {} THEN "not_started"
    ELSE IF Cardinality(Ingresses(i)) = 1 THEN Outcome(Min(Ingresses(i)))
    ELSE "unknown"

\* A tab has a minute to use its claim and the fallback looks every 15 s at
\* what a request does at once: unless Late, whoever holds a turn acts in time.
Abandoned(i) == ~Held(i) \/ (Late /\ holder[Fallback].item # i)
MayBeStale(i) == Is(i, "claimed") /\ Abandoned(i)

\* Mutant: a claim that never started is left to its holder.
ReapedSettlesOnly(S) ==
    [i \in Items |->
        IF i \in S /\ Probe(i) \in {"completed", "failed"}
        THEN [mem[i] EXCEPT !.status = Probe(i)] ELSE mem[i]]

\* _reap_stale_claims_locked with the claims of S past the timeout.
Reaped(S) ==
    [i \in Items |->
        IF i \in S /\ Probe(i) = "not_started"
        THEN [mem[i] EXCEPT !.status = "queued"]
        ELSE IF i \in S /\ Probe(i) \in {"completed", "failed"}
        THEN [mem[i] EXCEPT !.status = Probe(i)]
        ELSE mem[i]]

StaleSets == SUBSET {i \in Items : MayBeStale(i)}

\* _load: no mailbox survives a restart.
Load(file) ==
    [i \in Items |-> IF file[i].status = "interject_pending"
                     THEN [file[i] EXCEPT !.status = "queued"] ELSE file[i]]

Set(m, i, status) == [m EXCEPT ![i].status = status]

Init ==
    /\ mem = [i \in Items |-> Absent] /\ disk = mem
    /\ log = <<>>
    /\ run = NoRun
    /\ holder = [h \in Holders |-> Idle]
    /\ born = 0 /\ gens = 0 /\ others = 0 /\ faults = 0 /\ crashes = 0
    /\ accepted = {} /\ withdrawn = {} /\ over = {} /\ denied = {}

-----------------------------------------------------------------------------
\* Requests of a tab that are one call

\* POST /chat/queue: 202, or 503 with the turn in memory all the same.
Enqueue ==
    /\ born < MaxItems
    /\ born' = born + 1
    /\ LET new == Set(mem, born + 1, "queued")
       IN \/ Saves(new) /\ accepted' = accepted \union {born + 1}
          \/ SaveRaises(new) /\ UNCHANGED accepted
    /\ UNCHANGED <<log, run, holder, gens, others, crashes, withdrawn, over, denied>>

\* Mutant: a turn that is being sent can be cancelled.
CancellableAnyTime(i) == mem[i].status \in {"queued", "claimed"}

Cancellable(i) == Is(i, "queued")

\* DELETE /chat/queue.
Cancel(i) ==
    /\ Cancellable(i)
    /\ LET new == Set(mem, i, "cancelled")
       IN \/ Saves(new) /\ withdrawn' = withdrawn \union {i}
          \/ SaveRaises(new) /\ UNCHANGED withdrawn
    /\ UNCHANGED <<log, run, holder, counters, accepted, over, denied>>

\* GET /chat/queue, and the end of POST /chat/queue: list_active reaps.
ListActive ==
    \E S \in StaleSets :
        /\ Reaped(S) # mem
        /\ Saves(Reaped(S)) \/ SaveRaises(Reaped(S))
        /\ UNCHANGED <<log, run, holder, counters, history>>

-----------------------------------------------------------------------------
\* Dispatching a turn

\* dispatch_claim: reap, then claim the oldest queued turn.  When the save
\* raises, nobody learns of the claim.
DispatchClaim(h) ==
    /\ holder[h] = Idle
    /\ \E S \in StaleSets :
         LET queued == {i \in Items : Reaped(S)[i].status = "queued"}
             new == Set(Reaped(S), Min(queued), "claimed")
         IN /\ queued # {}
            /\ \/ /\ Saves(new)
                  /\ holder' = [holder EXCEPT ![h] =
                        [pc |-> "claimed", item |-> Min(queued), gen |-> 0]]
               \/ SaveRaises(new) /\ UNCHANGED holder
    /\ UNCHANGED <<log, run, counters, history>>

\* chat_stream up to its check that the turn is claimed, by whomever.
CheckClaim(t) ==
    /\ holder[t].pc = "claimed"
    /\ \E S \in StaleSets :
         LET new == Reaped(S)
         IN \/ /\ IF new = mem THEN UNCHANGED items ELSE Saves(new)
               /\ holder' = [holder EXCEPT ![t] =
                    IF new[holder[t].item].status = "claimed"
                    THEN [@ EXCEPT !.pc = "checked"] ELSE Idle]
            \/ new # mem /\ SaveRaises(new) /\ holder' = [holder EXCEPT ![t] = Idle]
    /\ UNCHANGED <<log, run, counters, history>>

Released(i) == IF Is(i, "claimed") THEN Set(mem, i, "queued") ELSE mem

\* chat_stream finds the admission barrier up and gives the turn back.
BarrierRelease(t) ==
    /\ holder[t].pc = "checked"
    /\ LET new == Released(holder[t].item)
       IN mem' = new /\ disk' = new /\ Fault
    /\ holder' = [holder EXCEPT ![t] = Idle]
    /\ UNCHANGED <<log, run, counters, history>>

Register(i, by) ==
    /\ gens' = gens + 1
    /\ run' = [NoRun EXCEPT !.gen = gens + 1, !.item = i, !.by = by,
                            !.pc = "registered"]

\* runner.start for a tab; refused while a run is registered, and then the
\* turn stays claimed.
TabStarts(t) ==
    /\ holder[t].pc = "checked"
    /\ holder' = [holder EXCEPT ![t] = Idle]
    /\ IF run = NoRun THEN Register(holder[t].item, t) ELSE UNCHANGED <<run, gens>>
    /\ UNCHANGED <<items, log, born, others, crashes, history>>

TabDies(t) ==
    /\ holder[t].pc = "claimed"
    /\ holder' = [holder EXCEPT ![t] = Idle]
    /\ Fault
    /\ UNCHANGED <<mem, disk, log, run, counters, history>>

\* tick_once: a session with a queued turn and no run.
FallbackClaims ==
    /\ run = NoRun
    /\ \E i \in Items : Is(i, "queued")
    /\ DispatchClaim(Fallback)

\* _execute_claimed: a start that is refused gives the turn back.
FallbackStarts ==
    /\ holder[Fallback].pc = "claimed"
    /\ holder' = [holder EXCEPT ![Fallback] = Idle]
    /\ LET i == holder[Fallback].item
       IN IF run = NoRun THEN Register(i, Fallback) /\ UNCHANGED items
          ELSE /\ Saves(Released(i)) \/ SaveRaises(Released(i))
               /\ UNCHANGED <<run, gens>>
    /\ UNCHANGED <<log, born, others, crashes, history>>

-----------------------------------------------------------------------------
\* Interjecting a turn into the run of another

\* POST /chat/queue/interject up to claim_interject.
InterjectClaim(t, i) ==
    /\ holder[t] = Idle
    /\ run # NoRun
    /\ Is(i, "queued")
    /\ LET new == [mem EXCEPT ![i] = [status |-> "interject_pending",
                                      gen |-> run.gen]]
       IN \/ /\ Saves(new)
             /\ holder' = [holder EXCEPT ![t] =
                    [pc |-> "handing", item |-> i, gen |-> run.gen]]
          \/ SaveRaises(new) /\ UNCHANGED holder
    /\ UNCHANGED <<log, run, counters, history>>

\* enqueue_interjection: the run of that generation takes it, or none does.
InterjectHand(t) ==
    /\ holder[t].pc = "handing"
    /\ IF run.gen = holder[t].gen
       THEN /\ run' = [run EXCEPT !.box = @ \union {holder[t].item}]
            /\ holder' = [holder EXCEPT ![t] = Idle]
       ELSE holder' = [holder EXCEPT ![t].pc = "refused"] /\ UNCHANGED run
    /\ UNCHANGED <<items, log, counters, history>>

\* release_interject.
TakeBack(h) ==
    LET i == holder[h].item
        new == IF Is(i, "interject_pending") THEN Set(mem, i, "queued") ELSE mem
    IN /\ Saves(new) \/ SaveRaises(new)
       /\ holder' = [holder EXCEPT ![h] = Idle]
       /\ UNCHANGED <<log, run, counters, history>>

InterjectRefused(t) == holder[t].pc = "refused" /\ TakeBack(t)

\* reap_orphan_interjects: the run the turn was handed to is not the one alive.
OrphanSeen(i) ==
    /\ holder[Fallback] = Idle
    /\ Is(i, "interject_pending")
    /\ mem[i].gen # run.gen
    /\ Abandoned(i)
    /\ holder' = [holder EXCEPT ![Fallback] =
            [pc |-> "orphan", item |-> i, gen |-> 0]]
    /\ UNCHANGED <<items, log, run, counters, history>>

OrphanRequeued == holder[Fallback].pc = "orphan" /\ TakeBack(Fallback)

-----------------------------------------------------------------------------
\* The run

Event(kind, item, reason) == [kind |-> kind, item |-> item, reason |-> reason]
Logs(event) == log' = Append(log, event)

\* A run no queued turn starts: a direct message, or a program's.
StartOther(kind) ==
    /\ run = NoRun
    /\ others < MaxOthers /\ others' = others + 1
    /\ gens' = gens + 1
    /\ run' = [NoRun EXCEPT !.gen = gens + 1, !.pc = "running"]
    /\ Logs(Event(kind, None, None))
    /\ UNCHANGED <<items, holder, born, crashes, history>>

\* The user message becomes an event, or the turn does not start.
RunIngress ==
    /\ run.pc = "registered"
    /\ \/ NoFault /\ Logs(Event("turn", run.item, None)) /\ run' = [run EXCEPT !.pc = "running"]
       \/ Fault /\ run' = [run EXCEPT !.pc = "not_started"] /\ UNCHANGED log
    /\ UNCHANGED <<mem, disk, holder, counters, history>>

\* The guard denies the turn's message: nothing is logged, and the run returns
\* as if it had been carried out.
RunDenied ==
    /\ run.pc = "registered"
    /\ Fault
    /\ run' = [run EXCEPT !.pc = "completed"]
    /\ denied' = denied \union {run.item}
    /\ UNCHANGED <<mem, disk, log, holder, counters, accepted, withdrawn, over>>

\* One row of the mailbox crosses the ingress guard and becomes an event, or
\* the event is lost but the session saved; a row that cannot be saved fails
\* the run, which loses its mailbox.
Consume(i) ==
    /\ run.pc = "running"
    /\ i \in run.box
    /\ \/ Logs(Event("interjection", i, None))
       \/ UNCHANGED log
    /\ \/ /\ IF log' = log THEN Fault ELSE NoFault
          /\ run' = [run EXCEPT !.box = @ \ {i}, !.pc = "acking", !.at = i]
       \/ Fault /\ run' = [run EXCEPT !.pc = "failed"]
    /\ UNCHANGED <<mem, disk, holder, counters, history>>

\* Mutant: the receipt looks for a turn that is still queued.
ReceivedIfQueued(i) ==
    IF Is(i, "queued") THEN Set(mem, i, "interject_received") ELSE mem

Received(i) ==
    IF Is(i, "interject_pending") THEN Set(mem, i, "interject_received") ELSE mem

\* mark_interject_received; an error is swallowed.
Ack ==
    /\ run.pc = "acking"
    /\ run' = [run EXCEPT !.pc = "running", !.at = None]
    /\ Saves(Received(run.at)) \/ SaveRaises(Received(run.at))
    /\ UNCHANGED <<log, holder, counters, history>>

\* The guard denies the row: mark_interject_denied.
Deny(i) ==
    /\ run.pc = "running"
    /\ i \in run.box
    /\ run' = [run EXCEPT !.box = @ \ {i}]
    /\ LET new == IF Is(i, "interject_pending")
                  THEN Set(mem, i, "interject_denied") ELSE mem
       IN mem' = new /\ disk' = new /\ Fault
    /\ UNCHANGED <<log, holder, counters, history>>

\* The turns whose messages the run has taken in.
LastEnd == {0} \union {p \in DOMAIN log : log[p].kind \in {"human", "program", "turn"}}
Taken == {log[p].item : p \in Max(LastEnd) .. Len(log)} \ {None}

\* run.end is logged with its reason, or the append is lost; the run returns.
RunEnds ==
    /\ run.pc = "running"
    /\ run' = [run EXCEPT !.pc = "completed"]
    /\ over' = over \union Taken
    /\ \/ NoFault /\ \E reason \in {"completed", "failed"} : Logs(Event("end", None, reason))
       \/ Fault /\ UNCHANGED log
    /\ UNCHANGED <<mem, disk, holder, counters, accepted, withdrawn, denied>>

\* An exception, also before the message is an event: a session that cannot be
\* loaded, an epoch that is gone, a budget that is refused.
RunRaises ==
    /\ run.pc \in {"registered", "running"}
    /\ Fault
    /\ run' = [run EXCEPT !.pc = "failed"]
    /\ UNCHANGED <<mem, disk, log, holder, counters, history>>

\* What the terminal callback makes of the claimed turn.  The fallback's
\* callback raises on "not_started" and the error is swallowed.
Told ==
    IF run.item = None \/ ~Is(run.item, "claimed") THEN mem
    ELSE IF run.pc \in {"completed", "failed"} THEN Set(mem, run.item, run.pc)
    ELSE IF run.pc = "not_started" /\ run.by # Fallback THEN Released(run.item)
    ELSE mem

\* _notify_terminal; an error is swallowed.
NotifyTerminal ==
    /\ run.pc \in {"completed", "failed", "not_started"}
    /\ run' = [run EXCEPT !.pc = "told"]
    /\ Saves(Told) \/ (Told # mem /\ SaveRaises(Told))
    /\ UNCHANGED <<log, holder, counters, history>>

Unregister ==
    /\ run.pc = "told"
    /\ run' = NoRun
    /\ UNCHANGED <<items, log, holder, counters, history>>

\* The server restarts: requests in it are gone, tabs are not.
Crash ==
    /\ crashes < MaxCrashes /\ crashes' = crashes + 1
    /\ mem' = Load(disk) /\ disk' = Load(disk)
    /\ run' = NoRun
    /\ holder' = [h \in Holders |->
            IF h # Fallback /\ holder[h].pc = "claimed" THEN holder[h] ELSE Idle]
    /\ UNCHANGED <<log, born, gens, others, faults, history>>

-----------------------------------------------------------------------------
TabActs(t) ==
    \/ CheckClaim(t) \/ BarrierRelease(t) \/ TabStarts(t) \/ TabDies(t)
    \/ InterjectHand(t) \/ InterjectRefused(t)

FallbackActs ==
    \/ FallbackClaims \/ FallbackStarts \/ OrphanRequeued
    \/ \E i \in Items : OrphanSeen(i)

RunActs ==
    \/ RunIngress \/ RunDenied \/ Ack \/ RunEnds \/ RunRaises \/ NotifyTerminal \/ Unregister
    \/ \E i \in Items : Consume(i) \/ Deny(i)

Next ==
    \/ Enqueue \/ Crash
    \/ \E i \in Items : Cancel(i)
    \/ ListActive
    \/ \E t \in Tabs : DispatchClaim(t) \/ TabActs(t)
    \/ \E t \in Tabs, i \in Items : InterjectClaim(t, i)
    \/ \E kind \in Others : StartOther(kind)
    \/ FallbackActs \/ RunActs

Spec == Init /\ [][Next]_vars

\* The threads of the server are scheduled, and a tab that has claimed acts or
\* dies.  Nobody need ever read the queue.
Fairness ==
    /\ WF_vars(RunActs) /\ WF_vars(FallbackActs)
    /\ \A t \in Tabs : WF_vars(TabActs(t))

FairSpec == Spec /\ Fairness

-----------------------------------------------------------------------------
\* Properties

\* Every component has values of its type.
Statuses == {"absent", "queued", "claimed", "cancelled", "completed", "failed",
             "interject_pending", "interject_received", "interject_denied"}

Files == [Items -> [status : Statuses, gen : 0..gens]]
Events == [kind : {"turn", "interjection"}, item : Items, reason : {None}]
            \union [kind : Others, item : {None}, reason : {None}]
            \union [kind : {"end"}, item : {None}, reason : {"completed", "failed"}]

TypeOK ==
    /\ mem \in Files /\ disk \in Files
    /\ log \in Seq(Events)
    /\ run \in [gen : 0..gens, item : Items \union {None}, by : Holders \union {None},
                pc : {"none", "registered", "running", "acking", "completed", "failed",
                      "not_started", "told"},
                box : SUBSET Items, at : Items \union {None}]
    /\ holder \in [Holders -> [pc : {"idle", "claimed", "checked", "handing", "refused",
                                     "orphan"},
                               item : Items \union {None}, gen : 0..gens]]
    /\ born \in 0..MaxItems /\ gens \in Nat /\ others \in 0..MaxOthers
    /\ faults \in 0..MaxFaults /\ crashes \in 0..MaxCrashes
    /\ accepted \subseteq Items /\ withdrawn \subseteq Items
    /\ over \subseteq Items /\ denied \subseteq Items

\* However claims, releases, restarts and failed writes interleave, no turn is
\* executed by two runs (queue_release: what is executing is never queued
\* again; engine.py: a turn is dispatched again only when its message provably
\* did not start a run).
Turns(i) == {p \in DOMAIN log : log[p].kind = "turn" /\ log[p].item = i}
RunsOnce == \A i \in Items : Cardinality(Turns(i)) <= 1

\* A turn is reported completed only if the run that took its message in has
\* returned, or the guard refused the message, whether the run's callback or the
\* reaper's reading of the log says so (_queue_claim_state: never guess which run
\* a later end belongs to).
CompletedByItsRun ==
    \A i \in Items : Is(i, "completed") => i \in over \union denied

\* A turn has one holder, and is what its holder believes it to be, in memory and,
\* where the holder is to start it, in the file that a restart would load.
Both(i, status) == Is(i, status) /\ disk[i].status = status
HoldersAreHonest ==
    /\ \A h \in Holders : LET i == holder[h].item IN
        /\ holder[h].pc = "idle" <=> i = None
        /\ holder[h].pc \in {"claimed", "checked"} => Both(i, "claimed") /\ Turns(i) = {}
        /\ holder[h].pc = "handing" =>
            mem[i] = [status |-> "interject_pending", gen |-> holder[h].gen]
        /\ holder[h].pc \in {"refused", "orphan"} =>
            Is(i, "interject_pending") /\ mem[i].gen # run.gen
    /\ \A h, k \in Holders : h # k => holder[h].item = None \/ holder[h].item # holder[k].item

\* A run has its turn alone until its end is told, a registered one starts a turn
\* that never started, a running one knows whose message it took, and what is in
\* a run's mailbox was handed to that run.
Carries(i) == run.item = i /\ run.pc # "told"
Starts == {p \in DOMAIN log : log[p].kind \notin {"interjection", "end"}}
InBox(i) == i \in run.box \/ (run.pc = "acking" /\ run.at = i)
RunIsHonest ==
    /\ run.pc = "none" <=> run = NoRun
    /\ run # NoRun => run.gen # 0
    /\ run.pc = "acking" => run.at \in Items \ run.box
    /\ run.pc = "registered" => run.item \in Items
    /\ \A i \in Items : Carries(i) =>
        /\ Both(i, "claimed") /\ ~Held(i)
        /\ run.pc \in {"registered", "not_started"} => Turns(i) = {}
    /\ run.pc \in {"running", "acking"} =>
        \E p \in Starts : log[p].item = run.item /\ \A q \in Starts : q <= p
    /\ run.pc = "completed" => run.item \in over \union denied \union {None}
    /\ \A i \in Items : InBox(i) =>
        mem[i] = [status |-> "interject_pending", gen |-> run.gen] /\ ~Held(i)

\* What has started is never queued again and what was withdrawn stays so, in
\* memory and in the file; what is handed on is handed to some run.
FilesAreHonest ==
    \A i \in Items :
        /\ i > born => Both(i, "absent")
        /\ Turns(i) # {} =>
            {mem[i].status, disk[i].status} \subseteq {"claimed", "completed", "failed"}
        /\ i \in withdrawn => Both(i, "cancelled")
        /\ Is(i, "interject_pending") => mem[i].gen # 0

\* What is told completed is over or was refused, and a turn whose message the
\* end of a run follows is over.
OverIsOver ==
    /\ \A i \in Items : "completed" \in {mem[i].status, disk[i].status} =>
         i \in over \union denied
    /\ \A p, q \in DOMAIN log : log[q].kind = "end" /\ q = p + 1 =>
        log[p].item \in over \union {None}

\* Without failed writes and restarts, what may still be delivered has not been.
DeliveriesAreKnown ==
    (faults = 0 /\ crashes = 0) =>
        \A i \in Items : Ingresses(i) # {} =>
            /\ \/ mem[i].status \in {"claimed", "completed", "failed", "interject_received"}
               \/ run.pc = "acking" /\ run.at = i
            /\ ~Held(i) /\ i \notin run.box
            /\ ~(run.pc \in {"registered", "not_started"} /\ run.item = i)

\* The queue is never out of step with the runs: the parts above together.
QueueIsSound ==
    /\ TypeOK /\ RunsOnce
    /\ HoldersAreHonest /\ RunIsHonest /\ FilesAreHonest /\ DeliveriesAreKnown
    /\ CompletedByItsRun /\ OverIsOver

\* A turn whose cancellation the user was told of is never handed to the model
\* afterwards, not even when it had been interjected, released or reloaded.
CancelIsFinal ==
    [][\A p \in DOMAIN log' \ DOMAIN log :
            log'[p].item \notin withdrawn]_vars

\* A turn that was answered 202 does not wait for ever (SPEC-20260923, P1: what
\* was accepted is continued after a restart): it reaches the session, or its
\* owner is told that it was cancelled, denied, failed or refused.  Unless
\* somebody reads the queue now and then, a claim that nobody holds any more may
\* remain (the fallback looks at queued turns only); when somebody does, none.
Settled(i) ==
    \/ Ingresses(i) # {}
    \/ mem[i].status \in {"interject_received", "interject_denied", "cancelled",
                          "completed", "failed"}
Stranded(i) == Is(i, "claimed") /\ ~Held(i) /\ ~Carries(i)
AcceptedIsAnswered ==
    /\ \A i \in Items : (i \in accepted) ~> (Settled(i) \/ Stranded(i))
    /\ WF_vars(ListActive) => \A i \in Items : (i \in accepted) ~> Settled(i)

\* Without failed writes and restarts no turn reaches the session twice.
DeliveredOnce ==
    (faults = 0 /\ crashes = 0) => \A i \in Items : Cardinality(Ingresses(i)) <= 1

=============================================================================
