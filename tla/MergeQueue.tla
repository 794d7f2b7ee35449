------------------------------ MODULE MergeQueue ------------------------------
(***************************************************************************)
(* The queue of lanes that wait to be merged into main                     *)
(* (introspection/merge_queue.py), driven by the tools lane_queue_submit   *)
(* and lane_queue_confirm (introspection/tools_merge_queue.py).  Every     *)
(* operation rewrites the whole file under one lock and is guarded by the  *)
(* version of the row it means; the checks of a preflight run outside of   *)
(* the lock, between two such operations.                                  *)
(*                                                                         *)
(* A row is never removed: a lane that is submitted again after its row    *)
(* came to an end gets a new one, and the last row of a lane is the one    *)
(* that operations find.  Commits of main are numbered.                    *)
(***************************************************************************)
EXTENDS Naturals, Sequences, FiniteSets, Functions

CONSTANTS
    Lanes,       \* registered lanes
    Callers,     \* sessions that submit lanes
    Areas,       \* what a lane may declare as its paths; equal ones overlap
    MaxRows,     \* bound: rows of the queue
    MaxChanges,  \* bound: sum of the versions of all rows
    MaxMain,     \* bound: commits of main
    None

ASSUME BoundAssumption ==
    /\ MaxRows \in Nat /\ MaxChanges \in Nat /\ MaxMain \in Nat \ {0}
ASSUME NoneAssumption == None \notin Lanes

VARIABLES
    queue,  \* merge_queue.jsonl
    main,   \* the head of main
    pc,     \* where the submission of each caller is
    job     \* what it knows: its lane, the version it expects, its snapshot

vars == <<queue, main, pc, job>>

-----------------------------------------------------------------------------
Terminal == {"merged", "failed", "aborted"}
InSlot == {"preflight", "merging"}

RowsOf(l) == {i \in DOMAIN queue : queue[i].lane = l}

\* _find_index: the last row of the lane.
RowOf(l) == CHOOSE i \in RowsOf(l) : \A j \in RowsOf(l) : j <= i

\* _holder_row finds nobody.
SlotFree == \A i \in DOMAIN queue : queue[i].status \notin InSlot

NoVerdict == [row |-> 0, base |-> 0, area |-> None, head |-> 0]
NoJob == [lane |-> None, version |-> 0, seen |-> NoVerdict, others |-> {},
          pass |-> FALSE]

Entry(l, base, area) ==
    [lane |-> l, base |-> base, area |-> area, status |-> "queued",
     stale |-> 0, verdict |-> NoVerdict, version |-> 1]

Bump(e) == [e EXCEPT !.version = @ + 1]

Changes == FoldFunction(LAMBDA e, n : e.version + n, 0, queue)

\* The row becomes entry, one version later.
Rewrite(i, entry) ==
    /\ Changes < MaxChanges
    /\ queue' = [queue EXCEPT ![i] = Bump(entry)]

Init ==
    /\ queue = << >>
    /\ main = 1
    /\ pc = [c \in Callers |-> "idle"]
    /\ job = [c \in Callers |-> NoJob]

\* Mutant: the version is not looked at.
AnyIsExpected(c, i) == TRUE

\* _assert_version: the row is as the caller has last seen it.
IsExpected(c, i) == queue[i].version = job[c].version

GiveUp(c) ==
    /\ pc' = [pc EXCEPT ![c] = "idle"]
    /\ job' = [job EXCEPT ![c] = NoJob]

-----------------------------------------------------------------------------
\* lane_queue_submit: enqueue, request_preflight, run_preflight

\* enqueue: refused while the lane has a row that has not come to its end.
Enqueue(c, l, base, area) ==
    /\ pc[c] = "idle"
    /\ \A i \in RowsOf(l) : queue[i].status \in Terminal
    /\ Len(queue) < MaxRows /\ Changes < MaxChanges
    /\ queue' = Append(queue, Entry(l, base, area))
    /\ pc' = [pc EXCEPT ![c] = "enqueued"]
    /\ job' = [job EXCEPT ![c] = [NoJob EXCEPT !.lane = l, !.version = 1]]
    /\ UNCHANGED main

\* request_preflight: the row takes the slot.
TakeSlot(c) ==
    LET i == RowOf(job[c].lane) IN
    /\ pc[c] = "enqueued"
    /\ IsExpected(c, i)
    /\ queue[i].status = "queued"
    /\ SlotFree
    /\ Rewrite(i, [queue[i] EXCEPT !.status = "preflight"])
    /\ pc' = [pc EXCEPT ![c] = "staged"]
    /\ job' = [job EXCEPT ![c].version = @ + 1]
    /\ UNCHANGED main

\* request_preflight refuses; the row stays queued and the submission is over.
NoSlot(c) ==
    LET i == RowOf(job[c].lane) IN
    /\ pc[c] = "enqueued"
    /\ \/ ~IsExpected(c, i)
       \/ queue[i].status # "queued"
       \/ ~SlotFree
    /\ GiveUp(c)
    /\ UNCHANGED <<queue, main>>

\* Mutant: rows that are ready are taken for finished ones.
InFlightIgnoresReady(e) ==
    e.status \notin Terminal \union {"ready_for_confirm"}

\* The rows whose paths count: those that have not come to their end.
InFlight(e) == e.status \notin Terminal

\* run_preflight, first critical section: a snapshot of the row and of the
\* paths of the others.
Snapshot(c) ==
    LET i == RowOf(job[c].lane) IN
    /\ pc[c] = "staged"
    /\ IsExpected(c, i) /\ queue[i].status = "preflight"
    /\ job' = [job EXCEPT ![c] =
           [@ EXCEPT !.seen = [row |-> i, base |-> queue[i].base,
                               area |-> queue[i].area, head |-> 0],
                     !.others = {queue[j].area :
                        j \in {k \in DOMAIN queue \ {i} : InFlight(queue[k])}}]]
    /\ pc' = [pc EXCEPT ![c] = "checking"]
    /\ UNCHANGED <<queue, main>>

check_base_main_current(c) == job[c].seen.base = main
check_paths_disjoint(c) == job[c].seen.area \notin job[c].others

\* What git says of the trees, and the reviewers' receipts of the base.
check_merge_tree_clean == BOOLEAN
check_verify_covers_base == BOOLEAN

\* The four checks, without the lock: main is read now.
RunChecks(c) ==
    /\ pc[c] = "checking"
    /\ \E clean \in check_merge_tree_clean, verified \in check_verify_covers_base :
         job' = [job EXCEPT
                   ![c].seen.head = main,
                   ![c].others = {},
                   ![c].pass = /\ clean /\ verified
                               /\ check_base_main_current(c)
                               /\ check_paths_disjoint(c)]
    /\ pc' = [pc EXCEPT ![c] = "checked"]
    /\ UNCHANGED <<queue, main>>

\* run_preflight, second critical section: the verdict is written down if the
\* row's version is still the expected one.
WriteVerdict(c) ==
    LET i == RowOf(job[c].lane) IN
    /\ pc[c] = "checked"
    /\ IsExpected(c, i)
    /\ Rewrite(i, [queue[i] EXCEPT
                     !.verdict = job[c].seen,
                     !.status = IF job[c].pass THEN "ready_for_confirm"
                                ELSE "failed"])
    /\ GiveUp(c)
    /\ UNCHANGED main

\* MergeQueueVersionConflictError in either section, an error while the file is
\* rewritten, or the death of the caller.
Abandon(c) ==
    /\ pc[c] # "idle"
    /\ GiveUp(c)
    /\ UNCHANGED <<queue, main>>

-----------------------------------------------------------------------------
\* lane_queue_confirm, and the two calls that keep a queue up to date.  The
\* version a caller expects is the one of the row it has looked at.

\* request_merge: a human confirms, and the row takes the slot again.
Confirm(l) ==
    LET i == RowOf(l) IN
    /\ queue[i].status = "ready_for_confirm"
    /\ SlotFree
    /\ Rewrite(i, [queue[i] EXCEPT !.status = "merging"])
    /\ UNCHANGED <<main, pc, job>>

\* mark_merged.
MarkMerged(l) ==
    LET i == RowOf(l) IN
    /\ queue[i].status = "merging"
    /\ Rewrite(i, [queue[i] EXCEPT !.status = "merged"])
    /\ UNCHANGED <<main, pc, job>>

\* abort.
Abort(l) ==
    LET i == RowOf(l) IN
    /\ queue[i].status \notin Terminal
    /\ Rewrite(i, [queue[i] EXCEPT !.status = "aborted"])
    /\ UNCHANGED <<main, pc, job>>

\* requeue: a failed row is tried again, perhaps with other paths and base.
Requeue(l, base, area) ==
    LET i == RowOf(l) IN
    /\ queue[i].status = "failed"
    /\ Rewrite(i, [queue[i] EXCEPT !.status = "queued", !.stale = 0,
                                   !.base = base, !.area = area])
    /\ UNCHANGED <<main, pc, job>>

\* request_preflight for a row that was queued again, with the version the
\* caller has just read.
Resume(c, l) ==
    /\ pc[c] = "idle"
    /\ queue[RowOf(l)].status = "queued"
    /\ pc' = [pc EXCEPT ![c] = "enqueued"]
    /\ job' = [job EXCEPT ![c] =
                 [NoJob EXCEPT !.lane = l, !.version = queue[RowOf(l)].version]]
    /\ UNCHANGED <<queue, main>>

\* Queued rows that are not yet marked for this head of main.
Outdated == {i \in DOMAIN queue :
               queue[i].status = "queued" /\ queue[i].stale # main}

\* note_main_advanced: queued rows are marked, the others left alone.
NoteMainAdvanced ==
    /\ Outdated # {}
    /\ Changes + Cardinality(Outdated) <= MaxChanges
    /\ queue' = [i \in DOMAIN queue |->
                   IF i \in Outdated
                   THEN Bump([queue[i] EXCEPT !.stale = main]) ELSE queue[i]]
    /\ UNCHANGED <<main, pc, job>>

\* Somebody commits to main.
MainAdvances ==
    /\ main < MaxMain
    /\ main' = main + 1
    /\ UNCHANGED <<queue, pc, job>>

Next ==
    \/ MainAdvances
    \/ NoteMainAdvanced
    \/ \E c \in Callers :
         \/ TakeSlot(c) \/ NoSlot(c) \/ Snapshot(c) \/ RunChecks(c)
         \/ WriteVerdict(c) \/ Abandon(c)
         \/ \E l \in Lanes, base \in 1..main, area \in Areas :
              Enqueue(c, l, base, area)
    \/ \E l \in {k \in Lanes : RowsOf(k) # {}} :
         \/ Confirm(l) \/ MarkMerged(l) \/ Abort(l)
         \/ \E base \in 1..main, area \in Areas : Requeue(l, base, area)
         \/ \E c \in Callers : Resume(c, l)

Spec == Init /\ [][Next]_vars

-----------------------------------------------------------------------------
\* Properties

\* Main is merged into by one lane at a time: at most one row is being checked
\* or merged, in whatever process, and a caller that checks without the lock is
\* no second one (the serial gate of request_preflight and request_merge).
SlotIsExclusive ==
    \A i, j \in DOMAIN queue :
        queue[i].status \in InSlot /\ queue[j].status \in InSlot => i = j

Statuses == Terminal \union InSlot \union {"queued", "ready_for_confirm"}

VerdictType == [row : Nat, base : Nat, area : Areas \union {None}, head : Nat]
RowType == [lane : Lanes, base : 1..main, area : Areas, status : Statuses,
            stale : 0..main, verdict : VerdictType, version : Nat \ {0}]
JobType == [lane : Lanes \union {None}, version : Nat, seen : VerdictType,
            others : SUBSET Areas, pass : BOOLEAN]

\* Every component has values of its type, a lane has one row that has not come
\* to its end, and a caller under way has a lane that has a row.
TypeOK ==
    /\ main \in 1..MaxMain
    /\ queue \in Seq(RowType)
    /\ \A i \in DOMAIN queue : queue[i].status \notin Terminal =>
          \A j \in RowsOf(queue[i].lane) : j <= i
    /\ pc \in [Callers -> {"idle", "enqueued", "staged", "checking", "checked"}]
    /\ job \in [Callers -> JobType]
    /\ \A c \in Callers : pc[c] # "idle" => RowsOf(job[c].lane) # {}

\* Rows that wait for the merge, or are being merged, with a verdict of their own.
Ready == {k \in DOMAIN queue :
             /\ queue[k].status \in {"ready_for_confirm", "merging"}
             /\ queue[k].verdict.row = k}

\* Lanes that passed checks of their own touch different paths, although each was
\* compared with a snapshot of the others that was old when its verdict was
\* written (check_paths_disjoint).
ReadyLanesAreDisjoint ==
    \A i, j \in Ready : queue[i].area = queue[j].area => i = j

\* A version is a promise about a row and about the others: as long as the row has
\* the version that the checks expect, it is the one of the snapshot, and every
\* lane that is ready by now was in that snapshot (run_preflight).
SnapshotsStillHold ==
    \A c \in Callers : pc[c] \in {"checking", "checked"} =>
        LET k == job[c].seen.row IN
        /\ k \in DOMAIN queue /\ job[c].version <= queue[k].version
        /\ job[c].version = queue[k].version =>
              /\ queue[k].status = "preflight"
              /\ queue[k].area = job[c].seen.area
              /\ \A j \in Ready \ {k} :
                    IF pc[c] = "checking" THEN queue[j].area \in job[c].others
                    ELSE job[c].pass => queue[j].area # queue[k].area

\* The queue is well formed, main is merged into by one lane at a time, and what
\* waits for the merge is compatible: the parts above together, which is the
\* invariant that every step preserves.
QueueIsSound ==
    /\ TypeOK
    /\ SlotIsExclusive
    /\ ReadyLanesAreDisjoint
    /\ SnapshotsStillHold

\* What a human has taken out of the queue, and what is merged, stays so: checks
\* of the row that were running meanwhile do not bring it back (only a verdict
\* made for an earlier row of the same lane does).
EndIsFinal ==
    [][\A i \in DOMAIN queue :
          /\ queue[i].status \in {"merged", "aborted"}
          /\ queue'[i].verdict.row \in {0, i}
          => queue'[i] = queue[i]]_queue
=============================================================================
