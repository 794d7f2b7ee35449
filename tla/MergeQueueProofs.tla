--------------------------- MODULE MergeQueueProofs ---------------------------
(***************************************************************************)
(* Theorems about MergeQueue, for any lanes, callers and areas.            *)
(***************************************************************************)
EXTENDS MergeQueue, SequenceTheorems, WellFoundedInduction, TLAPS

Less == {ss \in Nat \X Nat : ss[1] < ss[2]}

\* A set of natural numbers that is not empty has a least one.
LEMMA LeastExists ==
    ASSUME NEW T \in SUBSET Nat, T # {}
    PROVE  \E x \in T : \A y \in T : x <= y
<1>1. IsWellFoundedOn(Less, Nat)
  BY NatLessThanWellFounded DEF OpToRel, Less
<1>2. \A R, S : IsWellFoundedOn(R, S) =>
        \A U : U \subseteq S /\ U # {} =>
           \E x \in U : \A y \in U : ~ (<<y, x>> \in R)
  BY WFMin, Zenon
<1>3. PICK x \in T : \A y \in T : ~ (<<y, x>> \in Less)
  BY <1>1, <1>2
<1>4. ASSUME NEW y \in T PROVE x <= y
  <2>1. x \in Nat /\ y \in Nat OBVIOUS
  <2>2. y < x => <<y, x>> \in Less BY <2>1 DEF Less
  <2>3. ~ (y < x) BY <1>3, <2>2, Zenon
  <2> QED BY <2>1, <2>3
<1> QED BY <1>4

\* One that has a bound has a greatest one.
LEMMA GreatestExists ==
    ASSUME NEW n \in Nat, NEW T \in SUBSET (0..n), T # {}
    PROVE  \E x \in T : \A y \in T : y <= x
<1> DEFINE D == {n - y : y \in T}
<1>1. D \in SUBSET Nat /\ D # {}
  <2>1. PICK y \in T : TRUE OBVIOUS
  <2>2. n - y \in D BY <2>1
  <2>3. D \in SUBSET Nat OBVIOUS
  <2> QED BY <2>2, <2>3
<1>2. PICK d \in D : \A e \in D : d <= e
  <2> HIDE DEF D
  <2> QED BY <1>1, LeastExists
<1>3. PICK x \in T : d = n - x BY <1>2
<1>4. \A y \in T : y <= x
  <2>1. ASSUME NEW y \in T PROVE y <= x
    <3>1. n - y \in D OBVIOUS
    <3>2. d <= n - y BY <1>2, <3>1
    <3> QED BY <1>3, <3>2
  <2> QED BY <2>1
<1> QED BY <1>4

\* _find_index finds a row of the lane, and the last one.
LEMMA RowOfShape ==
    ASSUME TypeOK, NEW l, RowsOf(l) # {}
    PROVE  /\ RowOf(l) \in DOMAIN queue /\ queue[RowOf(l)].lane = l
           /\ \A j \in RowsOf(l) : j <= RowOf(l)
<1>1. Len(queue) \in Nat /\ DOMAIN queue = 1..Len(queue)
  BY LenProperties DEF TypeOK
<1>2. RowsOf(l) \in SUBSET (0..Len(queue)) BY <1>1 DEF RowsOf
<1>3. \E i \in RowsOf(l) : \A j \in RowsOf(l) : j <= i
  BY <1>1, <1>2, GreatestExists
<1>4. RowOf(l) \in RowsOf(l) /\ \A j \in RowsOf(l) : j <= RowOf(l)
  BY <1>3 DEF RowOf
<1> QED BY <1>4 DEF RowsOf

\* The queue is a sequence of rows.
LEMMA QueueShape ==
    ASSUME TypeOK
    PROVE  /\ Len(queue) \in Nat /\ DOMAIN queue = 1..Len(queue)
           /\ \A i \in DOMAIN queue : queue[i] \in RowType
BY LenProperties, ElementOfSeq DEF TypeOK

\* One row is rewritten: it becomes the entry, one version later.
LEMMA RewriteShape ==
    ASSUME TypeOK, NEW i \in DOMAIN queue, NEW entry \in RowType, Rewrite(i, entry)
    PROVE  /\ queue' \in Seq(RowType) /\ DOMAIN queue' = DOMAIN queue
           /\ \A j \in DOMAIN queue : j # i => queue'[j] = queue[j]
           /\ queue'[i] \in RowType
           /\ queue'[i].lane = entry.lane /\ queue'[i].base = entry.base
           /\ queue'[i].area = entry.area /\ queue'[i].status = entry.status
           /\ queue'[i].verdict = entry.verdict
           /\ queue'[i].version = entry.version + 1
<1>1. Bump(entry) = [entry EXCEPT !.version = entry.version + 1]
  BY DEF Bump
<1>2. /\ Bump(entry) \in RowType /\ Bump(entry).version = entry.version + 1
      /\ Bump(entry).lane = entry.lane /\ Bump(entry).base = entry.base
      /\ Bump(entry).area = entry.area /\ Bump(entry).status = entry.status
      /\ Bump(entry).verdict = entry.verdict
  BY <1>1 DEF RowType
<1>3. queue' = [queue EXCEPT ![i] = Bump(entry)] BY DEF Rewrite
<1>4. i \in 1..Len(queue) /\ queue \in Seq(RowType) BY QueueShape DEF TypeOK
<1>5. queue' \in Seq(RowType) /\ Len(queue') = Len(queue)
  BY <1>2, <1>3, <1>4, ExceptSeq
<1>6. queue'[i] = Bump(entry) /\ \A j \in DOMAIN queue : j # i => queue'[j] = queue[j]
  BY <1>3
<1> QED BY <1>2, <1>3, <1>5, <1>6

\* Types once some rows have changed, but not their lanes, and only last rows of
\* their lanes are under way.
LEMMA TypeAfterRows ==
    ASSUME TypeOK, queue' \in Seq(RowType'), main' \in 1..MaxMain,
           DOMAIN queue' = DOMAIN queue,
           \A i \in DOMAIN queue : queue'[i].lane = queue[i].lane,
           \A i \in DOMAIN queue :
              \/ queue'[i].status \in Terminal
              \/ queue[i].status \notin Terminal
              \/ \A j \in RowsOf(queue[i].lane) : j <= i,
           pc' \in [Callers -> {"idle", "enqueued", "staged", "checking", "checked"}],
           job' \in [Callers -> JobType],
           \A c \in Callers :
              \/ pc'[c] = "idle"
              \/ pc[c] # "idle" /\ job'[c].lane = job[c].lane
              \/ RowsOf(job'[c].lane) # {}
    PROVE  TypeOK'
<1>1. ASSUME NEW i \in DOMAIN queue', queue'[i].status \notin Terminal,
             NEW j \in DOMAIN queue', queue'[j].lane = queue'[i].lane
      PROVE  j <= i
  <2>1. j \in RowsOf(queue[i].lane) BY <1>1 DEF RowsOf
  <2> QED BY <1>1, <2>1 DEF TypeOK
<1>2. ASSUME NEW c \in Callers, pc'[c] # "idle"
      PROVE  \E j \in DOMAIN queue' : queue'[j].lane = job'[c].lane
  <2>1. RowsOf(job'[c].lane) # {} BY <1>2 DEF TypeOK
  <2> QED BY <2>1 DEF RowsOf
<1> QED BY <1>1, <1>2 DEF TypeOK, RowsOf

\* Rewriting the last row of a lane keeps all types.
LEMMA RewriteType ==
    ASSUME TypeOK, NEW l, RowsOf(l) # {}, NEW entry \in RowType,
           entry.lane = queue[RowOf(l)].lane, Rewrite(RowOf(l), entry), main' = main,
           pc' \in [Callers -> {"idle", "enqueued", "staged", "checking", "checked"}],
           job' \in [Callers -> JobType],
           \A c \in Callers :
              pc'[c] = "idle" \/ (pc[c] # "idle" /\ job'[c].lane = job[c].lane)
    PROVE  TypeOK'
<1> DEFINE i == RowOf(l)
<1>1. i \in DOMAIN queue /\ queue[i].lane = l /\ \A j \in RowsOf(l) : j <= i
  BY RowOfShape
<1> HIDE DEF i
<1>2. /\ queue' \in Seq(RowType) /\ DOMAIN queue' = DOMAIN queue
      /\ \A j \in DOMAIN queue : j # i => queue'[j] = queue[j]
      /\ queue'[i].lane = entry.lane
  BY <1>1, RewriteShape DEF i
<1>3. RowType' = RowType BY DEF RowType, VerdictType
<1>4. \A j \in DOMAIN queue : queue'[j].lane = queue[j].lane BY <1>2 DEF i
<1>5. \A j \in DOMAIN queue :
         \/ queue'[j].status \in Terminal \/ queue[j].status \notin Terminal
         \/ \A n \in RowsOf(queue[j].lane) : n <= j
  <2>1. ASSUME NEW j \in DOMAIN queue
        PROVE  \/ queue'[j].status \in Terminal \/ queue[j].status \notin Terminal
               \/ \A n \in RowsOf(queue[j].lane) : n <= j
    <3>1. CASE j = i BY <3>1, <1>1
    <3>2. CASE j # i BY <3>2, <1>2
    <3> QED BY <3>1, <3>2
  <2> QED BY <2>1
<1>6. main' \in 1..MaxMain BY DEF TypeOK
<1> QED BY <1>2, <1>3, <1>4, <1>5, <1>6, TypeAfterRows

\* A caller that gives up is idle again, the others are where they were.
LEMMA GiveUpShape ==
    ASSUME TypeOK, NEW c \in Callers, GiveUp(c)
    PROVE  /\ pc' \in [Callers -> {"idle", "enqueued", "staged", "checking", "checked"}]
           /\ job' \in [Callers -> JobType] /\ pc'[c] = "idle"
           /\ \A d \in Callers : d # c => pc'[d] = pc[d] /\ job'[d] = job[d]
<1>1. NoJob \in JobType BY DEF NoJob, NoVerdict, JobType, VerdictType
<1> QED BY <1>1 DEF GiveUp, TypeOK

LEMMA EnqueueType ==
    ASSUME TypeOK, NEW c \in Callers, NEW l \in Lanes, NEW base \in 1..main,
           NEW area \in Areas, Enqueue(c, l, base, area)
    PROVE  /\ TypeOK' /\ DOMAIN queue' = DOMAIN queue \union {Len(queue) + 1}
           /\ \A i \in DOMAIN queue : queue'[i] = queue[i]
           /\ queue'[Len(queue) + 1] = Entry(l, base, area)
<1> DEFINE n == Len(queue) + 1
<1>1. Entry(l, base, area) \in RowType
  BY BoundAssumption DEF Entry, RowType, NoVerdict, VerdictType, Statuses, TypeOK
<1>2. /\ queue' \in Seq(RowType) /\ Len(queue') = n
      /\ \A i \in 1..Len(queue) : queue'[i] = queue[i]
      /\ queue'[n] = Entry(l, base, area)
  BY <1>1, AppendProperties DEF Enqueue, TypeOK
<1>3. /\ DOMAIN queue = 1..Len(queue) /\ Len(queue) \in Nat
      /\ DOMAIN queue' = 1..Len(queue')
  BY <1>2, QueueShape, LenProperties
<1>4. DOMAIN queue' = DOMAIN queue \union {n} BY <1>2, <1>3
<1>5. ASSUME NEW i \in DOMAIN queue', queue'[i].status \notin Terminal,
             NEW j \in DOMAIN queue', queue'[j].lane = queue'[i].lane
      PROVE  j <= i
  <2>1. CASE i = n
    <3>1. n \in Nat BY <1>3
    <3> HIDE DEF n
    <3>2. j \in 1..n BY <1>2, <1>3
    <3> QED BY <2>1, <3>1, <3>2
  <2>2. CASE i # n /\ j = n
    <3>1. queue[i].lane = l /\ i \in DOMAIN queue /\ queue[i].status \notin Terminal
      BY <1>2, <1>3, <1>4, <1>5, <2>2 DEF Entry
    <3> QED BY <3>1 DEF Enqueue, RowsOf
  <2>3. CASE i # n /\ j # n
    <3>1. i \in DOMAIN queue /\ j \in RowsOf(queue[i].lane)
          /\ queue[i].status \notin Terminal
      BY <1>2, <1>3, <1>4, <1>5, <2>3 DEF RowsOf
    <3> QED BY <3>1 DEF TypeOK
  <2> QED BY <2>1, <2>2, <2>3
<1>6. ASSUME NEW d \in Callers, pc'[d] # "idle"
      PROVE  \E j \in DOMAIN queue' : queue'[j].lane = job'[d].lane
  <2>1. CASE d = c
    <3>1. job'[d].lane = l BY <2>1 DEF Enqueue, TypeOK, NoJob
    <3> QED BY <3>1, <1>2, <1>4 DEF Entry
  <2>2. CASE d # c
    <3>1. pc[d] # "idle" /\ job'[d] = job[d] BY <1>6, <2>2 DEF Enqueue, TypeOK
    <3>2. PICK j \in DOMAIN queue : queue[j].lane = job[d].lane
      BY <3>1 DEF TypeOK, RowsOf
    <3> QED BY <3>1, <3>2, <1>2, <1>3, <1>4
  <2> QED BY <2>1, <2>2
<1>7. pc' \in [Callers -> {"idle", "enqueued", "staged", "checking", "checked"}]
  BY DEF Enqueue, TypeOK
<1>8. job' \in [Callers -> JobType]
  <2>1. [NoJob EXCEPT !.lane = l, !.version = 1] \in JobType
    BY DEF NoJob, NoVerdict, JobType, VerdictType
  <2> QED BY <2>1 DEF Enqueue, TypeOK
<1>9. main' = main BY DEF Enqueue
<1>10. RowType' = RowType BY <1>9 DEF RowType, VerdictType
<1>11. TypeOK'
  BY <1>2, <1>5, <1>6, <1>7, <1>8, <1>9, <1>10 DEF TypeOK, RowsOf
<1> QED BY <1>2, <1>3, <1>4, <1>11

-----------------------------------------------------------------------------
\* The slot, the snapshots and what is ready

\* Every caller that checks has its job from before.
NoNewChecks ==
    \A c \in Callers : pc'[c] \in {"checking", "checked"} =>
        pc'[c] = pc[c] /\ job'[c] = job[c]

\* A row that changes gets a new version, and with it the snapshots that were taken
\* of it are void; the other snapshots hold as long as nothing new is ready.
LEMMA RowsChange ==
    ASSUME QueueIsSound, TypeOK', SlotIsExclusive', NoNewChecks,
           DOMAIN queue \subseteq DOMAIN queue',
           \A i \in DOMAIN queue :
              queue'[i] = queue[i] \/ queue'[i].version > queue[i].version,
           Ready' \subseteq Ready,
           \A i \in Ready' : queue'[i].area = queue[i].area
    PROVE  QueueIsSound'
<1>1. ReadyLanesAreDisjoint'
  BY DEF QueueIsSound, ReadyLanesAreDisjoint
<1>2. ASSUME NEW c \in Callers, pc'[c] \in {"checking", "checked"},
             NEW k, k = job'[c].seen.row
      PROVE  /\ k \in DOMAIN queue' /\ job'[c].version <= queue'[k].version
             /\ job'[c].version = queue'[k].version =>
                   /\ queue'[k].status = "preflight"
                   /\ queue'[k].area = job'[c].seen.area
                   /\ \A j \in Ready' \ {k} :
                         IF pc'[c] = "checking" THEN queue'[j].area \in job'[c].others
                         ELSE job'[c].pass => queue'[j].area # queue'[k].area
  <2>1. /\ pc'[c] = pc[c] /\ job'[c] = job[c] /\ k = job[c].seen.row
        /\ pc[c] \in {"checking", "checked"}
    BY <1>2 DEF NoNewChecks
  <2>2. /\ k \in DOMAIN queue /\ job[c].version <= queue[k].version
        /\ job[c].version = queue[k].version =>
              /\ queue[k].status = "preflight"
              /\ queue[k].area = job[c].seen.area
              /\ \A j \in Ready \ {k} :
                    IF pc[c] = "checking" THEN queue[j].area \in job[c].others
                    ELSE job[c].pass => queue[j].area # queue[k].area
    BY <2>1 DEF QueueIsSound, SnapshotsStillHold
  <2>3. job[c].version \in Nat /\ queue[k].version \in Nat /\ queue'[k].version \in Nat
    <3>1. queue[k] \in RowType BY <2>2, QueueShape DEF QueueIsSound
    <3>2. queue'[k] \in RowType'
      <4>1. queue' \in Seq(RowType') BY DEF TypeOK
      <4>2. k \in 1..Len(queue') BY <4>1, <2>2, LenProperties
      <4> QED BY <4>1, <4>2, ElementOfSeq
    <3>3. job[c] \in JobType BY DEF QueueIsSound, TypeOK
    <3> QED BY <3>1, <3>2, <3>3 DEF RowType, JobType
  <2>4. CASE queue'[k] = queue[k] BY <2>1, <2>2, <2>4
  <2>5. CASE queue'[k].version > queue[k].version BY <2>1, <2>2, <2>3, <2>5
  <2> QED BY <2>2, <2>4, <2>5
<1>3. SnapshotsStillHold'
  BY <1>2 DEF SnapshotsStillHold
<1> QED BY <1>1, <1>3 DEF QueueIsSound

\* The same when one row is rewritten: it enters the slot only when that is free,
\* and becomes ready only if it was.
LEMMA RewriteSound ==
    ASSUME QueueIsSound, NEW l, RowsOf(l) # {}, NEW entry \in RowType,
           entry.lane = queue[RowOf(l)].lane,
           entry.version = queue[RowOf(l)].version,
           Rewrite(RowOf(l), entry), main' = main,
           pc' \in [Callers -> {"idle", "enqueued", "staged", "checking", "checked"}],
           job' \in [Callers -> JobType], NoNewChecks,
           \A c \in Callers :
              pc'[c] = "idle" \/ (pc[c] # "idle" /\ job'[c].lane = job[c].lane),
           entry.status \in InSlot => SlotFree \/ queue[RowOf(l)].status \in InSlot,
           \/ entry.status \notin {"ready_for_confirm", "merging"}
           \/ entry.verdict.row # RowOf(l)
           \/ /\ queue[RowOf(l)].status \in {"ready_for_confirm", "merging"}
              /\ entry.area = queue[RowOf(l)].area
              /\ entry.verdict = queue[RowOf(l)].verdict
    PROVE  QueueIsSound'
<1> DEFINE i == RowOf(l)
<1>1. i \in DOMAIN queue /\ TypeOK BY RowOfShape DEF QueueIsSound
<1>2. /\ DOMAIN queue' = DOMAIN queue
      /\ \A j \in DOMAIN queue : j # i => queue'[j] = queue[j]
      /\ queue'[i].area = entry.area /\ queue'[i].status = entry.status
      /\ queue'[i].verdict = entry.verdict
      /\ queue'[i].version = entry.version + 1
  BY <1>1, RewriteShape
<1>3. TypeOK' BY <1>1, RewriteType
<1>4. entry.version \in Nat BY DEF RowType
<1> HIDE DEF i
<1>5. SlotIsExclusive'
  <2>1. entry.status \in InSlot => SlotFree \/ queue[i].status \in InSlot BY DEF i
  <2> QED BY <1>1, <1>2, <2>1 DEF SlotIsExclusive, SlotFree, QueueIsSound
<1>6. \A j \in DOMAIN queue :
         queue'[j] = queue[j] \/ queue'[j].version > queue[j].version
  BY <1>2, <1>4 DEF i
<1>7. Ready' \subseteq Ready /\ \A j \in Ready' : queue'[j].area = queue[j].area
  BY <1>1, <1>2 DEF Ready, i
<1> QED BY <1>2, <1>3, <1>5, <1>6, <1>7, RowsChange

\* The rows that the operations write.
LEMMA EntryShape ==
    ASSUME NEW e \in RowType, NEW status \in Statuses
    PROVE  /\ LET f == [e EXCEPT !.status = status] IN
              /\ f \in RowType /\ f.lane = e.lane /\ f.area = e.area
              /\ f.status = status /\ f.verdict = e.verdict /\ f.version = e.version
           /\ \A verdict \in VerdictType :
                LET f == [e EXCEPT !.verdict = verdict, !.status = status] IN
                /\ f \in RowType /\ f.lane = e.lane /\ f.area = e.area
                /\ f.status = status /\ f.verdict = verdict /\ f.version = e.version
BY DEF RowType

LEMMA RequeuedShape ==
    ASSUME NEW e \in RowType, NEW status \in Statuses, NEW stale \in 0..main,
           NEW base \in 1..main, NEW area \in Areas
    PROVE  LET f == [e EXCEPT !.status = status, !.stale = stale,
                              !.base = base, !.area = area] IN
           /\ f \in RowType /\ f.lane = e.lane /\ f.status = status
           /\ f.version = e.version
BY DEF RowType

LEMMA TakeSlotSound ==
    ASSUME QueueIsSound, NEW c \in Callers, TakeSlot(c)
    PROVE  QueueIsSound'
<1> DEFINE l == job[c].lane
           e == queue[RowOf(l)]
           entry == [e EXCEPT !.status = "preflight"]
           new == [job[c] EXCEPT !.version = @ + 1]
<1>1. TypeOK /\ RowsOf(l) # {} BY DEF QueueIsSound, TypeOK, TakeSlot
<1>2. e \in RowType BY <1>1, RowOfShape, QueueShape
<1>3. Rewrite(RowOf(l), entry) /\ SlotFree /\ main' = main BY DEF TakeSlot
<1>4. /\ entry \in RowType /\ entry.lane = e.lane
      /\ entry.version = e.version /\ entry.status = "preflight"
  <2> HIDE DEF e
  <2>1. "preflight" \in Statuses BY DEF Statuses, InSlot
  <2> QED BY <1>2, <2>1, EntryShape
<1>5. new \in JobType /\ new.lane = job[c].lane
  <2>1. job[c] \in JobType BY <1>1 DEF TypeOK
  <2> QED BY <2>1 DEF JobType
<1>6. job' = [job EXCEPT ![c] = new] BY DEF TakeSlot
<1> HIDE DEF entry, new
<1>7. /\ pc' \in [Callers -> {"idle", "enqueued", "staged", "checking", "checked"}]
      /\ job' \in [Callers -> JobType]
      /\ \A d \in Callers : job'[d].lane = job[d].lane
      /\ \A d \in Callers : d # c => pc'[d] = pc[d] /\ job'[d] = job[d]
      /\ pc[c] = "enqueued" /\ pc'[c] = "staged"
  BY <1>1, <1>5, <1>6 DEF TakeSlot, TypeOK
<1>8. NoNewChecks BY <1>7 DEF NoNewChecks
<1>9. entry.status \notin {"ready_for_confirm", "merging"} BY <1>4
<1>10. \A d \in Callers :
         pc'[d] = "idle" \/ (pc[d] # "idle" /\ job'[d].lane = job[d].lane)
  BY <1>7
<1> HIDE DEF l
<1> QED BY <1>1, <1>3, <1>4, <1>7, <1>8, <1>9, <1>10, RewriteSound DEF e

\* A step of the caller alone.
LEMMA NoRowChanges ==
    ASSUME QueueIsSound, UNCHANGED <<queue, main>>, NoNewChecks,
           pc' \in [Callers -> {"idle", "enqueued", "staged", "checking", "checked"}],
           job' \in [Callers -> JobType],
           \A c \in Callers :
              \/ pc'[c] = "idle"
              \/ pc[c] # "idle" /\ job'[c].lane = job[c].lane
              \/ RowsOf(job'[c].lane) # {}
    PROVE  QueueIsSound'
<1>1. TypeOK /\ SlotIsExclusive BY DEF QueueIsSound
<1>2. RowType' = RowType BY DEF RowType, VerdictType
<1>3. main' \in 1..MaxMain /\ queue' \in Seq(RowType')
  BY <1>1, <1>2 DEF TypeOK
<1>4. TypeOK'
  <2>1. \A i \in DOMAIN queue :
           \/ queue'[i].status \in Terminal \/ queue[i].status \notin Terminal
    OBVIOUS
  <2> QED BY <1>1, <1>3, <2>1, TypeAfterRows
<1>5. SlotIsExclusive' BY <1>1 DEF SlotIsExclusive
<1>6. Ready' = Ready BY DEF Ready
<1> QED BY <1>4, <1>5, <1>6, RowsChange

LEMMA GivingUpSound ==
    ASSUME QueueIsSound, NEW c \in Callers, GiveUp(c), UNCHANGED <<queue, main>>
    PROVE  QueueIsSound'
<1>1. TypeOK BY DEF QueueIsSound
<1>2. NoNewChecks BY <1>1, GiveUpShape DEF NoNewChecks
<1>3. \A d \in Callers :
        pc'[d] = "idle" \/ (pc[d] # "idle" /\ job'[d].lane = job[d].lane)
  BY <1>1, GiveUpShape
<1> QED BY <1>1, <1>2, <1>3, GiveUpShape, NoRowChanges

LEMMA ResumeSound ==
    ASSUME QueueIsSound, NEW c \in Callers, NEW l \in Lanes, RowsOf(l) # {},
           Resume(c, l)
    PROVE  QueueIsSound'
<1> DEFINE new == [NoJob EXCEPT !.lane = l, !.version = queue[RowOf(l)].version]
<1>1. TypeOK BY DEF QueueIsSound
<1>2. queue[RowOf(l)].version \in Nat BY <1>1, RowOfShape, QueueShape DEF RowType
<1>3. new \in JobType /\ new.lane = l
  BY <1>2 DEF NoJob, NoVerdict, JobType, VerdictType
<1>4. job' = [job EXCEPT ![c] = new] /\ pc' = [pc EXCEPT ![c] = "enqueued"]
  BY DEF Resume
<1> HIDE DEF new
<1>5. /\ pc' \in [Callers -> {"idle", "enqueued", "staged", "checking", "checked"}]
      /\ job' \in [Callers -> JobType] /\ NoNewChecks
      /\ job'[c].lane = l /\ \A d \in Callers : d # c => pc'[d] = pc[d] /\ job'[d] = job[d]
  BY <1>1, <1>3, <1>4 DEF TypeOK, NoNewChecks
<1>6. \A d \in Callers : \/ pc'[d] = "idle"
                         \/ pc[d] # "idle" /\ job'[d].lane = job[d].lane
                         \/ RowsOf(job'[d].lane) # {}
  BY <1>5
<1>7. UNCHANGED <<queue, main>> BY DEF Resume
<1> QED BY <1>5, <1>6, <1>7, NoRowChanges

LEMMA EnqueueSound ==
    ASSUME QueueIsSound, NEW c \in Callers, NEW l \in Lanes, NEW base \in 1..main,
           NEW area \in Areas, Enqueue(c, l, base, area)
    PROVE  QueueIsSound'
<1> DEFINE n == Len(queue) + 1
<1>1. TypeOK BY DEF QueueIsSound
<1>2. /\ TypeOK' /\ DOMAIN queue' = DOMAIN queue \union {n}
      /\ \A i \in DOMAIN queue : queue'[i] = queue[i]
      /\ queue'[n].status = "queued"
  <2>1. Entry(l, base, area).status = "queued" BY DEF Entry
  <2> QED BY <1>1, <2>1, EnqueueType
<1> HIDE DEF n
<1>3. SlotIsExclusive'
  BY <1>2 DEF SlotIsExclusive, QueueIsSound, InSlot
<1>4. Ready' \subseteq Ready /\ \A i \in Ready' : queue'[i].area = queue[i].area
  BY <1>2 DEF Ready
<1>5. NoNewChecks BY <1>1 DEF NoNewChecks, Enqueue, TypeOK
<1> QED BY <1>2, <1>3, <1>4, <1>5, RowsChange

\* confirm, mark_merged, abort and requeue.
LEMMA LaneStepSound ==
    ASSUME QueueIsSound, NEW l \in Lanes, RowsOf(l) # {},
           \/ Confirm(l) \/ MarkMerged(l) \/ Abort(l)
           \/ \E base \in 1..main, area \in Areas : Requeue(l, base, area)
    PROVE  QueueIsSound'
<1> DEFINE e == queue[RowOf(l)]
<1>1. TypeOK BY DEF QueueIsSound
<1>0. e \in RowType BY <1>1, RowOfShape, QueueShape
<1>2. UNCHANGED <<main, pc, job>> BY DEF Confirm, MarkMerged, Abort, Requeue
<1>3. /\ pc' \in [Callers -> {"idle", "enqueued", "staged", "checking", "checked"}]
      /\ job' \in [Callers -> JobType] /\ NoNewChecks
      /\ \A c \in Callers :
           pc'[c] = "idle" \/ (pc[c] # "idle" /\ job'[c].lane = job[c].lane)
  BY <1>1, <1>2 DEF TypeOK, NoNewChecks
<1>4. ASSUME NEW status \in {"merging", "merged", "aborted"},
             Rewrite(RowOf(l), [e EXCEPT !.status = status]),
             status = "merging" => SlotFree /\ e.status = "ready_for_confirm"
      PROVE  QueueIsSound'
  <2> DEFINE entry == [e EXCEPT !.status = status]
  <2>1. /\ entry \in RowType /\ entry.lane = e.lane /\ entry.version = e.version
        /\ entry.status = status /\ entry.area = e.area /\ entry.verdict = e.verdict
    <3>1. status \in Statuses BY DEF Statuses, Terminal, InSlot
    <3> HIDE DEF e
    <3> QED BY <1>0, <3>1 DEF RowType
  <2>2. status \in InSlot => SlotFree BY <1>4 DEF InSlot
  <2>3. Rewrite(RowOf(l), entry) BY <1>4
  <2> HIDE DEF entry
  <2> QED BY <1>2, <1>3, <1>4, <2>1, <2>2, <2>3, RewriteSound DEF e
<1>5. ASSUME NEW base \in 1..main, NEW area \in Areas, Requeue(l, base, area)
      PROVE  QueueIsSound'
  <2> DEFINE entry == [e EXCEPT !.status = "queued", !.stale = 0,
                                !.base = base, !.area = area]
  <2>1. /\ entry \in RowType /\ entry.lane = e.lane /\ entry.version = e.version
        /\ entry.status = "queued"
    <3>1. 0 \in 0..main /\ "queued" \in Statuses BY <1>1 DEF TypeOK, Statuses
    <3> HIDE DEF e
    <3>2. PICK status \in Statuses, stale \in 0..main :
            status = "queued" /\ stale = 0
      BY <3>1
    <3>3. entry = [e EXCEPT !.status = status, !.stale = stale,
                            !.base = base, !.area = area]
      BY <3>2
    <3> HIDE DEF entry
    <3> QED BY <1>0, <3>2, <3>3 DEF RowType
  <2>2. Rewrite(RowOf(l), entry) BY <1>5 DEF Requeue
  <2>3. "queued" \notin InSlot BY DEF InSlot
  <2> HIDE DEF entry
  <2> QED BY <1>2, <1>3, <2>1, <2>2, <2>3, RewriteSound DEF e
<1> QED BY <1>4, <1>5 DEF Confirm, MarkMerged, Abort

\* note_main_advanced writes rows that wait for the slot, and leaves them waiting.
LEMMA NoteMainAdvancedSound ==
    ASSUME QueueIsSound, NoteMainAdvanced
    PROVE  QueueIsSound'
<1> DEFINE new(i) == IF i \in Outdated
                     THEN Bump([queue[i] EXCEPT !.stale = main]) ELSE queue[i]
<1>1. TypeOK /\ SlotIsExclusive BY DEF QueueIsSound
<1>2. main \in 1..MaxMain /\ main \in 0..main BY <1>1, BoundAssumption DEF TypeOK
<1>3. /\ UNCHANGED <<main, pc, job>>
      /\ queue' = [i \in DOMAIN queue |-> new(i)]
  BY DEF NoteMainAdvanced
<1>4. RowType' = RowType BY <1>3 DEF RowType, VerdictType
<1>5. ASSUME NEW i \in DOMAIN queue
      PROVE  /\ new(i) \in RowType /\ new(i).lane = queue[i].lane
             /\ new(i).status = queue[i].status /\ new(i).area = queue[i].area
             /\ new(i).verdict = queue[i].verdict
             /\ new(i) = queue[i] \/ new(i).version > queue[i].version
  <2>1. queue[i] \in RowType BY <1>1, QueueShape
  <2>2. CASE i \in Outdated
    <3> DEFINE f == [queue[i] EXCEPT !.stale = main]
    <3>1. /\ f \in RowType /\ f.lane = queue[i].lane /\ f.status = queue[i].status
          /\ f.area = queue[i].area /\ f.verdict = queue[i].verdict
          /\ f.version = queue[i].version
      BY <2>1, <1>2 DEF RowType
    <3> HIDE DEF f
    <3>2. new(i) = [f EXCEPT !.version = f.version + 1] BY <2>2 DEF f, Bump
    <3> QED BY <3>1, <3>2 DEF RowType
  <2>3. CASE i \notin Outdated BY <2>1, <2>3
  <2> QED BY <2>2, <2>3
<1> HIDE DEF new
<1>6. queue' \in Seq(RowType) /\ DOMAIN queue' = DOMAIN queue
  <2>1. DOMAIN queue = 1..Len(queue) /\ Len(queue) \in Nat BY <1>1, QueueShape
  <2>2. queue' \in [1..Len(queue) -> RowType] BY <1>3, <1>5, <2>1
  <2> QED BY <1>3, <2>1, <2>2, SeqDef
<1>7. \A i \in DOMAIN queue : queue'[i] = new(i) BY <1>3
<1>8. TypeOK'
  <2>1. \A i \in DOMAIN queue : queue'[i].lane = queue[i].lane BY <1>5, <1>7
  <2>2. \A i \in DOMAIN queue :
           \/ queue'[i].status \in Terminal \/ queue[i].status \notin Terminal
           \/ \A j \in RowsOf(queue[i].lane) : j <= i
    <3>1. ASSUME NEW i \in DOMAIN queue
          PROVE  \/ queue[i].status \notin Terminal
                 \/ queue'[i].status \in Terminal
      BY <1>5, <1>7
    <3>2. \A i \in DOMAIN queue : queue[i].status \notin Terminal =>
            \A j \in RowsOf(queue[i].lane) : j <= i
      BY <1>1 DEF TypeOK
    <3> QED BY <3>1, <3>2, Zenon
  <2>3. \A c \in Callers :
           pc'[c] = "idle" \/ (pc[c] # "idle" /\ job'[c].lane = job[c].lane)
    BY <1>3
  <2>4. /\ queue' \in Seq(RowType') /\ main' \in 1..MaxMain
        /\ pc' \in [Callers -> {"idle", "enqueued", "staged", "checking", "checked"}]
        /\ job' \in [Callers -> JobType]
    BY <1>1, <1>3, <1>4, <1>6 DEF TypeOK
  <2> QED BY <1>1, <1>6, <2>1, <2>2, <2>3, <2>4, TypeAfterRows
<1>9. SlotIsExclusive' BY <1>1, <1>5, <1>6, <1>7 DEF SlotIsExclusive
<1>10. Ready' \subseteq Ready /\ \A i \in Ready' : queue'[i].area = queue[i].area
  BY <1>5, <1>6, <1>7 DEF Ready
<1>11. \A i \in DOMAIN queue :
          queue'[i] = queue[i] \/ queue'[i].version > queue[i].version
  BY <1>5, <1>7
<1>12. NoNewChecks BY <1>3 DEF NoNewChecks
<1> QED BY <1>6, <1>8, <1>9, <1>10, <1>11, <1>12, RowsChange

LEMMA MainAdvancesSound ==
    ASSUME QueueIsSound, MainAdvances
    PROVE  QueueIsSound'
<1>1. TypeOK /\ SlotIsExclusive BY DEF QueueIsSound
<1>2. main \in Nat /\ main' = main + 1 /\ main' \in 1..MaxMain
  BY <1>1, BoundAssumption DEF TypeOK, MainAdvances
<1>3. UNCHANGED <<queue, pc, job>> BY DEF MainAdvances
<1>4. queue' \in Seq(RowType')
  <2>1. 1..main \subseteq 1..main' /\ 0..main \subseteq 0..main' BY <1>2
  <2>2. \A e \in RowType : e \in RowType' BY <2>1 DEF RowType, VerdictType
  <2> QED BY <1>1, <1>3, <2>2, SeqMonotonic DEF TypeOK
<1>5. TypeOK'
  <2>1. /\ pc' \in [Callers -> {"idle", "enqueued", "staged", "checking", "checked"}]
        /\ job' \in [Callers -> JobType]
        /\ \A c \in Callers : pc'[c] # "idle" =>
              pc[c] # "idle" /\ job'[c].lane = job[c].lane
    BY <1>1, <1>3 DEF TypeOK
  <2>2. \A i \in DOMAIN queue :
           queue'[i].status \in Terminal \/ queue[i].status \notin Terminal
    BY <1>3
  <2> QED BY <1>1, <1>2, <1>3, <1>4, <2>1, <2>2, TypeAfterRows
<1>6. SlotIsExclusive' BY <1>1, <1>3 DEF SlotIsExclusive
<1>7. Ready' = Ready BY <1>3 DEF Ready
<1>8. NoNewChecks BY <1>3 DEF NoNewChecks
<1> QED BY <1>3, <1>5, <1>6, <1>7, <1>8, RowsChange

\* A step of one caller that leaves the queue alone: what is to be shown is that
\* its own snapshot holds.
LEMMA OwnSnapshot ==
    ASSUME QueueIsSound, NEW c \in Callers, UNCHANGED <<queue, main>>,
           NEW at \in {"checking", "checked"}, pc' = [pc EXCEPT ![c] = at],
           NEW new \in JobType, job' = [job EXCEPT ![c] = new],
           pc[c] # "idle", new.lane = job[c].lane,
           LET k == new.seen.row IN
             /\ k \in DOMAIN queue /\ new.version <= queue[k].version
             /\ new.version = queue[k].version =>
                  /\ queue[k].status = "preflight"
                  /\ queue[k].area = new.seen.area
                  /\ \A j \in Ready \ {k} :
                        IF at = "checking" THEN queue[j].area \in new.others
                        ELSE new.pass => queue[j].area # queue[k].area
    PROVE  QueueIsSound'
<1>1. TypeOK /\ SlotIsExclusive /\ ReadyLanesAreDisjoint /\ SnapshotsStillHold
  BY DEF QueueIsSound
<1>2. /\ pc' \in [Callers -> {"idle", "enqueued", "staged", "checking", "checked"}]
      /\ job' \in [Callers -> JobType] /\ pc'[c] = at /\ job'[c] = new
      /\ \A d \in Callers : d # c => pc'[d] = pc[d] /\ job'[d] = job[d]
  BY <1>1 DEF TypeOK
<1>3. TypeOK'
  <2>1. RowType' = RowType BY DEF RowType, VerdictType
  <2>2. queue' \in Seq(RowType') /\ main' \in 1..MaxMain BY <1>1, <2>1 DEF TypeOK
  <2>3. \A d \in Callers :
          pc'[d] = "idle" \/ (pc[d] # "idle" /\ job'[d].lane = job[d].lane)
    BY <1>2
  <2>4. \A i \in DOMAIN queue :
           queue'[i].status \in Terminal \/ queue[i].status \notin Terminal
    OBVIOUS
  <2> QED BY <1>1, <1>2, <2>2, <2>3, <2>4, TypeAfterRows
<1>4. SlotIsExclusive' /\ Ready' = Ready BY <1>1 DEF SlotIsExclusive, Ready
<1>5. ReadyLanesAreDisjoint' BY <1>1, <1>4 DEF ReadyLanesAreDisjoint
<1>6. SnapshotsStillHold'
  BY <1>1, <1>2, <1>4 DEF SnapshotsStillHold
<1> QED BY <1>3, <1>4, <1>5, <1>6 DEF QueueIsSound

LEMMA SnapshotSound ==
    ASSUME QueueIsSound, NEW c \in Callers, Snapshot(c)
    PROVE  QueueIsSound'
<1> DEFINE i == RowOf(job[c].lane)
           seen == [row |-> i, base |-> queue[i].base, area |-> queue[i].area,
                    head |-> 0]
           others == {queue[j].area :
                        j \in {k \in DOMAIN queue \ {i} : InFlight(queue[k])}}
           new == [job[c] EXCEPT !.seen = seen, !.others = others]
<1>1. TypeOK BY DEF QueueIsSound
<1>2. /\ RowsOf(job[c].lane) # {} /\ pc[c] # "idle" /\ queue[i].status = "preflight"
      /\ queue[i].version = job[c].version
  BY <1>1 DEF Snapshot, IsExpected, TypeOK
<1>3. i \in DOMAIN queue /\ i \in Nat
  BY <1>1, <1>2, RowOfShape, QueueShape
<1>4. UNCHANGED <<queue, main>> /\ pc' = [pc EXCEPT ![c] = "checking"]
      /\ job' = [job EXCEPT ![c] = new]
  BY DEF Snapshot
<1> HIDE DEF i
<1>5. queue[i] \in RowType /\ \A j \in DOMAIN queue : queue[j].area \in Areas
  BY <1>1, <1>3, QueueShape DEF RowType
<1>6. seen \in VerdictType /\ seen.row = i /\ seen.area = queue[i].area
  BY <1>3, <1>5 DEF RowType, VerdictType
<1>7. others \in SUBSET Areas BY <1>5
<1>8. \A j \in Ready \ {i} : queue[j].area \in others
  BY DEF Ready, InFlight, Terminal
<1> HIDE DEF seen, others
<1>9. /\ new \in JobType /\ new.lane = job[c].lane /\ new.seen = seen
      /\ new.others = others /\ new.version = job[c].version
  <2>1. job[c] \in JobType BY <1>1 DEF TypeOK
  <2> QED BY <2>1, <1>6, <1>7 DEF JobType
<1> HIDE DEF new
<1>10. /\ new.seen.row = i /\ new.version = queue[i].version /\ new.version \in Nat
       /\ queue[i].area = new.seen.area
  BY <1>2, <1>5, <1>6, <1>9 DEF RowType
<1>11. new \in JobType /\ new.lane = job[c].lane /\ pc[c] # "idle" BY <1>2, <1>9
<1>12. LET k == new.seen.row IN
         /\ k \in DOMAIN queue /\ new.version <= queue[k].version
         /\ queue[k].status = "preflight" /\ queue[k].area = new.seen.area
         /\ \A j \in Ready \ {k} : queue[j].area \in new.others
  BY <1>2, <1>3, <1>8, <1>9, <1>10
<1> QED BY <1>4, <1>11, <1>12, OwnSnapshot

LEMMA RunChecksSound ==
    ASSUME QueueIsSound, NEW c \in Callers, RunChecks(c)
    PROVE  QueueIsSound'
<1>1. PICK clean \in BOOLEAN, verified \in BOOLEAN :
        job' = [job EXCEPT ![c].seen.head = main, ![c].others = {},
                  ![c].pass = /\ clean /\ verified
                              /\ check_base_main_current(c)
                              /\ check_paths_disjoint(c)]
  BY DEF RunChecks, check_merge_tree_clean, check_verify_covers_base
<1> DEFINE passes == /\ clean /\ verified
                     /\ check_base_main_current(c) /\ check_paths_disjoint(c)
           seen == [job[c].seen EXCEPT !.head = main]
           new == [job[c] EXCEPT !.seen = seen, !.others = {}, !.pass = passes]
           k == job[c].seen.row
<1>2. TypeOK /\ SnapshotsStillHold BY DEF QueueIsSound
<1>3. /\ UNCHANGED <<queue, main>> /\ pc' = [pc EXCEPT ![c] = "checked"]
      /\ pc[c] = "checking"
  BY DEF RunChecks
<1>4. job' = [job EXCEPT ![c] = new] BY <1>1
<1>5. job[c] \in JobType /\ main \in Nat BY <1>2 DEF TypeOK
<1>6. /\ seen \in VerdictType /\ seen.row = k /\ seen.area = job[c].seen.area
  BY <1>5 DEF JobType, VerdictType
<1>7. passes \in BOOLEAN /\ (passes => job[c].seen.area \notin job[c].others)
  BY DEF check_base_main_current, check_paths_disjoint
<1> HIDE DEF seen, passes
<1>8. /\ new \in JobType /\ new.lane = job[c].lane /\ new.seen = seen
      /\ new.pass = passes /\ new.version = job[c].version
  BY <1>5, <1>6, <1>7 DEF JobType
<1> HIDE DEF new
<1>9. /\ k \in DOMAIN queue /\ job[c].version <= queue[k].version
      /\ job[c].version = queue[k].version =>
           /\ queue[k].status = "preflight"
           /\ queue[k].area = job[c].seen.area
           /\ \A j \in Ready \ {k} : queue[j].area \in job[c].others
  BY <1>2, <1>3 DEF SnapshotsStillHold
<1> HIDE DEF k
<1> QED BY <1>3, <1>4, <1>6, <1>7, <1>8, <1>9, OwnSnapshot

\* A verdict that lets its own row through was made while that row held the slot,
\* so that nothing became ready meanwhile that the checks have not seen; any other
\* verdict lets nothing through that counts.
LEMMA WriteVerdictSound ==
    ASSUME QueueIsSound, NEW c \in Callers, WriteVerdict(c)
    PROVE  QueueIsSound'
<1> DEFINE l == job[c].lane
           i == RowOf(l)
           e == queue[i]
           status == IF job[c].pass THEN "ready_for_confirm" ELSE "failed"
           entry == [e EXCEPT !.verdict = job[c].seen, !.status = status]
<1>1. TypeOK /\ SlotIsExclusive /\ ReadyLanesAreDisjoint /\ SnapshotsStillHold
  BY DEF QueueIsSound
<1>2. pc[c] = "checked" /\ RowsOf(l) # {} BY <1>1 DEF WriteVerdict, TypeOK
<1>3. i \in DOMAIN queue /\ e \in RowType BY <1>1, <1>2, RowOfShape, QueueShape
<1>4. Rewrite(i, entry) /\ GiveUp(c) /\ main' = main /\ e.version = job[c].version
  BY DEF WriteVerdict, IsExpected
<1>5. job[c].seen \in VerdictType /\ status \in Statuses
  <2>1. job[c] \in JobType BY <1>1 DEF TypeOK
  <2> QED BY <2>1 DEF JobType, Statuses, Terminal
<1>6. status \notin InSlot BY DEF InSlot
<1>7. status = "ready_for_confirm" => job[c].pass OBVIOUS
<1> HIDE DEF e, status, i, l
<1>8. /\ entry \in RowType /\ entry.lane = e.lane /\ entry.version = e.version
      /\ entry.status = status /\ entry.verdict = job[c].seen /\ entry.area = e.area
  <2>1. PICK verdict \in VerdictType : verdict = job[c].seen BY <1>5
  <2>2. entry = [e EXCEPT !.verdict = verdict, !.status = status] BY <2>1
  <2> HIDE DEF entry
  <2> QED BY <1>3, <1>5, <2>1, <2>2 DEF RowType
<1> HIDE DEF entry
<1>9. NoNewChecks BY <1>1, <1>4, GiveUpShape DEF NoNewChecks
<1>10. /\ pc' \in [Callers -> {"idle", "enqueued", "staged", "checking", "checked"}]
       /\ job' \in [Callers -> JobType] /\ pc'[c] = "idle"
       /\ \A d \in Callers : d # c => pc'[d] = pc[d] /\ job'[d] = job[d]
  BY <1>1, <1>4, GiveUpShape
<1>11. \A d \in Callers :
         pc'[d] = "idle" \/ (pc[d] # "idle" /\ job'[d].lane = job[d].lane)
  BY <1>10
<1>12. CASE status = "failed" \/ job[c].seen.row # i
  <2>1. \/ entry.status \notin {"ready_for_confirm", "merging"}
        \/ entry.verdict.row # i
    BY <1>8, <1>12
  <2>2. entry.status \notin InSlot BY <1>6, <1>8
  <2> QED BY <1>2, <1>4, <1>8, <1>9, <1>10, <1>11, <2>1, <2>2, RewriteSound DEF e, i
<1>13. CASE status # "failed" /\ job[c].seen.row = i
  <2>1. job[c].pass /\ status = "ready_for_confirm" BY <1>7, <1>13 DEF status
  <2>2. /\ e.status = "preflight"
        /\ \A j \in Ready \ {i} : queue[j].area # e.area
    BY <1>1, <1>2, <1>4, <1>13, <2>1 DEF SnapshotsStillHold, e
  <2>3. /\ DOMAIN queue' = DOMAIN queue
        /\ \A j \in DOMAIN queue : j # i => queue'[j] = queue[j]
        /\ queue'[i].area = e.area /\ queue'[i].status = "ready_for_confirm"
        /\ queue'[i].verdict = job[c].seen
        /\ queue'[i].version = e.version + 1 /\ e.version \in Nat
    <3>1. e.version \in Nat BY <1>3 DEF RowType
    <3> QED BY <1>1, <1>3, <1>4, <1>8, <2>1, <3>1, RewriteShape
  <2>4. TypeOK'
    BY <1>1, <1>2, <1>4, <1>8, <1>10, <1>11, RewriteType DEF e, i
  <2>5. SlotIsExclusive'
    BY <1>1, <2>3 DEF SlotIsExclusive, InSlot
  <2>6. Ready' \subseteq Ready \union {i} BY <2>3 DEF Ready
  <2>7. ReadyLanesAreDisjoint'
    <3>1. \A j \in Ready' : j # i => j \in Ready /\ queue'[j].area = queue[j].area
      BY <2>3, <2>6 DEF Ready
    <3> QED BY <1>1, <2>2, <2>3, <3>1 DEF ReadyLanesAreDisjoint
  <2>8. ASSUME NEW d \in Callers, pc'[d] \in {"checking", "checked"},
               NEW k, k = job'[d].seen.row
        PROVE  /\ k \in DOMAIN queue' /\ job'[d].version <= queue'[k].version
               /\ job'[d].version # queue'[k].version
    <3>1. d # c /\ pc[d] \in {"checking", "checked"} /\ job'[d] = job[d]
      BY <1>10, <2>8
    <3>2. /\ k \in DOMAIN queue /\ job[d].version <= queue[k].version
          /\ job[d].version = queue[k].version => queue[k].status = "preflight"
      BY <1>1, <2>8, <3>1 DEF SnapshotsStillHold
    <3>3. CASE k = i
      <4>1. job[d].version \in Nat
        <5>1. job[d] \in JobType BY <1>1 DEF TypeOK
        <5> QED BY <5>1 DEF JobType
      <4> QED BY <2>3, <3>1, <3>2, <3>3, <4>1 DEF e
    <3>4. CASE k # i
      <4>1. queue[k].status # "preflight"
        BY <1>1, <1>3, <2>2, <3>2, <3>4 DEF SlotIsExclusive, InSlot, e
      <4> QED BY <2>3, <3>1, <3>2, <3>4, <4>1
    <3> QED BY <3>3, <3>4
  <2>9. SnapshotsStillHold' BY <2>8 DEF SnapshotsStillHold
  <2> QED BY <2>4, <2>5, <2>7, <2>9 DEF QueueIsSound
<1> QED BY <1>12, <1>13

-----------------------------------------------------------------------------
\* Theorems

LEMMA QueueInit == Init => QueueIsSound
<1> SUFFICES ASSUME Init PROVE QueueIsSound
  OBVIOUS
<1>1. NoJob \in JobType BY DEF NoJob, NoVerdict, JobType, VerdictType
<1>2. queue \in Seq(RowType) /\ DOMAIN queue = {}
  <2>1. queue \in Seq(RowType) /\ Len(queue) = 0 BY EmptySeq DEF Init
  <2> QED BY <2>1, LenProperties
<1>3. TypeOK BY <1>1, <1>2, BoundAssumption DEF Init, TypeOK
<1>4. SlotIsExclusive /\ ReadyLanesAreDisjoint
  BY <1>2 DEF SlotIsExclusive, ReadyLanesAreDisjoint, Ready
<1>5. SnapshotsStillHold BY DEF Init, SnapshotsStillHold
<1> QED BY <1>3, <1>4, <1>5 DEF QueueIsSound

LEMMA QueueStep == QueueIsSound /\ [Next]_vars => QueueIsSound'
<1> SUFFICES ASSUME QueueIsSound, [Next]_vars PROVE QueueIsSound'
  OBVIOUS
<1>1. CASE UNCHANGED vars
  BY <1>1, NoRowChanges DEF vars, NoNewChecks, QueueIsSound, TypeOK
<1>2. CASE MainAdvances BY <1>2, MainAdvancesSound
<1>3. CASE NoteMainAdvanced BY <1>3, NoteMainAdvancedSound
<1>4. ASSUME NEW c \in Callers,
             \/ TakeSlot(c) \/ NoSlot(c) \/ Snapshot(c) \/ RunChecks(c)
             \/ WriteVerdict(c) \/ Abandon(c)
             \/ \E l \in Lanes, base \in 1..main, area \in Areas :
                  Enqueue(c, l, base, area)
      PROVE  QueueIsSound'
  <2>1. CASE NoSlot(c) \/ Abandon(c)
    <3>1. GiveUp(c) /\ UNCHANGED <<queue, main>> BY <2>1 DEF NoSlot, Abandon
    <3> QED BY <3>1, GivingUpSound
  <2> QED BY <1>4, <2>1, TakeSlotSound, SnapshotSound, RunChecksSound,
             WriteVerdictSound, EnqueueSound
<1>5. ASSUME NEW l \in Lanes, RowsOf(l) # {},
             \/ Confirm(l) \/ MarkMerged(l) \/ Abort(l)
             \/ \E base \in 1..main, area \in Areas : Requeue(l, base, area)
             \/ \E c \in Callers : Resume(c, l)
      PROVE  QueueIsSound'
  BY <1>5, LaneStepSound, ResumeSound
<1> QED BY <1>1, <1>2, <1>3, <1>4, <1>5 DEF Next

\* At most one lane is checked or merged, and lanes that wait for the merge have
\* passed against each other, for any number of sessions that submit, abort and
\* queue again while main advances (run_preflight, request_merge).
THEOREM QueueStaysSound == Spec => []QueueIsSound
BY QueueInit, QueueStep, PTL DEF Spec

\* The rows that a step may change are rows under way, but for a verdict on the
\* last row of the lane.
LEMMA OnlyVerdictsReachTheEnd ==
    ASSUME QueueIsSound, [Next]_vars, NEW i \in DOMAIN queue,
           queue[i].status \in {"merged", "aborted"},
           queue'[i].verdict.row \in {0, i}
    PROVE  queue'[i] = queue[i]
<1>1. TypeOK BY DEF QueueIsSound
<1>2. CASE UNCHANGED queue BY <1>2
<1>3. ASSUME NEW l, RowsOf(l) # {}, NEW entry, Rewrite(RowOf(l), entry),
             queue[RowOf(l)].status \notin {"merged", "aborted"}
      PROVE  queue'[i] = queue[i]
  <2>1. RowOf(l) # i BY <1>3
  <2> QED BY <1>3, <2>1 DEF Rewrite
<1>4. ASSUME NEW c \in Callers, NEW l \in Lanes, NEW base \in 1..main,
             NEW area \in Areas, Enqueue(c, l, base, area)
      PROVE  queue'[i] = queue[i]
  BY <1>1, <1>4, EnqueueType
<1>5. ASSUME NEW c \in Callers, TakeSlot(c)
      PROVE  queue'[i] = queue[i]
  <2>1. RowsOf(job[c].lane) # {} BY <1>1, <1>5 DEF TakeSlot, TypeOK
  <2> QED BY <1>3, <1>5, <2>1 DEF TakeSlot
<1>6. ASSUME NEW l \in Lanes, RowsOf(l) # {},
             \/ Confirm(l) \/ MarkMerged(l) \/ Abort(l)
             \/ \E base \in 1..main, area \in Areas : Requeue(l, base, area)
      PROVE  queue'[i] = queue[i]
  BY <1>3, <1>6 DEF Confirm, MarkMerged, Abort, Requeue, Terminal
<1>7. CASE NoteMainAdvanced
  BY <1>7 DEF NoteMainAdvanced, Outdated
<1>8. ASSUME NEW c \in Callers, WriteVerdict(c)
      PROVE  queue'[i] = queue[i]
  <2> DEFINE k == RowOf(job[c].lane)
  <2>1. RowsOf(job[c].lane) # {} /\ pc[c] = "checked" /\ IsExpected(c, k)
    BY <1>1, <1>8 DEF WriteVerdict, TypeOK
  <2>2. k \in DOMAIN queue /\ queue[k] \in RowType
    BY <1>1, <2>1, RowOfShape, QueueShape
  <2> DEFINE entry == [queue[k] EXCEPT !.verdict = job[c].seen,
                         !.status = IF job[c].pass THEN "ready_for_confirm"
                                    ELSE "failed"]
  <2>3. entry.verdict = job[c].seen /\ Bump(entry).verdict = entry.verdict
    BY <2>2 DEF RowType, Bump
  <2>4. queue' = [queue EXCEPT ![k] = Bump(entry)] BY <1>8 DEF WriteVerdict, Rewrite
  <2> HIDE DEF entry, k
  <2>5. CASE i = k
    <3>1. queue'[i].verdict = job[c].seen BY <2>3, <2>4, <2>5
    <3>2. job[c].seen.row \in DOMAIN queue
      BY <2>1 DEF QueueIsSound, SnapshotsStillHold
    <3>3. job[c].seen.row # 0 BY <1>1, <3>2, QueueShape
    <3>4. job[c].seen.row = i BY <3>1, <3>3
    <3>5. queue[i].status = "preflight"
      BY <2>1, <2>5, <3>4 DEF QueueIsSound, SnapshotsStillHold, IsExpected
    <3> QED BY <3>5
  <2>6. CASE i # k BY <2>4, <2>6
  <2> QED BY <2>5, <2>6
<1>9. ASSUME NEW c \in Callers,
             \/ NoSlot(c) \/ Snapshot(c) \/ RunChecks(c) \/ Abandon(c)
             \/ \E l \in Lanes : Resume(c, l)
      PROVE  UNCHANGED queue
  BY <1>9 DEF NoSlot, Snapshot, RunChecks, Abandon, Resume
<1> QED BY <1>2, <1>4, <1>5, <1>6, <1>7, <1>8, <1>9
        DEF Next, MainAdvances, vars

\* EndIsFinal: what a human has aborted, and what is merged, is never brought back
\* by checks that were running (_assert_version in run_preflight).
THEOREM EndsAreFinal == Spec => EndIsFinal
<1> DEFINE Final == \A i \in DOMAIN queue :
                       /\ queue[i].status \in {"merged", "aborted"}
                       /\ queue'[i].verdict.row \in {0, i}
                       => queue'[i] = queue[i]
<1>1. QueueIsSound /\ [Next]_vars => [Final]_queue BY OnlyVerdictsReachTheEnd
<1> QED BY <1>1, QueueStaysSound, PTL DEF Spec, EndIsFinal
=============================================================================
