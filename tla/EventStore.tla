----------------------------- MODULE EventStore -----------------------------
(***************************************************************************)
(* The event log of one session (event_log/store.py, event_log/rotate.py): *)
(* threads of several processes append to it under the session's flock,    *)
(* which also covers the rotation into segments, and read it without any   *)
(* lock, through a cache that each process keeps of the parsed events.     *)
(*                                                                         *)
(* A file is a sequence of lines.  A line is whole, or torn (written in    *)
(* part, without its newline), or bad (a torn one to which the next append *)
(* was glued; it does not parse).  seq is assigned from the tail of the    *)
(* file, id tells the events apart.  A read sorts by seq; SeqIsPosition    *)
(* makes that the order of the files, which is the one kept here.          *)
(***************************************************************************)
EXTENDS Naturals, Sequences, SequencesExt

CONSTANTS
    Writers, Readers,  \* threads
    HostOf,            \* the process of each thread
    KindsOf,           \* the operations of each writer
    MayFail,           \* which steps may fail
    Cap,               \* events that make a file due for rotation (size or age)
    MaxEvents,         \* bound: append attempts
    MaxTorn,           \* bound: writes that are torn
    MaxCrashes,        \* bound: processes that die
    None

Threads == Writers \union Readers
Procs == {HostOf[t] : t \in Threads}

ASSUME ThreadAssumption == Writers \intersect Readers = {} /\ None \notin Threads
Kinds == {"plain", "human", "copy", "check"}

ASSUME KindAssumption == KindsOf \in [Writers -> SUBSET Kinds]
ASSUME FailAssumption == MayFail \subseteq {"write", "move", "create"}
ASSUME BoundAssumption ==
    /\ Cap \in Nat \ {0} /\ MaxEvents \in Nat
    /\ MaxTorn \in Nat /\ MaxCrashes \in Nat

VARIABLES
    single,    \* <sid>.jsonl
    dir,       \* the directory <sid>/ exists
    segs,      \* its segment files, in order
    lock,      \* the thread that holds the flock of <sid>.lock
    cache,     \* _read_cache of each process
    building,  \* the thread that holds the cache's build lock, per process
    pc,        \* where each thread is
    kind,      \* the operation of each writer
    event,     \* the event a writer has appended and will put in its cache
    multi,     \* _is_multi_segment as a reader saw it
    seen,      \* last_seq as a reader saw it
    got,       \* the events a reader has read
    began,     \* history: the disk when a reader's call began
    acked,     \* history: events that an append has returned
    accepted,  \* history: human messages whose append returned
    ids, torn, crashes

disk == <<single, dir, segs>>
reading == <<multi, seen, got, began>>
history == <<acked, accepted, ids, torn, crashes>>
vars == <<disk, lock, cache, building, pc, kind, event, reading, history>>

-----------------------------------------------------------------------------
\* Files and lines

Whole(n, i) == [seq |-> n, id |-> i, state |-> "whole"]
Broken(state) == [seq |-> 0, id |-> 0, state |-> state]
NoEvent == Broken("none")

EndsTorn(file) == file # << >> /\ Last(file).state = "torn"

\* O_APPEND: what is written to a torn tail ends up on the same line.
Put(file, line) ==
    IF EndsTorn(file)
    THEN Append(Front(file),
                Broken(IF line.state = "torn" THEN "torn" ELSE "bad"))
    ELSE Append(file, line)

\* The lines that parse, of the first lines of a file and of all of it.
Kept(file) ==
    LET upTo[i \in 0..Len(file)] ==
            IF i = 0 THEN << >>
            ELSE IF file[i].state = "whole" THEN Append(upTo[i-1], file[i])
            ELSE upTo[i-1]
    IN  upTo
Parsed(file) == Kept(file)[Len(file)]

\* _tail_last_seq: the last line that parses.
TailSeq(file) ==
    LET lines == Parsed(file) IN
    IF lines = << >> THEN 0 ELSE Last(lines).seq

Larger(m, n) == IF m > n THEN m ELSE n

\* What the path helpers see: the directory hides the single file.
Active == IF ~dir THEN single ELSE IF segs = << >> THEN << >> ELSE Last(segs)

\* Mutant: the archived segment is forgotten when the active one is empty.
NextSeqActive == 1 + TailSeq(Active)

\* _global_last_seq_locked, plus one: the active file and the last archive.
NextSeq ==
    1 + Larger(TailSeq(Active),
               IF Len(segs) >= 2 THEN TailSeq(segs[Len(segs) - 1]) ELSE 0)

\* read(): every line that parses, of the files of the form that was seen.
Joined(files) ==
    LET upTo[i \in 0..Len(files)] ==
            IF i = 0 THEN << >> ELSE upTo[i-1] \o Parsed(files[i])
    IN  upTo
Events(files) == Joined(files)[Len(files)]
ReadAs(m) == IF m THEN Events(segs) ELSE Parsed(single)

\* last_seq(): the largest tail.
LastSeqAs(m) ==
    LET tails == {0} \union {TailSeq(segs[i]) : i \in DOMAIN segs} IN
    IF m THEN CHOOSE n \in tails : \A k \in tails : k <= n
    ELSE TailSeq(single)

\* All that is on disk, whether the path helpers see it or not.
OnDisk == Parsed(single) \o Events(segs)
Visible == ReadAs(dir)
\* _should_rotate_file, by size or by age.  A torn line alone never reaches the
\* size limit, which is many times a line.
Full(file) == Len(Parsed(file)) >= Cap

\* What a call remembers of the disk at its beginning: the number of events,
\* and whether the first rotation was behind it.
NoCall == [events |-> 0, moved |-> FALSE]
Settled == [events |-> Len(OnDisk), moved |-> dir /\ single = << >>]

NoCache == [hot |-> FALSE, last |-> 0, events |-> << >>]

Init ==
    /\ single = << >> /\ dir = FALSE /\ segs = << >>
    /\ lock = None
    /\ cache = [p \in Procs |-> NoCache]
    /\ building = [p \in Procs |-> None]
    /\ pc = [t \in Threads |-> "idle"]
    /\ kind = [w \in Writers |-> "none"]
    /\ event = [w \in Writers |-> NoEvent]
    /\ multi = [r \in Readers |-> FALSE]
    /\ seen = [r \in Readers |-> 0]
    /\ got = [r \in Readers |-> << >>]
    /\ began = [r \in Readers |-> NoCall]
    /\ acked = {} /\ accepted = {} /\ ids = 0 /\ torn = 0 /\ crashes = 0

Goto(t, label) == pc' = [pc EXCEPT ![t] = label]

\* The writer's operation is over.
Finish(w) == Goto(w, "idle") /\ kind' = [kind EXCEPT ![w] = "none"]

-----------------------------------------------------------------------------
\* Appending and rotating, under the session's lock

LockFree == lock = None

\* append, append_durable_human_message, append_event ("copy", a fork) and
\* check_rotate enter _session_flock.
Begin(w) ==
    /\ pc[w] = "idle"
    /\ LockFree
    /\ \E k \in KindsOf[w] :
         /\ k = "check" \/ ids < MaxEvents
         /\ kind' = [kind EXCEPT ![w] = k]
    /\ lock' = w
    /\ Goto(w, "locked")
    /\ UNCHANGED <<disk, cache, building, event, reading, history>>

\* The check is over: the file is written next, or the lock is given back.
Checked(w) ==
    IF kind[w] = "check" THEN lock' = None /\ Finish(w)
    ELSE Goto(w, "write") /\ UNCHANGED <<lock, kind>>

\* check_and_rotate: the first rotation makes the directory.
MakeDir(w) ==
    /\ pc[w] = "locked" /\ kind[w] # "copy"
    /\ ~dir /\ Full(single)
    /\ dir' = TRUE
    /\ Goto(w, "move")
    /\ UNCHANGED <<single, segs, lock, cache, building, kind, event, reading,
                   history>>

\* shutil.move(single, 1.jsonl).
Move(w) ==
    /\ pc[w] = "move"
    /\ segs' = <<single>>
    /\ single' = << >>
    /\ Goto(w, "create")
    /\ UNCHANGED <<dir, lock, cache, building, kind, event, reading, history>>

\* _rotate_multi_segment: the active segment is full.
NextSegment(w) ==
    /\ pc[w] = "locked" /\ kind[w] # "copy"
    /\ dir /\ Full(Active)
    /\ Goto(w, "create")
    /\ UNCHANGED <<disk, lock, cache, building, kind, event, reading, history>>

\* The new active segment is created, empty.
Create(w) ==
    /\ pc[w] = "create"
    /\ segs' = Append(segs, << >>)
    /\ Checked(w)
    /\ UNCHANGED <<single, dir, cache, building, event, reading, history>>

\* The move or the creation raises; the rotation is given up (fail-open).
RotateFails(w) ==
    /\ pc[w] \in {"move", "create"} /\ pc[w] \in MayFail
    /\ Checked(w)
    /\ UNCHANGED <<disk, cache, building, event, reading, history>>

NoRotation(w) ==
    /\ pc[w] = "locked"
    /\ kind[w] = "copy" \/ ~Full(Active)
    /\ Checked(w)
    /\ UNCHANGED <<disk, cache, building, event, reading, history>>

WriteActive(line) ==
    IF ~dir THEN single' = Put(single, line) /\ UNCHANGED segs
    ELSE /\ segs' = IF segs = << >> THEN << Put(<< >>, line) >>
                    ELSE Append(Front(segs), Put(Last(segs), line))
         /\ UNCHANGED single

\* Mutant: a cache that misses events is extended as well.
ExtendGap(p, e) ==
    IF ~cache[p].hot THEN cache
    ELSE [cache EXCEPT ![p] = [@ EXCEPT !.last = e.seq, !.events = Append(@, e)]]

\* _extend_read_cache: a gap drops the cache.
Extended(p, e) ==
    [hot |-> TRUE, last |-> e.seq, events |-> Append(cache[p].events, e)]
Extend(p, e) ==
    IF ~cache[p].hot THEN cache
    ELSE [cache EXCEPT ![p] = IF e.seq = cache[p].last + 1 THEN Extended(p, e)
                              ELSE NoCache]

\* Mutant: the human message is not read back.
ReadBackSkipped == TRUE

\* The independent readback of a human message: no line of the log is skipped
\* and the event is there, which a torn or bad line before it prevents.
ReadBack ==
    IF dir THEN \A i \in DOMAIN segs : Parsed(segs[i]) = segs[i]
    ELSE Parsed(single) = single

\* _append_locked (and _append_event_locked): number the event, write it, and
\* give the lock back.  The append returns the event.
Write(w) ==
    /\ pc[w] = "write"
    /\ LET line == Whole(NextSeq, ids + 1) IN
         /\ WriteActive(line)
         /\ IF kind[w] = "human" /\ ~ReadBack
            THEN /\ Finish(w)  \* EventCommitUncertainError
                 /\ UNCHANGED <<cache, event, acked, accepted>>
            ELSE /\ acked' = acked \union {line}
                 /\ accepted' = IF kind[w] = "human"
                                THEN accepted \union {line} ELSE accepted
                 /\ IF kind[w] = "copy"
                    THEN /\ cache' = Extend(HostOf[w], line)
                         /\ Finish(w)
                         /\ UNCHANGED event
                    ELSE /\ event' = [event EXCEPT ![w] = line]
                         /\ Goto(w, "extend")
                         /\ UNCHANGED <<cache, kind>>
    /\ ids' = ids + 1
    /\ lock' = None
    /\ UNCHANGED <<dir, building, reading, torn, crashes>>

\* The write raises: nothing, a part of the line or all of it is in the file,
\* and the append returns None (or raises, for a human message).
WriteFails(w) ==
    /\ pc[w] = "write" /\ "write" \in MayFail
    /\ \/ UNCHANGED <<single, segs, torn>>
       \/ WriteActive(Whole(NextSeq, ids + 1)) /\ UNCHANGED torn
       \/ torn < MaxTorn /\ torn' = torn + 1 /\ WriteActive(Broken("torn"))
    /\ ids' = ids + 1
    /\ lock' = None
    /\ Finish(w)
    /\ UNCHANGED <<dir, cache, building, event, reading, acked, accepted,
                   crashes>>

\* The lock is free again when the writer extends its process's cache.
ExtendCache(w) ==
    /\ pc[w] = "extend"
    /\ cache' = Extend(HostOf[w], event[w])
    /\ event' = [event EXCEPT ![w] = NoEvent]
    /\ Finish(w)
    /\ UNCHANGED <<disk, lock, building, reading, history>>

-----------------------------------------------------------------------------
\* read_cached

StartRead(r) ==
    /\ pc[r] = "idle"
    /\ began' = [began EXCEPT ![r] = Settled]
    /\ Goto(r, "probe")
    /\ UNCHANGED <<disk, lock, cache, building, kind, event, multi, seen, got,
                   history>>

\* The three looks at the files each ask for the form first.
LookFrom == [probe |-> "tail", read |-> "scan", recheck |-> "after"]

Look(r) ==
    /\ pc[r] \in DOMAIN LookFrom
    /\ multi' = [multi EXCEPT ![r] = dir]
    /\ Goto(r, LookFrom[pc[r]])
    /\ UNCHANGED <<disk, lock, cache, building, kind, event, seen, got, began,
                   history>>

\* What a look has told is used once.
Used(r) == multi' = [multi EXCEPT ![r] = FALSE]

\* durable_last = self.last_seq(session_id)
Tail_(r) ==
    /\ pc[r] = "tail"
    /\ seen' = [seen EXCEPT ![r] = LastSeqAs(multi[r])]
    /\ Used(r)
    /\ Goto(r, "match")
    /\ UNCHANGED <<disk, lock, cache, building, kind, event, got, began,
                   history>>

\* The build lock is given back with the return.
Released(r) == [building EXCEPT ![HostOf[r]] = IF @ = r THEN None ELSE @]

\* The cached snapshot is valid while the durable tail is what it was.
Fresh(r) == cache[HostOf[r]].last = seen[r]

\* A hit returns the cached events; the first miss waits for the build lock
\* and looks again, the second reads the log.
Match(r) ==
    /\ pc[r] = "match"
    /\ IF cache[HostOf[r]].hot /\ Fresh(r)
       THEN /\ got' = [got EXCEPT ![r] = cache[HostOf[r]].events]
            /\ building' = Released(r)
            /\ Goto(r, "return")
       ELSE /\ Goto(r, IF building[HostOf[r]] = r THEN "read" ELSE "wait")
            /\ UNCHANGED <<got, building>>
    /\ seen' = [seen EXCEPT ![r] = 0]
    /\ UNCHANGED <<disk, lock, cache, kind, event, multi, began, history>>

TakeBuildLock(r) ==
    /\ pc[r] = "wait" /\ building[HostOf[r]] = None
    /\ building' = [building EXCEPT ![HostOf[r]] = r]
    /\ Goto(r, "probe")
    /\ UNCHANGED <<disk, lock, cache, kind, event, reading, history>>

\* events = self.read(session_id)
Scan(r) ==
    /\ pc[r] = "scan"
    /\ got' = [got EXCEPT ![r] = ReadAs(multi[r])]
    /\ Used(r)
    /\ Goto(r, "recheck")
    /\ UNCHANGED <<disk, lock, cache, building, kind, event, seen, began,
                   history>>

After(r) ==
    /\ pc[r] = "after"
    /\ seen' = [seen EXCEPT ![r] = LastSeqAs(multi[r])]
    /\ Used(r)
    /\ Goto(r, "store")
    /\ UNCHANGED <<disk, lock, cache, building, kind, event, got, began,
                   history>>

\* The snapshot is stored unless the tail has moved on meanwhile.
Store(r) ==
    /\ pc[r] = "store"
    /\ LET last == IF got[r] = << >> THEN 0 ELSE Last(got[r]).seq IN
         cache' = IF last = seen[r]
                  THEN [cache EXCEPT ![HostOf[r]] =
                           [hot |-> TRUE, last |-> last, events |-> got[r]]]
                  ELSE cache
    /\ building' = Released(r)
    /\ Goto(r, "return")
    /\ seen' = [seen EXCEPT ![r] = 0]
    /\ UNCHANGED <<disk, lock, kind, event, multi, got, began, history>>

Return(r) ==
    /\ pc[r] = "return"
    /\ got' = [got EXCEPT ![r] = << >>]
    /\ began' = [began EXCEPT ![r] = NoCall]
    /\ Goto(r, "idle")
    /\ UNCHANGED <<disk, lock, cache, building, kind, event, multi, seen,
                   history>>

-----------------------------------------------------------------------------
\* A process dies: its memory and its locks go.  Between the directory and the
\* move this leaves what a failing move leaves, and is bound to the same fault.
Crash(p) ==
    /\ crashes < MaxCrashes
    /\ \A t \in Threads : HostOf[t] = p /\ pc[t] = "move" => "move" \in MayFail
    /\ crashes' = crashes + 1
    /\ cache' = [cache EXCEPT ![p] = NoCache]
    /\ building' = [building EXCEPT ![p] = None]
    /\ lock' = IF lock # None /\ HostOf[lock] = p THEN None ELSE lock
    /\ pc' = [t \in Threads |-> IF HostOf[t] = p THEN "idle" ELSE pc[t]]
    /\ event' = [w \in Writers |-> IF HostOf[w] = p THEN NoEvent ELSE event[w]]
    /\ kind' = [w \in Writers |-> IF HostOf[w] = p THEN "none" ELSE kind[w]]
    /\ multi' = [r \in Readers |-> HostOf[r] # p /\ multi[r]]
    /\ seen' = [r \in Readers |-> IF HostOf[r] = p THEN 0 ELSE seen[r]]
    /\ got' = [r \in Readers |-> IF HostOf[r] = p THEN << >> ELSE got[r]]
    /\ began' = [r \in Readers |-> IF HostOf[r] = p THEN NoCall ELSE began[r]]
    /\ UNCHANGED <<disk, acked, accepted, ids, torn>>

WriterStep(w) ==
    \/ Begin(w) \/ MakeDir(w) \/ Move(w) \/ NextSegment(w) \/ Create(w)
    \/ RotateFails(w) \/ NoRotation(w) \/ Write(w) \/ WriteFails(w)
    \/ ExtendCache(w)

ReaderStep(r) ==
    \/ StartRead(r) \/ Look(r) \/ Tail_(r) \/ Match(r) \/ TakeBuildLock(r)
    \/ Scan(r) \/ After(r) \/ Store(r) \/ Return(r)

Next ==
    \/ \E w \in Writers : WriterStep(w)
    \/ \E r \in Readers : ReaderStep(r)
    \/ \E p \in Procs : Crash(p)

Spec == Init /\ [][Next]_vars

-----------------------------------------------------------------------------
\* Properties

Event == {Whole(n, i) : n, i \in 1..MaxEvents}
Line == Event \union {Broken("torn"), Broken("bad")}

TypeOK ==
    /\ single \in Seq(Line) /\ dir \in BOOLEAN /\ segs \in Seq(Seq(Line))
    /\ lock \in Writers \union {None}
    /\ \A p \in Procs : cache[p].events \in Seq(Line) /\ building[p] \in Readers \union {None}
    /\ DOMAIN pc = Threads
    /\ kind \in [Writers -> Kinds \union {"none"}]
    /\ acked \subseteq Event /\ accepted \subseteq acked

\* seq numbers the events of the log 1, 2, 3, ... in the order of the files,
\* without a duplicate or a gap, across segments, crashes and torn lines.  The
\* replay (event_log/replay.py) orders by seq and nothing else.
SeqIsPosition ==
    LET lines == OnDisk IN \A i \in DOMAIN lines : lines[i].seq = i

\* Whatever an append has returned can be read as soon as no writer holds the
\* lock: a rotation loses nothing, as append promises.  A torn line takes the
\* next event with it, so this is stated for logs without one.
AckedIsReadable ==
    lock = None /\ torn = 0 => acked \subseteq ToSet(Visible)

\* The log on disk is never out of order and loses nothing that an append has
\* returned: the parts above together.
LogIsSound == TypeOK /\ SeqIsPosition /\ AckedIsReadable

\* read_cached returns an exact snapshot, as it says: a prefix of the log
\* that has all that was there when the call began.  Only a read that meets
\* the first rotation may come back empty.
CachedReadIsExact ==
    \A r \in Readers : pc[r] = "return" /\ torn = 0 =>
        \/ /\ IsPrefix(got[r], OnDisk)
           /\ Len(got[r]) >= began[r].events
        \/ got[r] = << >> /\ dir /\ ~began[r].moved

Log == INSTANCE EventLog WITH log <- OnDisk

\* The store is one growing sequence, whatever its files do, and an accepted
\* human message stays in it.
KeepsLog == Log!Spec
=============================================================================
