-------------------------- MODULE WakeScheduleProofs --------------------------
(***************************************************************************)
(* Theorems about WakeSchedule, for every set of processes and runs, every *)
(* number of fires, retries, lost commits and crashes.                     *)
(***************************************************************************)
EXTENDS WakeSchedule, FiniteSetTheorems, TLAPS

Places == {"idle", "claimed", "notify", "defer", "ack", "retry"}
Stages == {"none", "queued", "noted", "running", "failing", "giving_up", "closing"}
Thread == [at : Places, wake : BOOLEAN, occ : 0..MaxFires, child : Runs \union {None}]
Run == [at : Stages, proc : Procs \union {None}, occ : 0..MaxFires]
Record == [state : {"none", "pending", "started", "consumed", "revoked"},
           used : 0..MaxFires, last : 0..MaxFires]

\* The constants, as the proofs use them.
LEMMA Constants ==
    /\ MaxFires \in Nat /\ 1 <= MaxFires /\ (~Standing => MaxFires = 1)
    /\ MaxRetries \in Nat /\ 1 <= MaxRetries
    /\ MaxFaults \in Nat /\ MaxCrashes \in Nat
    /\ None \notin Procs /\ None \notin Runs /\ Dead \notin Procs
    /\ FaultKinds \subseteq {"lost", "skipped"}
BY FireAssumption, RetryAssumption, FaultAssumption, NameAssumption

\* What the file holds after a commit (_mutate).
LEMMA CommitShape ==
    ASSUME NEW outcome \in Outcomes, NEW changed, Commit(outcome, changed),
           faults \in 0..MaxFaults
    PROVE  /\ outcome \in {"ok", "lost", "skipped"}
           /\ entry' = entry \/ entry' = changed
           /\ outcome = "ok" => entry' = changed /\ faults' = faults
           /\ outcome # "ok" => entry' = entry /\ faults' # 0
           /\ outcome # "ok" => outcome \in FaultKinds
           /\ faults' \in 0..MaxFaults
<1>1. outcome = "ok" \/ (outcome \in FaultKinds /\ faults < MaxFaults)
  BY DEF Outcomes
<1>2. outcome \in {"ok", "lost", "skipped"} BY <1>1, Constants
<1> QED BY <1>1, <1>2, Constants DEF Commit

\* The entries that the operations write.
LEMMA FreshShape ==
    ASSUME NEW p \in Procs \union {None}
    PROVE  /\ Fresh(p) \in Entries /\ Fresh(p).there /\ Fresh(p).count = 0
           /\ Fresh(p).holder = None
BY Constants, PredicateAssumption DEF Fresh, Entries

LEMMA GoneShape ==
    ASSUME NEW e, e.count \in 0..MaxFires
    PROVE  Gone(e) \in Entries /\ ~Gone(e).there /\ Gone(e).count = e.count
<1>1. Fresh(None) \in Entries BY FreshShape
<1> QED BY <1>1 DEF Gone, Entries

\* An entry with another time to wait for.
Rearmed(e, w, ripe, started, owner, retries) ==
    [e EXCEPT !.wait = w, !.ripe = ripe, !.started = started,
              !.owner = owner, !.retries = retries]

LEMMA RearmedShape ==
    ASSUME NEW e \in Entries, NEW w \in {"anchor", "due"}, NEW ripe \in BOOLEAN,
           NEW started \in BOOLEAN, NEW owner \in Procs \union {None, Dead},
           NEW retries \in 0..MaxRetries
    PROVE  LET m == Rearmed(e, w, ripe, started, owner, retries) IN
           /\ m \in Entries /\ m.count = e.count /\ m.holder = e.holder
           /\ m.wake = e.wake /\ m.child = e.child /\ m.there = e.there
BY DEF Entries, Rearmed

\* _advance: one occurrence on, and no claim on what is left.
LEMMA AdvancedShape ==
    ASSUME NEW e \in Entries, e.count < MaxFires, NEW n \in Advanced(e)
    PROVE  /\ n \in Entries /\ n.count = e.count + 1
           /\ n.there => /\ Standing /\ n.count < MaxFires /\ n.there = e.there
                         /\ n.holder = None /\ n.wake = e.wake /\ n.child = e.child
<1> DEFINE next == [e EXCEPT !.count = @ + 1, !.holder = None, !.live = FALSE]
<1>1. e.count \in 0..MaxFires BY DEF Entries
<1>2. e.count + 1 \in 0..MaxFires BY <1>1, Constants
<1>3. /\ next \in Entries /\ next.count = e.count + 1 /\ next.holder = None
      /\ next.wake = e.wake /\ next.child = e.child /\ next.there = e.there
  BY <1>2 DEF Entries
<1>4. Advanced(e) =
        IF ~Standing \/ next.count >= MaxFires \/ (e.wake /\ Final(e))
        THEN {Gone(next)}
        ELSE IF e.wake
        THEN {[next EXCEPT !.wait = w, !.ripe = (w = "due"), !.started = FALSE,
                           !.owner = None, !.retries = 0] : w \in {"anchor", "due"}}
        ELSE {[next EXCEPT !.wait = "retry"]}
  BY DEF Advanced
<1> HIDE DEF next
<1>5. CASE ~Standing \/ next.count >= MaxFires \/ (e.wake /\ Final(e))
  <2>1. n = Gone(next) BY <1>4, <1>5
  <2> QED BY <2>1, <1>3, <1>2, GoneShape
<1>6. CASE ~(~Standing \/ next.count >= MaxFires \/ (e.wake /\ Final(e)))
  <2>1. CASE e.wake
    <3>1. PICK w \in {"anchor", "due"} : n = Rearmed(next, w, w = "due", FALSE, None, 0)
      BY <1>4, <1>6, <2>1 DEF Rearmed
    <3>2. ASSUME NEW ripe \in BOOLEAN, NEW started \in BOOLEAN,
                 NEW owner \in Procs \union {None, Dead}, NEW retries \in 0..MaxRetries
          PROVE  LET m == Rearmed(next, w, ripe, started, owner, retries) IN
                 /\ m \in Entries /\ m.count = next.count /\ m.holder = next.holder
                 /\ m.wake = next.wake /\ m.child = next.child /\ m.there = next.there
      BY <1>3, <3>1, RearmedShape
    <3>3. /\ (w = "due") \in BOOLEAN /\ FALSE \in BOOLEAN
          /\ 0 \in 0..MaxRetries /\ None \in Procs \union {None, Dead}
      BY Constants
    <3>4. LET m == Rearmed(next, w, w = "due", FALSE, None, 0) IN
          /\ m \in Entries /\ m.count = next.count /\ m.holder = next.holder
          /\ m.wake = next.wake /\ m.child = next.child /\ m.there = next.there
      BY <3>2, <3>3, Zenon
    <3>5. /\ n \in Entries /\ n.count = next.count /\ n.holder = next.holder
          /\ n.wake = next.wake /\ n.child = next.child /\ n.there = next.there
      BY <3>1, <3>4, Zenon
    <3> QED BY <3>5, <1>3, <1>2, <1>6, <1>1, Constants
  <2>2. CASE ~e.wake
    <3>1. n = [next EXCEPT !.wait = "retry"] BY <1>4, <1>6, <2>2
    <3> QED BY <3>1, <1>3, <1>2, <1>6, <1>1, Constants DEF Entries
  <2> QED BY <2>1, <2>2
<1> QED BY <1>5, <1>6

\* What a change that is no new occurrence leaves of the entry.
SameFire(e, f) == /\ f.there = e.there /\ f.count = e.count /\ f.child = e.child
                  /\ f.wake = e.wake /\ f.started = e.started
SameClaim(e, f) == f.holder = e.holder /\ f.live = e.live

\* defer_wake_retry: the same fire, and its claim is kept or given back.
LEMMA DeferShape ==
    ASSUME TypeOK, NEW p, NEW outcome \in Outcomes, NEW next, NEW raised, NEW spent,
           NEW done, Defer(p, outcome, next, raised, spent, done)
    PROVE  /\ entry' \in Entries /\ faults' \in 0..MaxFaults
           /\ faults' = 0 => faults = 0
           /\ SameFire(entry, entry')
           /\ \/ SameClaim(entry, entry')
              \/ entry.holder \in {None, p} /\ entry'.holder = None /\ next = done
           /\ entry'.holder \in {entry.holder, None}
           /\ next \in {raised, spent, done}
           /\ entry.holder = p => next = done \/ SameClaim(entry, entry')
<1>0. entry \in Entries /\ faults \in 0..MaxFaults BY DEF TypeOK
<1>1. CASE ~Deferrable(p)
  BY <1>1, <1>0 DEF Defer, SameFire, SameClaim
<1>2. CASE Deferrable(p)
  <2>1. PICK exhausted \in BOOLEAN :
          /\ Commit(outcome, Deferred(exhausted))
          /\ next = IF Raises(outcome) THEN raised ELSE IF exhausted THEN spent ELSE done
    BY <1>2 DEF Defer
  <2> DEFINE counted == [entry EXCEPT !.retries = IF @ < MaxRetries THEN @ + 1 ELSE @]
             given(w, h, l) == [counted EXCEPT !.wait = w, !.holder = h, !.live = l]
  <2>2. counted \in Entries /\ SameFire(entry, counted) /\ SameClaim(entry, counted)
    BY <1>0, Constants DEF Entries, SameFire, SameClaim
  <2>3. Deferred(exhausted) = IF exhausted THEN counted ELSE given("retry", None, FALSE)
    BY DEF Deferred
  <2> HIDE DEF counted
  <2>4. ASSUME NEW w \in {"anchor", "retry", "due"},
               NEW h \in Procs \union {None, Dead}, NEW l \in BOOLEAN
        PROVE  /\ given(w, h, l) \in Entries /\ SameFire(counted, given(w, h, l))
               /\ given(w, h, l).holder = h
    BY <2>2 DEF Entries, SameFire
  <2> HIDE DEF given
  <2>5. LET g == given("retry", None, FALSE) IN
        g \in Entries /\ SameFire(counted, g) /\ g.holder = None
    BY <2>4, Zenon
  <2>6. /\ Deferred(exhausted) \in Entries /\ SameFire(entry, Deferred(exhausted))
        /\ \/ exhausted /\ SameClaim(entry, Deferred(exhausted))
           \/ ~exhausted /\ Deferred(exhausted).holder = None
    BY <2>2, <2>3, <2>5 DEF SameFire, SameClaim
  <2>7. entry.holder \in {None, p} BY <1>2 DEF Deferrable
  <2>8. /\ entry' = entry \/ (outcome = "ok" /\ entry' = Deferred(exhausted))
        /\ faults' \in 0..MaxFaults /\ (faults' = 0 => faults = 0)
        /\ outcome \in {"ok", "lost", "skipped"}
    BY <2>1, <1>0, CommitShape
  <2>9. next \in {raised, spent, done} BY <2>1
  <2> QED BY <2>1, <2>6, <2>7, <2>8, <2>9, <1>0 DEF SameFire, SameClaim, Raises
<1> QED BY <1>1, <1>2

\* mark_triggered: nothing, or the entry is one occurrence on.
LEMMA MarkShape ==
    ASSUME TypeOK, RecordIsTrue, NEW p, NEW anyone \in BOOLEAN,
           NEW outcome \in Outcomes, Mark(p, anyone, outcome)
    PROVE  /\ entry' \in Entries /\ faults' \in 0..MaxFaults
           /\ faults' = 0 => faults = 0
           /\ grants' \subseteq grants
           /\ ledger' = ledger \/ ledger' = [ledger EXCEPT !.state = "revoked"]
           /\ ledger' # ledger => entry.there
           /\ \/ entry' = entry
              \/ /\ entry.there /\ (anyone \/ entry.holder = p)
                 /\ entry' \in Advanced(entry)
           /\ outcome = "ok" /\ entry.there /\ (anyone \/ entry.holder = p) =>
                entry' \in Advanced(entry)
           /\ outcome # "ok" => entry' = entry
<1>0. entry \in Entries /\ faults \in 0..MaxFaults BY DEF TypeOK
<1>1. CASE entry.there /\ (anyone \/ entry.holder = p)
  <2>1. PICK n \in Advanced(entry) : Commit(outcome, n)
    BY <1>1 DEF Mark
  <2>2. entry.count < MaxFires BY <1>1 DEF RecordIsTrue
  <2>3. n \in Entries BY <2>2, <1>0, AdvancedShape
  <2>4. /\ entry' = entry \/ entry' = n
        /\ outcome = "ok" => entry' = n
        /\ outcome # "ok" => entry' = entry
        /\ faults' \in 0..MaxFaults /\ (faults' = 0 => faults = 0)
    BY <2>1, <1>0, CommitShape
  <2>5. \/ grants' = grants \ {p} /\ ledger' = [ledger EXCEPT !.state = "revoked"]
        \/ grants' = grants /\ ledger' = ledger
    BY <1>1 DEF Mark
  <2> QED BY <2>3, <2>4, <2>5, <1>0, <1>1
<1>2. CASE ~(entry.there /\ (anyone \/ entry.holder = p))
  BY <1>2, <1>0 DEF Mark
<1> QED BY <1>1, <1>2

\* Where a thread goes.
LEMMA GotoShape ==
    ASSUME TypeOK, NEW p \in Procs, NEW place \in Places, Goto(p, place)
    PROVE  /\ thread' \in [Procs -> Thread]
           /\ thread'[p].at = place
           /\ place # "idle" => /\ thread'[p].occ = thread[p].occ
                                /\ thread'[p].child = thread[p].child
           /\ \A q \in Procs : q # p => thread'[q] = thread[q]
<1>1. thread \in [Procs -> Thread] BY DEF TypeOK, Thread, Places
<1>2. Idle \in Thread /\ Idle.at = "idle" BY Constants DEF Idle, Thread, Places
<1>3. [thread[p] EXCEPT !.at = place] \in Thread BY <1>1 DEF Thread
<1>4. thread' = [thread EXCEPT ![p] = IF place = "idle" THEN Idle
                                      ELSE [thread[p] EXCEPT !.at = place]]
  BY DEF Goto
<1> QED BY <1>1, <1>2, <1>3, <1>4 DEF Thread

\* Where a run goes.
LEMMA PutShape ==
    ASSUME TypeOK, NEW r \in Runs, NEW place \in Stages, Put(r, place)
    PROVE  /\ run' \in [Runs -> Run]
           /\ run'[r].at = place
           /\ place # "none" => run'[r].proc = run[r].proc /\ run'[r].occ = run[r].occ
           /\ \A s \in Runs : s # r => run'[s] = run[s]
<1>1. run \in [Runs -> Run] BY DEF TypeOK, Run, Stages
<1>2. NoRun \in Run /\ NoRun.at = "none" BY Constants DEF NoRun, Run, Stages
<1>3. [run[r] EXCEPT !.at = place] \in Run BY <1>1 DEF Run
<1>4. run' = [run EXCEPT ![r] = IF place = "none" THEN NoRun
                                ELSE [run[r] EXCEPT !.at = place]]
  BY DEF Put
<1> QED BY <1>1, <1>2, <1>3, <1>4 DEF Run

\* consume: the credit of the occurrence, spent now or before.
LEMMA SpentShape ==
    ASSUME TypeOK, RecordIsTrue, NEW occ \in Occurrences, ledger.state = "pending"
    PROVE  /\ Spent(occ) \in Record /\ Spent(occ).state # "none"
           /\ Spent(occ).state = "pending" => Standing /\ Spent(occ).used < MaxFires
           /\ Spent(occ).state # "revoked"
           /\ Standing => Spent(occ).last = occ
           /\ ~Standing => Spent(occ).used = 1
           /\ \/ Spent(occ) = ledger /\ ledger.last = occ
              \/ Standing /\ Spent(occ).used = ledger.used + 1
              \/ ~Standing
<1>1. ledger \in Record /\ ledger.used < MaxFires BY DEF TypeOK, Record, RecordIsTrue
<1>2. occ \in 0..MaxFires /\ ledger.used + 1 \in 0..MaxFires /\ 1 \in 0..MaxFires
  BY <1>1, Constants DEF Occurrences, Record
<1>3. CASE ~Standing
  <2>1. Spent(occ) = [ledger EXCEPT !.state = "started", !.used = 1]
    BY <1>3 DEF Spent
  <2> QED BY <2>1, <1>1, <1>2, <1>3 DEF Record
<1>4. CASE Standing /\ ledger.last = occ
  <2>1. Spent(occ) = ledger BY <1>4 DEF Spent
  <2> QED BY <2>1, <1>1, <1>4
<1>5. CASE Standing /\ ledger.last # occ
  <2>1. PICK state \in {"consumed", "pending"} :
          /\ Spent(occ) = [state |-> state, used |-> ledger.used + 1, last |-> occ]
          /\ state = "pending" => ~(ledger.used + 1 >= MaxFires)
    BY <1>5 DEF Spent
  <2>2. Spent(occ) \in Record BY <2>1, <1>2 DEF Record
  <2> QED BY <2>1, <2>2, <1>1, <1>2, <1>5, Constants
<1> QED BY <1>3, <1>4, <1>5

\* retry_later: the same fire, and its claim is kept or given back.
LEMMA RetryShape ==
    ASSUME TypeOK, NEW p \in Procs, DoRetry(p)
    PROVE  /\ entry' \in Entries /\ faults' \in 0..MaxFaults
           /\ faults' = 0 => faults = 0
           /\ SameFire(entry, entry') /\ Goto(p, "idle")
           /\ \/ SameClaim(entry, entry')
              \/ entry.holder \in {None, p} /\ entry'.holder = None
<1>0. entry \in Entries /\ faults \in 0..MaxFaults BY DEF TypeOK
<1>1. CASE ~Deferrable(p)
  BY <1>1, <1>0 DEF DoRetry, SameFire, SameClaim
<1>2. CASE Deferrable(p)
  <2> DEFINE given(w, h, l) == [entry EXCEPT !.wait = w, !.holder = h, !.live = l]
             w0 == IF entry.wait = "due" THEN "retry" ELSE entry.wait
  <2>1. PICK outcome \in Outcomes : Commit(outcome, given(w0, None, FALSE))
    BY <1>2 DEF DoRetry
  <2>2. w0 \in {"anchor", "retry", "due"} BY <1>0 DEF Entries
  <2>3. ASSUME NEW w \in {"anchor", "retry", "due"},
               NEW h \in Procs \union {None, Dead}, NEW l \in BOOLEAN
        PROVE  /\ given(w, h, l) \in Entries /\ SameFire(entry, given(w, h, l))
               /\ given(w, h, l).holder = h
    BY <1>0 DEF Entries, SameFire
  <2> HIDE DEF given, w0
  <2>4. LET g == given(w0, None, FALSE) IN
        g \in Entries /\ SameFire(entry, g) /\ g.holder = None
    BY <2>2, <2>3, Zenon
  <2>5. entry.holder \in {None, p} /\ Goto(p, "idle") BY <1>2 DEF Deferrable, DoRetry
  <2>6. entry' = entry \/ entry' = given(w0, None, FALSE)
    BY <2>1, <1>0, CommitShape
  <2>7. entry' \in Entries /\ faults' \in 0..MaxFaults /\ (faults' = 0 => faults = 0)
    BY <2>1, <2>4, <1>0, CommitShape
  <2> QED BY <2>4, <2>5, <2>6, <2>7 DEF SameFire, SameClaim
<1> QED BY <1>1, <1>2

\* note_wake_started: a credit is spent; unless the file's commit is lost the run
\* is admitted, and the entry is marked unless the commit is skipped.
LEMMA AdmitShape ==
    ASSUME TypeOK, RecordIsTrue, StagesAreTrue, NEW r \in Runs, Admit(r)
    PROVE  /\ run[r].at = "queued" /\ run[r].proc \in Procs
           /\ entry.there /\ entry.wake /\ ~entry.started
           /\ entry.holder = run[r].proc /\ entry.live
           /\ ledger.state = "pending" /\ Occ(entry) \in Occurrences
           /\ ledger' = Spent(Occ(entry))
           /\ entry' \in Entries /\ faults' \in 0..MaxFaults
           /\ faults' = 0 => faults = 0
           /\ SameClaim(entry, entry') /\ entry'.there /\ entry'.wake
           /\ entry'.count = entry.count /\ entry'.child = entry.child
           /\ \/ Put(r, "failing") /\ begun' = begun /\ entry' = entry
              \/ /\ Put(r, "noted") /\ begun' = [begun EXCEPT ![Occ(entry)] = @ + 1]
                 /\ entry'.started \/ "skipped" \in FaultKinds
<1>1. entry \in Entries /\ faults \in 0..MaxFaults BY DEF TypeOK
<1>2. /\ run[r].at = "queued" /\ run[r].proc \in Procs
      /\ Admissible(run[r].proc)
      /\ ledger' = Spent(Occ(entry))
  BY DEF Admit, StagesAreTrue
<1>3. /\ entry.there /\ entry.wake /\ ~entry.started
      /\ entry.holder = run[r].proc /\ entry.live /\ ledger.state = "pending"
  BY <1>2 DEF Admissible
<1>4. Occ(entry) \in Occurrences
  BY <1>1, <1>3, Constants DEF Occ, Occurrences, RecordIsTrue, Entries
<1>5. ledger' \in Record BY <1>2, <1>3, <1>4, SpentShape
<1> DEFINE marked(st, u) == [entry EXCEPT !.started = st, !.used = u]
           used == IF Standing THEN ledger'.used ELSE entry.used
<1>6. PICK outcome \in Outcomes :
        /\ Commit(outcome, marked(TRUE, used))
        /\ IF Raises(outcome)
           THEN Put(r, "failing") /\ UNCHANGED begun
           ELSE Put(r, "noted") /\ begun' = [begun EXCEPT ![Occ(entry)] = @ + 1]
  BY DEF Admit
<1>7. used \in 0..MaxFires BY <1>1, <1>5 DEF Entries, Record
<1>8. ASSUME NEW st \in BOOLEAN, NEW u \in 0..MaxFires
      PROVE  LET m == marked(st, u) IN
             /\ m \in Entries /\ SameClaim(entry, m) /\ m.started = st
             /\ m.there = entry.there /\ m.wake = entry.wake
             /\ m.count = entry.count /\ m.child = entry.child
  BY <1>1 DEF Entries, SameClaim
<1> HIDE DEF marked, used
<1>9. LET m == marked(TRUE, used) IN
      /\ m \in Entries /\ SameClaim(entry, m) /\ m.started = TRUE
      /\ m.there = entry.there /\ m.wake = entry.wake
      /\ m.count = entry.count /\ m.child = entry.child
  BY <1>7, <1>8, Zenon
<1>10. /\ entry' = entry \/ entry' = marked(TRUE, used)
       /\ outcome = "ok" => entry' = marked(TRUE, used)
       /\ outcome # "ok" => entry' = entry /\ outcome \in FaultKinds
       /\ outcome \in {"ok", "lost", "skipped"}
       /\ faults' \in 0..MaxFaults /\ (faults' = 0 => faults = 0)
  BY <1>6, <1>1, CommitShape
<1>11. SameClaim(entry, entry) BY DEF SameClaim
<1> QED BY <1>1, <1>2, <1>3, <1>4, <1>6, <1>9, <1>10, <1>11 DEF Raises

-----------------------------------------------------------------------------
\* The type

Typed == /\ entry \in Entries /\ ledger \in Record /\ grants \subseteq Procs
         /\ thread \in [Procs -> Thread] /\ run \in [Runs -> Run]
         /\ event \in Procs \union {None} /\ expired \in BOOLEAN
         /\ arming \subseteq Rearming
         /\ cancelled \in BOOLEAN /\ overrun \in BOOLEAN
         /\ begun \in [Occurrences -> Nat]
         /\ worked \subseteq Occurrences /\ notified \subseteq Occurrences
         /\ faults \in 0..MaxFaults /\ crashes \in 0..MaxCrashes

LEMMA TypeIs == (TypeOK <=> Typed) /\ (TypeOK' <=> Typed')
BY DEF TypeOK, Typed, Record, Thread, Run, Places, Stages

LEMMA TypeInit == Init => TypeOK /\ RecordIsTrue /\ StagesAreTrue
<1> SUFFICES ASSUME Init PROVE Typed /\ RecordIsTrue /\ StagesAreTrue
  BY TypeIs
<1>1. entry = Gone([count |-> 0]) BY DEF Init
<1>2. entry \in Entries /\ ~entry.there
  <2> DEFINE e == [count |-> 0]
  <2>1. e.count \in 0..MaxFires BY Constants
  <2>2. entry = Gone(e) BY <1>1
  <2> HIDE DEF e
  <2> QED BY <2>1, <2>2, GoneShape
<1>3. /\ ledger \in Record /\ ledger.state = "none"
      /\ thread \in [Procs -> Thread] /\ run \in [Runs -> Run]
  BY Constants DEF Init, NoRecord, Idle, NoRun, Record, Thread, Run, Places, Stages
<1>4. Typed
  <2>1. /\ event = None /\ expired = FALSE /\ cancelled = FALSE /\ overrun = FALSE
        /\ worked = {} /\ notified = {} /\ grants = {} /\ faults = 0 /\ crashes = 0
        /\ begun = [o \in Occurrences |-> 0]
    BY DEF Init
  <2>2. begun \in [Occurrences -> Nat] BY <2>1
  <2>3. expired \in BOOLEAN /\ cancelled \in BOOLEAN /\ overrun \in BOOLEAN
    BY <2>1
  <2>4. faults \in 0..MaxFaults /\ crashes \in 0..MaxCrashes BY <2>1, Constants
  <2>5. /\ grants \subseteq Procs
        /\ worked \subseteq Occurrences /\ notified \subseteq Occurrences
        /\ event \in Procs \union {None}
    BY <2>1
  <2>6. arming \subseteq Rearming BY DEF Init
  <2> QED BY <1>2, <1>3, <2>2, <2>3, <2>4, <2>5, <2>6 DEF Typed
<1>5. RecordIsTrue BY <1>2, <1>3 DEF Init, RecordIsTrue, Idle, NoRun
<1>6. StagesAreTrue BY DEF Init, StagesAreTrue, Idle, NoRun
<1> QED BY <1>4, <1>5, <1>6

\* Commits of a value that is an entry.
LEMMA CommitTyped ==
    ASSUME TypeOK, NEW outcome \in Outcomes, NEW changed \in Entries,
           Commit(outcome, changed)
    PROVE  entry' \in Entries /\ faults' \in 0..MaxFaults /\ (faults' = 0 => faults = 0)
BY CommitShape DEF TypeOK

LEMMA HumanTyped ==
    ASSUME TypeOK, RecordIsTrue, StagesAreTrue, NEW p \in Procs, Human(p)
    PROVE  TypeOK'
<1>0. Typed BY TypeIs
<1>00. entry.count \in 0..MaxFires BY <1>0 DEF Typed, Entries
<1>1. CASE Add(p)
  <2>1. PICK outcome \in Outcomes :
          /\ Commit(outcome, Fresh(p))
          /\ ledger' = IF Raises(outcome) THEN [Pending EXCEPT !.state = "revoked"]
                       ELSE Pending
          /\ grants' = IF Raises(outcome) THEN {} ELSE {p}
    BY <1>1 DEF Add
  <2>2. entry' \in Entries /\ faults' \in 0..MaxFaults
    BY <2>1, FreshShape, CommitTyped
  <2>3. ledger' \in Record BY <2>1, Constants DEF Pending, Record
  <2> QED BY <2>1, <2>2, <2>3, <1>0, <1>1, TypeIs DEF Add, history, Typed
<1>2. ASSUME NEW outcome \in Outcomes, Remove(p, outcome)
      PROVE  /\ entry' \in Entries /\ faults' \in 0..MaxFaults
             /\ ledger' \in Record /\ grants' \subseteq Procs
  <2>1. Commit(outcome, Gone(entry)) BY <1>2 DEF Remove
  <2>2. entry' \in Entries /\ faults' \in 0..MaxFaults
    BY <2>1, <1>00, GoneShape, CommitTyped
  <2> QED BY <2>2, <1>2, <1>0 DEF Remove, Typed, Record
<1>3. CASE Cancel(p)
  <2>1. PICK outcome \in Outcomes : Remove(p, outcome) BY <1>3 DEF Cancel
  <2>2. cancelled' = TRUE BY <2>1 DEF Remove
  <2> QED BY <2>1, <2>2, <1>2, <1>3, <1>0, TypeIs DEF Cancel, Typed
<1>4. CASE RevokeGrant(p)
  <2> DEFINE changed(w, st, o, u) == [entry EXCEPT !.wake = w, !.started = st,
                                                   !.owner = o, !.used = u]
  <2>1. PICK outcome \in Outcomes : Commit(outcome, changed(FALSE, FALSE, None, 0))
    BY <1>4 DEF RevokeGrant
  <2>2. ASSUME NEW w \in BOOLEAN, NEW st \in BOOLEAN,
               NEW o \in Procs \union {None, Dead}, NEW u \in 0..MaxFires
        PROVE  changed(w, st, o, u) \in Entries
    BY <1>0 DEF Typed, Entries
  <2>3. FALSE \in BOOLEAN /\ None \in Procs \union {None, Dead} /\ 0 \in 0..MaxFires
    BY Constants
  <2> HIDE DEF changed
  <2>4. changed(FALSE, FALSE, None, 0) \in Entries BY <2>2, <2>3, Zenon
  <2>5. entry' \in Entries /\ faults' \in 0..MaxFaults BY <2>1, <2>4, CommitTyped
  <2>6. ledger' \in Record BY <1>4, <1>0 DEF RevokeGrant, Typed, Record
  <2> QED BY <2>5, <2>6, <1>4, <1>0, TypeIs DEF RevokeGrant, history, Typed
<1>5. CASE Rearm(p)
  <2> DEFINE changed(r, w) == [entry EXCEPT !.owner = p, !.retries = r, !.wait = w]
  <2>1. PICK outcome \in Outcomes, soon \in {entry.wait, "anchor"} :
          Commit(outcome, changed(0, IF entry.ripe THEN "due" ELSE soon))
    BY <1>5 DEF Rearm
  <2>2. ASSUME NEW r \in 0..MaxRetries, NEW w \in {"anchor", "retry", "due"}
        PROVE  changed(r, w) \in Entries
    BY <1>0 DEF Typed, Entries
  <2>3. /\ 0 \in 0..MaxRetries
        /\ (IF entry.ripe THEN "due" ELSE soon) \in {"anchor", "retry", "due"}
    BY <1>0, Constants DEF Typed, Entries
  <2> HIDE DEF changed
  <2>4. changed(0, IF entry.ripe THEN "due" ELSE soon) \in Entries BY <2>2, <2>3
  <2>5. entry' \in Entries /\ faults' \in 0..MaxFaults BY <2>1, <2>4, CommitTyped
  <2>6. ledger' \in Record BY <1>5, <1>0, Constants DEF Rearm, Typed, Record
  <2>7. grants' \subseteq Procs BY <1>5, <1>0 DEF Rearm, Typed
  <2> QED BY <2>5, <2>6, <2>7, <1>5, <1>0, TypeIs DEF Rearm, history, Typed
<1>6. CASE RearmLooks(p) \/ RearmFails(p)
  BY <1>6, <1>0, TypeIs DEF RearmLooks, RearmFails, history, Typed
<1> QED BY <1>1, <1>3, <1>4, <1>5, <1>6 DEF Human

\* claim_due: the entry's fire stays, and its claim changes only if it had run
\* out, with the thread that takes it (unless the commit is skipped).
LEMMA ClaimShape ==
    ASSUME TypeOK, RecordIsTrue, NEW p \in Procs, Claim(p)
    PROVE  /\ entry' \in Entries /\ faults' \in 0..MaxFaults
           /\ faults' = 0 => faults = 0
           /\ SameFire(entry, entry') /\ entry.there
           /\ grants' \subseteq Procs
           /\ thread' \in [Procs -> Thread]
           /\ \A q \in Procs : q # p => thread'[q] = thread[q]
           /\ \/ thread' = thread /\ SameClaim(entry, entry')
              \/ /\ ~entry.live
                 /\ thread'[p].at = "claimed" /\ thread'[p].occ = Occ(entry)
                 /\ thread'[p].child = entry.child
                 /\ \/ entry'.holder = p /\ entry'.live
                    \/ SameClaim(entry, entry') /\ "skipped" \in FaultKinds
<1> DEFINE recovers == /\ entry.wake /\ ~entry.started /\ ~OwnedElsewhere(p)
                       /\ p \notin grants /\ ledger.state = "pending"
           found == [entry EXCEPT !.owner = IF recovers THEN p ELSE @,
                                  !.armed = @ /\ ~Triggered(p)]
           claimed == [found EXCEPT !.holder = p, !.live = TRUE]
           theirs == [at |-> "claimed", wake |-> found.wake, occ |-> Occ(found),
                      child |-> found.child]
<1>1. Typed BY TypeIs
<1>2. PICK o \in Procs \union {None, Dead} : found =
        [entry EXCEPT !.owner = o, !.armed = entry.armed /\ ~Triggered(p)]
  <2>1. entry.owner \in Procs \union {None, Dead} BY <1>1 DEF Typed, Entries
  <2> QED BY <2>1
<1>3. (entry.armed /\ ~Triggered(p)) \in BOOLEAN OBVIOUS
<1>4. found \in Entries /\ SameFire(entry, found) /\ SameClaim(entry, found)
  <2> DEFINE f(a) == [entry EXCEPT !.owner = o, !.armed = a]
  <2>1. \A a \in BOOLEAN :
          f(a) \in Entries /\ SameFire(entry, f(a)) /\ SameClaim(entry, f(a))
    BY <1>1 DEF Typed, Entries, SameFire, SameClaim
  <2>2. found = f(entry.armed /\ ~Triggered(p)) BY <1>2
  <2> HIDE DEF f, found
  <2> QED BY <2>1, <2>2, <1>3, Zenon
<1> HIDE DEF found
<1>5. /\ claimed \in Entries /\ SameFire(entry, claimed)
      /\ claimed.holder = p /\ claimed.live
  BY <1>4 DEF Entries, SameFire
<1>6. /\ thread[p].at = "idle" /\ entry.there
      /\ grants' = IF recovers THEN grants \union {p} ELSE grants
      /\ \E outcome \in Outcomes :
          /\ Commit(outcome, IF Claimable(p) THEN claimed ELSE found)
          /\ thread' = IF Claimable(p) /\ ~Raises(outcome)
                       THEN [thread EXCEPT ![p] = theirs] ELSE thread
  BY DEF Claim, found
<1>7. entry.count < MaxFires BY <1>6 DEF RecordIsTrue
<1>8. theirs \in Thread /\ theirs.occ = Occ(entry) /\ theirs.child = entry.child
  BY <1>4, <1>7, <1>1, Constants DEF Typed, Entries, Thread, Places, SameFire, Occ
<1>9. theirs.at = "claimed" OBVIOUS
<1> HIDE DEF claimed, theirs
<1>10. PICK outcome \in Outcomes :
          /\ Commit(outcome, IF Claimable(p) THEN claimed ELSE found)
          /\ thread' = IF Claimable(p) /\ ~Raises(outcome)
                       THEN [thread EXCEPT ![p] = theirs] ELSE thread
  BY <1>6
<1>11. /\ entry' \in Entries /\ faults' \in 0..MaxFaults
       /\ faults' = 0 => faults = 0
       /\ SameFire(entry, entry')
  BY <1>10, <1>4, <1>5, CommitTyped, CommitShape, <1>1 DEF SameFire, Typed
<1>12. grants' \subseteq Procs BY <1>6, <1>1 DEF Typed
<1>13. /\ outcome = "ok" => entry' = IF Claimable(p) THEN claimed ELSE found
       /\ outcome # "ok" => entry' = entry /\ outcome \in FaultKinds
       /\ outcome \in {"ok", "lost", "skipped"}
  BY <1>10, CommitShape, <1>1 DEF Typed
<1>14. CASE Claimable(p) /\ ~Raises(outcome)
  <2>1. ~entry.live BY <1>14 DEF Claimable
  <2>2. thread' = [thread EXCEPT ![p] = theirs] BY <1>10, <1>14
  <2>3. /\ thread' \in [Procs -> Thread] /\ thread'[p] = theirs
        /\ \A q \in Procs : q # p => thread'[q] = thread[q]
    BY <2>2, <1>8, <1>1 DEF Typed
  <2>4. \/ entry'.holder = p /\ entry'.live
        \/ SameClaim(entry, entry') /\ "skipped" \in FaultKinds
    BY <1>13, <1>14, <1>5 DEF Raises, SameClaim
  <2> QED BY <2>1, <2>3, <2>4, <1>8, <1>9, <1>11, <1>12, <1>6
<1>15. CASE ~(Claimable(p) /\ ~Raises(outcome))
  <2>1. thread' = thread BY <1>10, <1>15
  <2>2. SameClaim(entry, entry') BY <1>13, <1>15, <1>4 DEF Raises, SameClaim
  <2> QED BY <2>1, <2>2, <1>1, <1>11, <1>12, <1>6 DEF Typed
<1> QED BY <1>14, <1>15

\* The delivery queues a run for the occurrence it claimed, or gives up; the
\* entry keeps all but the note of its child.
LEMMA StartShape ==
    ASSUME TypeOK, StagesAreTrue, NEW p \in Procs, Start(p)
    PROVE  /\ entry' \in Entries /\ faults' \in 0..MaxFaults
           /\ faults' = 0 => faults = 0
           /\ SameClaim(entry, entry')
           /\ entry'.there = entry.there /\ entry'.count = entry.count
           /\ entry'.wake = entry.wake /\ entry'.started = entry.started
           /\ thread[p].at = "claimed" /\ p \notin CannotRun /\ ~PreviousRuns(p)
           /\ \E place \in {"idle", "defer", "retry"} : Goto(p, place)
           /\ \/ run' = run /\ entry' = entry
              \/ \E r \in Runs :
                   /\ run[r].at = "none" /\ Goto(p, "idle")
                   /\ run' = [run EXCEPT ![r] =
                        [at |-> "queued", proc |-> p, occ |-> thread[p].occ]]
                   /\ \/ entry' = entry
                      \/ entry' = [entry EXCEPT !.child = r]
                   /\ Standing /\ faults' = 0 /\ entry.there /\ entry.holder = p
                        => entry'.child = r
<1>1. Typed BY TypeIs
<1>2. thread[p].at = "claimed" /\ p \notin CannotRun /\ ~PreviousRuns(p)
  BY DEF Start, MustNotify
<1>3. ASSUME NEW r \in Unused, NEW outcome \in Outcomes,
             Commit(outcome, IF Standing /\ entry.there /\ entry.holder = p
                             THEN [entry EXCEPT !.child = r] ELSE entry),
             run' = [run EXCEPT ![r] =
                 [at |-> "queued", proc |-> p, occ |-> thread[p].occ]],
             Goto(p, "idle")
      PROVE  /\ entry' \in Entries /\ faults' \in 0..MaxFaults
             /\ faults' = 0 => faults = 0
             /\ SameClaim(entry, entry')
             /\ entry'.there = entry.there /\ entry'.count = entry.count
             /\ entry'.wake = entry.wake /\ entry'.started = entry.started
             /\ r \in Runs /\ run[r].at = "none"
             /\ \/ entry' = entry
                \/ entry' = [entry EXCEPT !.child = r]
             /\ Standing /\ faults' = 0 /\ entry.there /\ entry.holder = p
                  => entry'.child = r
  <2>1. r \in Runs /\ run[r].at = "none" BY DEF Unused
  <2> DEFINE noted == [entry EXCEPT !.child = r]
  <2>2. /\ noted \in Entries /\ SameClaim(entry, noted) /\ noted.child = r
        /\ noted.there = entry.there /\ noted.count = entry.count
        /\ noted.wake = entry.wake /\ noted.started = entry.started
    BY <2>1, <1>1 DEF Typed, Entries, SameClaim
  <2> HIDE DEF noted
  <2>3. Commit(outcome, IF Standing /\ entry.there /\ entry.holder = p
                        THEN noted ELSE entry)
    BY <1>3 DEF noted
  <2>4. (IF Standing /\ entry.there /\ entry.holder = p THEN noted ELSE entry) \in Entries
    BY <2>2, <1>1 DEF Typed
  <2>5. /\ entry' \in Entries /\ faults' \in 0..MaxFaults
        /\ faults' = 0 => faults = 0
        /\ entry' = entry \/ entry' = noted
        /\ Standing /\ faults' = 0 /\ entry.there /\ entry.holder = p => entry' = noted
    BY <2>3, <2>4, CommitTyped, CommitShape, <1>1 DEF Typed
  <2>6. entry' = entry \/ entry' = [entry EXCEPT !.child = r] BY <2>5 DEF noted
  <2> QED BY <2>1, <2>2, <2>5, <2>6 DEF SameClaim
<1>4. \/ /\ \E place \in {"idle", "defer", "retry"} : Goto(p, place)
         /\ run' = run /\ entry' = entry
         /\ faults' \in 0..MaxFaults /\ (faults' = 0 => faults = 0)
      \/ \E r \in Unused, outcome \in Outcomes :
           /\ Commit(outcome, IF Standing /\ entry.there /\ entry.holder = p
                              THEN [entry EXCEPT !.child = r] ELSE entry)
           /\ run' = [run EXCEPT ![r] =
                [at |-> "queued", proc |-> p, occ |-> thread[p].occ]]
           /\ Goto(p, "idle")
  <2>1. CASE "lost" \in Outcomes /\ Commit("lost", entry) /\ Goto(p, "retry") /\ UNCHANGED run
    BY <2>1, CommitShape, <1>1 DEF Typed
  <2>2. CASE Goto(p, "defer") /\ UNCHANGED <<entry, run, faults>>
    BY <2>2, <1>1 DEF Typed
  <2> QED BY <2>1, <2>2 DEF Start
<1>5. CASE \E r \in Unused, outcome \in Outcomes :
           /\ Commit(outcome, IF Standing /\ entry.there /\ entry.holder = p
                              THEN [entry EXCEPT !.child = r] ELSE entry)
           /\ run' = [run EXCEPT ![r] =
                [at |-> "queued", proc |-> p, occ |-> thread[p].occ]]
           /\ Goto(p, "idle")
  BY <1>2, <1>3, <1>5
<1>6. CASE /\ \E place \in {"idle", "defer", "retry"} : Goto(p, place)
           /\ run' = run /\ entry' = entry
           /\ faults' \in 0..MaxFaults /\ (faults' = 0 => faults = 0)
  BY <1>2, <1>6, <1>1 DEF Typed, SameClaim
<1> QED BY <1>4, <1>5, <1>6

LEMMA TickTyped ==
    ASSUME TypeOK, RecordIsTrue, StagesAreTrue, NEW p \in Procs, Tick(p)
    PROVE  TypeOK'
<1>0. Typed BY TypeIs
<1>1. CASE Claim(p)
  BY <1>1, <1>0, ClaimShape, TypeIs DEF Claim, history, Typed
<1>2. CASE ChooseNotify(p)
  <2>1. thread' \in [Procs -> Thread] BY <1>2, GotoShape DEF ChooseNotify, Places
  <2> QED BY <2>1, <1>2, <1>0, TypeIs DEF ChooseNotify, history, Typed
<1>3. CASE ChooseCancel(p)
  <2>1. PICK outcome \in Outcomes :
          IF Raises(outcome)
          THEN /\ Commit(outcome, entry)
               /\ Goto(p, "retry") /\ UNCHANGED <<ledger, grants, cancelled>>
          ELSE Remove(p, outcome) /\ Goto(p, "idle")
    BY <1>3 DEF ChooseCancel
  <2>2. entry.count \in 0..MaxFires BY <1>0 DEF Typed, Entries
  <2>3. PICK changed \in {entry, Gone(entry)} : Commit(outcome, changed)
    BY <2>1 DEF Remove
  <2>4. entry' \in Entries /\ faults' \in 0..MaxFaults
    BY <2>2, <2>3, <1>0, GoneShape, CommitTyped DEF Typed
  <2>5. Goto(p, "retry") \/ Goto(p, "idle") BY <2>1
  <2>6. thread' \in [Procs -> Thread] BY <2>5, GotoShape DEF Places
  <2>7. /\ ledger' = ledger \/ ledger' = [ledger EXCEPT !.state = "revoked"]
        /\ grants' \subseteq grants /\ cancelled' \in BOOLEAN
    BY <2>1, <1>0 DEF Remove, Typed
  <2>8. ledger' \in Record /\ grants' \subseteq Procs BY <2>7, <1>0 DEF Typed, Record
  <2> QED BY <2>4, <2>6, <2>7, <2>8, <1>3, <1>0, TypeIs DEF ChooseCancel, Typed
<1>4. CASE ChooseDefer(p)
  <2>1. thread' \in [Procs -> Thread] BY <1>4, GotoShape DEF ChooseDefer, Places
  <2> QED BY <2>1, <1>4, <1>0, TypeIs DEF ChooseDefer, history, Typed
<1>5. CASE Start(p)
  <2>1. PICK place \in {"idle", "defer", "retry"} : Goto(p, place)
    BY <1>5, StartShape
  <2>2. thread' \in [Procs -> Thread] BY <2>1, GotoShape DEF Places
  <2>3. run' \in [Runs -> Run]
    <3>1. thread[p].occ \in 0..MaxFires BY <1>0 DEF Typed, Thread
    <3>2. [at |-> "queued", proc |-> p, occ |-> thread[p].occ] \in Run
      BY <3>1 DEF Run, Stages
    <3> DEFINE new == [at |-> "queued", proc |-> p, occ |-> thread[p].occ]
    <3>3. run' = run \/ \E r \in Runs : run' = [run EXCEPT ![r] = new]
      BY <1>5, StartShape
    <3>4. new \in Run BY <3>2
    <3> HIDE DEF new
    <3> QED BY <3>3, <3>4, <1>0 DEF Typed
  <2>4. entry' \in Entries /\ faults' \in 0..MaxFaults BY <1>5, StartShape
  <2> QED BY <2>2, <2>3, <2>4, <1>5, <1>0, TypeIs DEF Start, history, Typed
<1>6. CASE DoDefer(p)
  <2>1. PICK outcome \in Outcomes, next \in {"retry", "notify", "idle"} :
          Defer(p, outcome, next, "retry", "notify", "idle") /\ Goto(p, next)
    BY <1>6 DEF DoDefer
  <2>2. entry' \in Entries /\ faults' \in 0..MaxFaults BY <2>1, DeferShape
  <2>3. thread' \in [Procs -> Thread] BY <2>1, GotoShape DEF Places
  <2> QED BY <2>2, <2>3, <1>6, <1>0, TypeIs DEF DoDefer, history, Typed
<1>7. CASE DoNotify(p)
  <2>1. \/ /\ notified' = notified \union {thread[p].occ}
           /\ Goto(p, "ack") /\ faults' = faults
        \/ /\ "lost" \in Outcomes
           /\ Goto(p, "retry") /\ faults' = faults + 1 /\ notified' = notified
    BY <1>7 DEF DoNotify
  <2>2. thread' \in [Procs -> Thread] BY <2>1, GotoShape DEF Places
  <2>3. faults' \in 0..MaxFaults
    BY <2>1, <1>0, Constants DEF Typed, Outcomes
  <2>4. thread[p].occ \in Occurrences BY <1>7 DEF DoNotify, StagesAreTrue
  <2>5. notified' \subseteq Occurrences BY <2>1, <2>4, <1>0 DEF Typed
  <2> QED BY <2>2, <2>3, <2>5, <1>7, <1>0, TypeIs DEF DoNotify, Typed
<1>8. CASE DoAck(p)
  <2>1. PICK outcome \in Outcomes :
          /\ Mark(p, FALSE, outcome)
          /\ Goto(p, IF Raises(outcome) THEN "retry" ELSE "idle")
    BY <1>8 DEF DoAck
  <2>2. /\ entry' \in Entries /\ faults' \in 0..MaxFaults /\ grants' \subseteq grants
        /\ ledger' = ledger \/ ledger' = [ledger EXCEPT !.state = "revoked"]
    BY <2>1, MarkShape
  <2>3. thread' \in [Procs -> Thread]
    <3>1. Goto(p, "retry") \/ Goto(p, "idle") BY <2>1
    <3> QED BY <3>1, GotoShape DEF Places
  <2>4. ledger' \in Record /\ grants' \subseteq Procs BY <2>2, <1>0 DEF Typed, Record
  <2> QED BY <2>2, <2>3, <2>4, <1>8, <1>0, TypeIs DEF DoAck, history, Typed
<1>9. CASE DoRetry(p)
  <2>1. entry' \in Entries /\ faults' \in 0..MaxFaults /\ Goto(p, "idle")
    BY <1>9, RetryShape
  <2>2. thread' \in [Procs -> Thread] BY <2>1, GotoShape DEF Places
  <2> QED BY <2>1, <2>2, <1>9, <1>0, TypeIs DEF DoRetry, history, Typed
<1> QED BY <1>1, <1>2, <1>3, <1>4, <1>5, <1>6, <1>7, <1>8, <1>9 DEF Tick

LEMMA WorkTyped ==
    ASSUME TypeOK, RecordIsTrue, StagesAreTrue, NEW r \in Runs, Work(r)
    PROVE  TypeOK'
<1>0. Typed BY TypeIs
<1>1. CASE Refuse(r)
  <2>1. run' \in [Runs -> Run] BY <1>1, PutShape DEF Refuse, Stages
  <2> QED BY <2>1, <1>1, <1>0, TypeIs DEF Refuse, history, Typed
<1>2. CASE Admit(r)
  <2>1. Put(r, "failing") \/ Put(r, "noted") BY <1>2, AdmitShape
  <2>2. run' \in [Runs -> Run] BY <2>1, PutShape DEF Stages
  <2>3. /\ entry' \in Entries /\ faults' \in 0..MaxFaults
        /\ begun' = begun \/ begun' = [begun EXCEPT ![Occ(entry)] = @ + 1]
        /\ Occ(entry) \in Occurrences
        /\ ledger' = Spent(Occ(entry)) /\ ledger.state = "pending"
    BY <1>2, AdmitShape
  <2>4. ledger' \in Record BY <2>3, SpentShape
  <2>5. begun' \in [Occurrences -> Nat] BY <2>3, <1>0 DEF Typed
  <2> QED BY <2>2, <2>3, <2>4, <2>5, <1>2, <1>0, TypeIs DEF Admit, Typed
<1>3. CASE MarkStarted(r)
  <2>1. PICK outcome \in Outcomes :
          /\ Mark(run[r].proc, FALSE, outcome)
          /\ Put(r, IF Raises(outcome) THEN "none" ELSE "running")
    BY <1>3 DEF MarkStarted
  <2>2. /\ entry' \in Entries /\ faults' \in 0..MaxFaults /\ grants' \subseteq grants
        /\ ledger' = ledger \/ ledger' = [ledger EXCEPT !.state = "revoked"]
    BY <2>1, MarkShape
  <2>3. Put(r, "none") \/ Put(r, "running") BY <2>1
  <2>4. run' \in [Runs -> Run] BY <2>3, PutShape DEF Stages
  <2>5. ledger' \in Record /\ grants' \subseteq Procs BY <2>2, <1>0 DEF Typed, Record
  <2>6. worked' \subseteq Occurrences
    BY <1>3, <1>0 DEF MarkStarted, StagesAreTrue, Typed
  <2> QED BY <2>2, <2>4, <2>5, <2>6, <1>3, <1>0, TypeIs DEF MarkStarted, Typed
<1>4. CASE RunEnds(r)
  <2>1. run' \in [Runs -> Run] BY <1>4, PutShape DEF RunEnds, Stages
  <2> QED BY <2>1, <1>4, <1>0, TypeIs DEF RunEnds, history, Typed
<1>5. CASE Terminal(r)
  <2>1. PICK outcome \in Outcomes, next \in {"none", "giving_up"} :
          Defer(run[r].proc, outcome, next, "none", "giving_up", "none") /\ Put(r, next)
    BY <1>5 DEF Terminal
  <2>2. entry' \in Entries /\ faults' \in 0..MaxFaults BY <2>1, DeferShape
  <2>3. run' \in [Runs -> Run] BY <2>1, PutShape DEF Stages
  <2> QED BY <2>2, <2>3, <1>5, <1>0, TypeIs DEF Terminal, history, Typed
<1>6. CASE GiveUp(r)
  <2>1. \/ /\ notified' = notified \union {run[r].occ}
           /\ Put(r, "closing") /\ faults' = faults
        \/ /\ "lost" \in Outcomes
           /\ Put(r, "none") /\ faults' = faults + 1 /\ notified' = notified
    BY <1>6 DEF GiveUp
  <2>2. run' \in [Runs -> Run] BY <2>1, PutShape DEF Stages
  <2>3. faults' \in 0..MaxFaults
    BY <2>1, <1>0, Constants DEF Typed, Outcomes
  <2>4. run[r].occ \in Occurrences BY <1>6 DEF GiveUp, StagesAreTrue
  <2>5. notified' \subseteq Occurrences BY <2>1, <2>4, <1>0 DEF Typed
  <2> QED BY <2>2, <2>3, <2>5, <1>6, <1>0, TypeIs DEF GiveUp, Typed
<1>7. CASE Close(r)
  <2>1. PICK outcome \in Outcomes : Mark(run[r].proc, TRUE, outcome)
    BY <1>7 DEF Close
  <2>2. /\ entry' \in Entries /\ faults' \in 0..MaxFaults /\ grants' \subseteq grants
        /\ ledger' = ledger \/ ledger' = [ledger EXCEPT !.state = "revoked"]
    BY <2>1, MarkShape
  <2>3. run' \in [Runs -> Run] BY <1>7, PutShape DEF Close, Stages
  <2>4. ledger' \in Record /\ grants' \subseteq Procs BY <2>2, <1>0 DEF Typed, Record
  <2> QED BY <2>2, <2>3, <2>4, <1>7, <1>0, TypeIs DEF Close, history, Typed
<1> QED BY <1>1, <1>2, <1>3, <1>4, <1>5, <1>6, <1>7 DEF Work

\* What a crash leaves: the file's entry without its process, no thread, no run.
LEMMA FallenShape ==
    ASSUME TypeOK, NEW p \in Procs, Fallen(p)
    PROVE  /\ entry' \in Entries /\ SameFire(entry, entry')
           /\ entry'.live = entry.live
           /\ \/ entry.holder = p /\ entry'.holder = Dead
              \/ entry.holder # p /\ entry'.holder = entry.holder
           /\ grants' \subseteq Procs
           /\ thread' \in [Procs -> Thread] /\ thread'[p] = Idle
           /\ \A q \in Procs : q # p => thread'[q] = thread[q]
           /\ run' \in [Runs -> Run]
           /\ \A r \in Runs : run'[r] = IF run[r].proc = p THEN NoRun ELSE run[r]
           /\ crashes' \in 0..MaxCrashes /\ event' \in Procs \union {None}
           /\ arming' \subseteq Rearming
           /\ UNCHANGED <<expired, history, faults>>
<1>0. Typed BY TypeIs
<1> DEFINE left(h, o) == [entry EXCEPT !.holder = h, !.owner = o]
           h0 == IF entry.holder = p THEN Dead ELSE entry.holder
           o0 == IF entry.owner = p THEN Dead ELSE entry.owner
<1>1. entry' = left(h0, o0) BY DEF Fallen
<1>2. h0 \in Procs \union {None, Dead} /\ o0 \in Procs \union {None, Dead}
  BY <1>0 DEF Typed, Entries
<1>3. ASSUME NEW h \in Procs \union {None, Dead}, NEW o \in Procs \union {None, Dead}
      PROVE  /\ left(h, o) \in Entries /\ SameFire(entry, left(h, o))
             /\ left(h, o).live = entry.live /\ left(h, o).holder = h
  BY <1>0 DEF Typed, Entries, SameFire
<1> HIDE DEF left
<1>4. /\ entry' \in Entries /\ SameFire(entry, entry')
      /\ entry'.live = entry.live /\ entry'.holder = h0
  BY <1>1, <1>2, <1>3
<1>5. Idle \in Thread BY Constants DEF Idle, Thread, Places
<1>6. NoRun \in Run BY Constants DEF NoRun, Run, Stages
<1>7. /\ thread' \in [Procs -> Thread] /\ thread'[p] = Idle
      /\ \A q \in Procs : q # p => thread'[q] = thread[q]
  BY <1>0, <1>5 DEF Fallen, Typed
<1>8. /\ run' \in [Runs -> Run]
      /\ \A r \in Runs : run'[r] = IF run[r].proc = p THEN NoRun ELSE run[r]
  BY <1>0, <1>6 DEF Fallen, Typed
<1>9. crashes' \in 0..MaxCrashes BY <1>0, Constants DEF Fallen, Typed
<1> QED BY <1>4, <1>7, <1>8, <1>9, <1>0 DEF Fallen, Typed

\* Time alone, and a re-arm that looks or fails: the fire stays, and so does its
\* claim unless it runs out.
Time == \/ AnchorPasses \/ RetryPasses \/ LeaseExpires \/ GrantExpires \/ JobEnds
        \/ \E p \in Procs : RearmLooks(p) \/ RearmFails(p)

LEMMA TimeShape ==
    ASSUME TypeOK, Time
    PROVE  /\ entry' \in Entries /\ SameFire(entry, entry')
           /\ entry'.holder = entry.holder
           /\ event' \in Procs \union {None} /\ expired' \in BOOLEAN
           /\ \/ entry'.live = entry.live /\ overrun' = overrun
              \/ overrun' = (overrun \/ Delivering(entry.holder))
           /\ UNCHANGED <<ledger, grants, thread, run, begun, worked, notified,
                          cancelled, faults, crashes>>
<1>0. Typed BY TypeIs
<1>1. CASE AnchorPasses
  <2> DEFINE past(b, w) == [entry EXCEPT !.ripe = b, !.wait = w]
             w0 == IF entry.wait = "anchor" THEN "due" ELSE entry.wait
  <2>1. entry' = past(TRUE, w0) BY <1>1 DEF AnchorPasses
  <2>2. ASSUME NEW b \in BOOLEAN, NEW w \in {"anchor", "retry", "due"}
        PROVE  /\ past(b, w) \in Entries /\ SameFire(entry, past(b, w))
               /\ SameClaim(entry, past(b, w))
    BY <1>0 DEF Typed, Entries, SameFire, SameClaim
  <2>3. w0 \in {"anchor", "retry", "due"} /\ TRUE \in BOOLEAN
    BY <1>0 DEF Typed, Entries
  <2> HIDE DEF past, w0
  <2>4. LET e == past(TRUE, w0) IN
        e \in Entries /\ SameFire(entry, e) /\ SameClaim(entry, e)
    BY <2>2, <2>3, Zenon
  <2> QED BY <2>1, <2>4, <1>1, <1>0 DEF AnchorPasses, history, SameClaim, Typed
<1>2. CASE RetryPasses
  <2>1. /\ entry' \in Entries /\ SameFire(entry, entry') /\ SameClaim(entry, entry')
    BY <1>2, <1>0 DEF RetryPasses, Typed, Entries, SameFire, SameClaim
  <2> QED BY <2>1, <1>2, <1>0 DEF RetryPasses, history, SameClaim, Typed
<1>3. CASE LeaseExpires
  <2>1. /\ entry' \in Entries /\ SameFire(entry, entry')
        /\ entry'.holder = entry.holder
    BY <1>3, <1>0 DEF LeaseExpires, Typed, Entries, SameFire
  <2>2. overrun' = (overrun \/ Delivering(entry.holder)) BY <1>3 DEF LeaseExpires
  <2> QED BY <2>1, <2>2, <1>3, <1>0 DEF LeaseExpires, Typed
<1>4. CASE GrantExpires
  BY <1>4, <1>0 DEF GrantExpires, history, SameFire, Typed
<1>5. CASE JobEnds
  BY <1>5, <1>0 DEF JobEnds, history, SameFire, Typed
<1>6. CASE \E p \in Procs : RearmLooks(p) \/ RearmFails(p)
  BY <1>6, <1>0 DEF RearmLooks, RearmFails, history, SameFire, Typed
<1> QED BY <1>1, <1>2, <1>3, <1>4, <1>5, <1>6 DEF Time

LEMMA TimeTyped ==
    ASSUME TypeOK, Time PROVE TypeOK'
<1>0. Typed BY TypeIs
<1>1. overrun' \in BOOLEAN BY TimeShape, <1>0 DEF Typed
<1>2. arming' \subseteq Rearming
  BY <1>0 DEF Time, AnchorPasses, RetryPasses, LeaseExpires, GrantExpires, JobEnds,
     RearmLooks, RearmFails, Typed
<1> QED BY <1>0, <1>1, <1>2, TimeShape, TypeIs DEF Typed

LEMMA CrashTyped ==
    ASSUME TypeOK, RecordIsTrue, StagesAreTrue,
           \/ \E p \in Procs : Crash(p)
           \/ \E r \in Runs : CrashAdmitting(r)
    PROVE  TypeOK'
<1>0. Typed BY TypeIs
<1>1. CASE \E p \in Procs : Crash(p)
  BY <1>1, <1>0, FallenShape, TypeIs DEF Crash, history, Typed
<1>2. CASE \E r \in Runs : CrashAdmitting(r)
  <2>1. PICK r \in Runs : CrashAdmitting(r) BY <1>2
  <2>2. /\ run[r].proc \in Procs /\ Fallen(run[r].proc)
        /\ entry.there /\ ledger.state = "pending" /\ ledger' = Spent(Occ(entry))
    BY <2>1 DEF CrashAdmitting, Admissible, StagesAreTrue
  <2>3. Occ(entry) \in Occurrences
    BY <2>2, <1>0, Constants DEF Occ, Occurrences, RecordIsTrue, Entries, Typed
  <2>4. ledger' \in Record BY <2>2, <2>3, SpentShape
  <2> QED BY <2>2, <2>4, <1>0, FallenShape, TypeIs DEF history, Typed
<1> QED BY <1>1, <1>2

-----------------------------------------------------------------------------
\* The record of authority and the stages of a delivery

\* Every step but the one that adds the entry, and those of time.
Moves == \/ \E p \in Procs : \/ Cancel(p) \/ RevokeGrant(p) \/ Rearm(p)
                              \/ Tick(p) \/ Crash(p)
         \/ \E r \in Runs : Work(r) \/ CrashAdmitting(r)

LEMMA NextIs == Next => Moves \/ Time \/ \E p \in Procs : Add(p)
BY DEF Next, Moves, Time, Human

LedgerChange ==
    \/ ledger' = ledger
    \/ ledger' = [ledger EXCEPT !.state = "revoked"]
    \/ ledger.state = "pending" /\ ledger' = [ledger EXCEPT !.last = 0]
    \/ ledger.state = "pending" /\ entry.there /\ ledger' = Spent(Occ(entry))

EntryChange ==
    \/ /\ entry'.there = entry.there /\ entry'.count = entry.count
       /\ entry'.wake => entry.wake
       /\ entry'.wake /\ entry.started => entry'.started
    \/ entry.there /\ ~entry'.there /\ entry'.count = entry.count
    \/ entry.there /\ entry' \in Advanced(entry)

LEMMA SameIsChange == TypeOK /\ SameFire(entry, entry') => EntryChange
BY DEF SameFire, EntryChange

LEMMA MarkChange ==
    ASSUME TypeOK, RecordIsTrue, NEW p, NEW anyone \in BOOLEAN,
           NEW outcome \in Outcomes, Mark(p, anyone, outcome)
    PROVE  EntryChange /\ LedgerChange
<1>1. /\ ledger' = ledger \/ ledger' = [ledger EXCEPT !.state = "revoked"]
      /\ entry' = entry \/ (entry.there /\ entry' \in Advanced(entry))
  BY MarkShape
<1> QED BY <1>1 DEF EntryChange, LedgerChange

LEMMA RemoveChange ==
    ASSUME TypeOK, NEW p, NEW outcome \in Outcomes, Remove(p, outcome), entry.there
    PROVE  EntryChange /\ LedgerChange /\ ledger'.state = "revoked"
<1>1. entry.count \in 0..MaxFires /\ ledger \in Record BY TypeIs DEF Typed, Entries
<1>2. entry' = entry \/ entry' = Gone(entry) BY CommitShape DEF Remove, TypeOK
<1>3. ~Gone(entry).there /\ Gone(entry).count = entry.count BY <1>1, GoneShape
<1>4. ledger' = [ledger EXCEPT !.state = "revoked"] BY DEF Remove
<1> QED BY <1>1, <1>2, <1>3, <1>4 DEF EntryChange, LedgerChange, Record

\* The shape of a tick.
LEMMA TickShape ==
    ASSUME TypeOK, RecordIsTrue, StagesAreTrue, NEW p \in Procs, Tick(p)
    PROVE  /\ ledger.state # "none" /\ LedgerChange
           /\ EntryChange \/ (~entry.there /\ ~entry'.there /\ entry'.count = entry.count)
           /\ begun' = begun
           /\ cancelled' => cancelled \/ ledger'.state = "revoked"
<1>0. ledger.state # "none" BY DEF Tick, RecordIsTrue, Claim, ChooseNotify, ChooseCancel,
        ChooseDefer, Start, DoDefer, DoNotify, DoAck, DoRetry
<1>00. Typed BY TypeIs
<1>1. CASE Claim(p)
  BY <1>1, <1>0, ClaimShape, SameIsChange DEF Claim, LedgerChange, history
<1>2. CASE ChooseNotify(p) \/ ChooseDefer(p)
  BY <1>2, <1>0, <1>00 DEF ChooseNotify, ChooseDefer, LedgerChange, EntryChange, history
<1>3. CASE ChooseCancel(p)
  <2>1. PICK outcome \in Outcomes :
          IF Raises(outcome)
          THEN /\ Commit(outcome, entry)
               /\ Goto(p, "retry") /\ UNCHANGED <<ledger, grants, cancelled>>
          ELSE Remove(p, outcome) /\ Goto(p, "idle")
    BY <1>3 DEF ChooseCancel
  <2>2. begun' = begun BY <1>3 DEF ChooseCancel
  <2>3. CASE Raises(outcome)
    BY <2>1, <2>2, <2>3, <1>0, <1>00, CommitShape DEF LedgerChange, EntryChange, Typed
  <2>4. CASE ~Raises(outcome) /\ entry.there
    BY <2>1, <2>2, <2>4, <1>0, RemoveChange
  <2>5. CASE ~Raises(outcome) /\ ~entry.there
    <3>1. Remove(p, outcome) BY <2>1, <2>5
    <3>2. entry.count \in 0..MaxFires /\ ledger \in Record BY <1>00 DEF Typed, Entries
    <3>3. entry' = entry \/ entry' = Gone(entry) BY <3>1, CommitShape DEF Remove, TypeOK
    <3>4. ~Gone(entry).there /\ Gone(entry).count = entry.count BY <3>2, GoneShape
    <3>5. ledger' = [ledger EXCEPT !.state = "revoked"] BY <3>1 DEF Remove
    <3> QED BY <3>2, <3>3, <3>4, <3>5, <2>2, <2>5, <1>0 DEF LedgerChange, Record
  <2> QED BY <2>3, <2>4, <2>5
<1>4. CASE Start(p)
  BY <1>4, <1>0, <1>00, StartShape DEF Start, LedgerChange, EntryChange, history
<1>5. CASE DoDefer(p)
  <2>1. SameFire(entry, entry')
    BY <1>5, DeferShape DEF DoDefer
  <2> QED BY <2>1, <1>5, <1>0, SameIsChange DEF DoDefer, LedgerChange, history
<1>6. CASE DoNotify(p)
  BY <1>6, <1>0, <1>00 DEF DoNotify, LedgerChange, EntryChange
<1>7. CASE DoAck(p)
  BY <1>7, <1>0, MarkChange DEF DoAck, history
<1>8. CASE DoRetry(p)
  BY <1>8, <1>0, RetryShape, SameIsChange DEF DoRetry, LedgerChange, history
<1> QED BY <1>1, <1>2, <1>3, <1>4, <1>5, <1>6, <1>7, <1>8 DEF Tick

LEMMA WorkShape ==
    ASSUME TypeOK, RecordIsTrue, StagesAreTrue, NEW r \in Runs, Work(r)
    PROVE  /\ ledger.state # "none" /\ LedgerChange /\ EntryChange
           /\ begun' = begun \/ Admit(r)
           /\ cancelled' = cancelled
<1>0. ledger.state # "none" BY DEF Work, RecordIsTrue, Refuse, Admit, MarkStarted,
        RunEnds, Terminal, GiveUp, Close
<1>00. Typed BY TypeIs
<1>1. CASE Refuse(r) \/ RunEnds(r)
  BY <1>1, <1>0, <1>00 DEF Refuse, RunEnds, LedgerChange, EntryChange, history
<1>2. CASE Admit(r)
  <2>1. LedgerChange BY <1>2, AdmitShape DEF LedgerChange
  <2>2. /\ entry'.there /\ entry.there /\ entry.wake /\ ~entry.started
        /\ entry'.count = entry.count /\ entry' \in Entries
    BY <1>2, AdmitShape
  <2>3. entry'.there = entry.there BY <2>2, <1>00 DEF Typed, Entries
  <2>4. EntryChange BY <2>2, <2>3 DEF EntryChange
  <2> QED BY <2>1, <2>4, <1>0, <1>2 DEF Admit
<1>3. CASE MarkStarted(r)
  BY <1>3, <1>0, MarkChange DEF MarkStarted, history
<1>4. CASE Terminal(r)
  <2>1. SameFire(entry, entry')
    BY <1>4, DeferShape DEF Terminal
  <2> QED BY <2>1, <1>4, <1>0, SameIsChange DEF Terminal, LedgerChange, history
<1>5. CASE GiveUp(r)
  BY <1>5, <1>0, <1>00 DEF GiveUp, LedgerChange, EntryChange
<1>6. CASE Close(r)
  BY <1>6, <1>0, MarkChange DEF Close, history
<1> QED BY <1>1, <1>2, <1>3, <1>4, <1>5, <1>6 DEF Work

\* The shape of every move.
LEMMA MovesShape ==
    ASSUME TypeOK, RecordIsTrue, StagesAreTrue, Moves
    PROVE  /\ ledger.state # "none" /\ LedgerChange
           /\ EntryChange \/ (~entry.there /\ ~entry'.there /\ entry'.count = entry.count)
           /\ begun' = begun \/ \E r \in Runs : Admit(r)
           /\ cancelled' => cancelled \/ ledger'.state = "revoked"
<1>00. Typed BY TypeIs
<1>0. entry.there => ledger.state # "none" BY DEF RecordIsTrue
<1>1. CASE \E p \in Procs : Cancel(p)
  <2>1. PICK p \in Procs, outcome \in Outcomes : Remove(p, outcome)
    BY <1>1 DEF Cancel
  <2>2. entry.there /\ begun' = begun BY <1>1 DEF Cancel
  <2> QED BY <2>1, <2>2, <1>0, RemoveChange
<1>2. CASE \E p \in Procs : RevokeGrant(p)
  <2>1. PICK p \in Procs : RevokeGrant(p) BY <1>2
  <2> DEFINE changed == [entry EXCEPT !.wake = FALSE, !.started = FALSE,
                                      !.owner = None, !.used = 0]
  <2>2. /\ changed.there = entry.there /\ changed.count = entry.count /\ ~changed.wake
    BY <1>00 DEF Typed, Entries
  <2>3. \E outcome \in Outcomes : Commit(outcome, changed) BY <2>1 DEF RevokeGrant
  <2> HIDE DEF changed
  <2>4. entry' = entry \/ entry' = changed BY <2>3, CommitShape, <1>00 DEF Typed
  <2>5. EntryChange BY <2>2, <2>4 DEF EntryChange
  <2> QED BY <2>1, <2>5, <1>0 DEF RevokeGrant, LedgerChange, history
<1>3. CASE \E p \in Procs : Rearm(p)
  <2>1. PICK p \in Procs : Rearm(p) BY <1>3
  <2>2. PICK w : \E outcome \in Outcomes :
          Commit(outcome, [entry EXCEPT !.owner = p, !.retries = 0, !.wait = w])
    BY <2>1 DEF Rearm
  <2>3. SameFire(entry, [entry EXCEPT !.owner = p, !.retries = 0, !.wait = w])
    BY <1>00 DEF Typed, Entries, SameFire
  <2>4. SameFire(entry, entry')
    BY <2>2, <2>3, CommitShape, <1>00 DEF SameFire, Typed
  <2>5. LedgerChange /\ entry.there BY <2>1 DEF Rearm, Rearmable, LedgerChange
  <2> QED BY <2>1, <2>4, <2>5, <1>0, SameIsChange DEF Rearm, history
<1>4. CASE \E p \in Procs : Tick(p)
  BY <1>4, TickShape
<1>5. CASE \E r \in Runs : Work(r)
  BY <1>5, WorkShape
<1>6. CASE \E p \in Procs : Crash(p)
  BY <1>6, FallenShape, SameIsChange DEF Crash, LedgerChange, history
<1>7. CASE \E r \in Runs : CrashAdmitting(r)
  <2>1. PICK r \in Runs : CrashAdmitting(r) BY <1>7
  <2>2. /\ run[r].proc \in Procs /\ Fallen(run[r].proc)
        /\ entry.there /\ ledger.state = "pending" /\ ledger' = Spent(Occ(entry))
    BY <2>1 DEF CrashAdmitting, Admissible, StagesAreTrue
  <2>3. SameFire(entry, entry') /\ UNCHANGED history BY <2>2, FallenShape
  <2> QED BY <2>2, <2>3, SameIsChange DEF LedgerChange, history
<1> QED BY <1>1, <1>2, <1>3, <1>4, <1>5, <1>6, <1>7 DEF Moves

LEMMA RecordStep ==
    ASSUME TypeOK, RecordIsTrue, StagesAreTrue, Next PROVE RecordIsTrue'
<1>0. Typed BY TypeIs
<1>1. CASE Moves
  <2>1. /\ ledger.state # "none" /\ LedgerChange
        /\ EntryChange \/ (~entry.there /\ ~entry'.there /\ entry'.count = entry.count)
        /\ cancelled' => cancelled \/ ledger'.state = "revoked"
    BY <1>1, MovesShape
  <2>2. entry'.there => entry'.count < MaxFires
    <3>1. CASE entry.there /\ entry' \in Advanced(entry)
      <4>1. entry \in Entries /\ entry.count < MaxFires
        BY <3>1, <1>0 DEF RecordIsTrue, Typed
      <4> QED BY <4>1, <3>1, AdvancedShape
    <3> QED BY <2>1, <3>1 DEF EntryChange, RecordIsTrue
  <2>3. CASE ledger.state = "pending" /\ entry.there /\ ledger' = Spent(Occ(entry))
    <3>1. Occ(entry) \in Occurrences
      BY <2>3, <1>0, Constants DEF Occ, Occurrences, RecordIsTrue, Entries, Typed
    <3>2. ledger'.state # "none" /\ (ledger'.state = "pending" => ledger'.used < MaxFires)
      BY <2>3, <3>1, SpentShape
    <3> QED BY <3>2, <2>1, <2>2, <2>3 DEF RecordIsTrue
  <2>4. CASE \/ ledger' = ledger
             \/ ledger' = [ledger EXCEPT !.state = "revoked"]
             \/ ledger.state = "pending" /\ ledger' = [ledger EXCEPT !.last = 0]
    <3>1. /\ ledger'.state # "none"
          /\ ledger'.state = "pending" => ledger.state = "pending"
          /\ ledger'.used = ledger.used
          /\ ledger.state = "revoked" => ledger'.state = "revoked"
      BY <2>4, <2>1, <1>0 DEF Typed, Record
    <3> QED BY <3>1, <2>1, <2>2 DEF RecordIsTrue
  <2> QED BY <2>1, <2>3, <2>4 DEF LedgerChange
<1>2. CASE Time
  BY <1>2, TimeShape DEF RecordIsTrue, SameFire
<1>3. CASE \E p \in Procs : Add(p)
  <2>1. PICK p \in Procs, outcome \in Outcomes :
          /\ ledger.state = "none" /\ Commit(outcome, Fresh(p))
          /\ ledger' = IF Raises(outcome) THEN [Pending EXCEPT !.state = "revoked"]
                       ELSE Pending
          /\ cancelled' = cancelled
    BY <1>3 DEF Add, history
  <2>2. ~entry.there /\ ~cancelled BY <2>1 DEF RecordIsTrue
  <2>3. entry' = entry \/ entry' = Fresh(p) BY <2>1, CommitShape, <1>0 DEF Typed
  <2>4. entry'.there => entry'.count < MaxFires BY <2>2, <2>3, FreshShape, Constants
  <2>5. /\ ledger'.state \in {"pending", "revoked"}
        /\ ledger'.state = "pending" => ledger'.used < MaxFires
    BY <2>1, Constants DEF Pending
  <2> QED BY <2>1, <2>2, <2>4, <2>5 DEF RecordIsTrue
<1> QED BY <1>1, <1>2, <1>3, NextIs

\* The two halves of StagesAreTrue.
ThreadsAreTrue ==
    \A p \in Procs : /\ thread[p].at # "idle" => thread[p].occ \in Occurrences
                     /\ thread[p].at = "ack" => thread[p].occ \in notified
RunsAreTrue ==
    \A r \in Runs :
        /\ run[r].at # "none" =>
             run[r].proc \in Procs \ CannotRun /\ run[r].occ \in Occurrences
        /\ run[r].at = "closing" => run[r].occ \in notified
        /\ run[r].at = "noted" => \E o \in Occurrences : begun[o] > 0

LEMMA StagesAre == /\ StagesAreTrue <=> ThreadsAreTrue /\ RunsAreTrue
                   /\ StagesAreTrue' <=> ThreadsAreTrue' /\ RunsAreTrue'
BY DEF StagesAreTrue, ThreadsAreTrue, RunsAreTrue

\* A thread moves on, to a place that is not the acknowledgement.
LEMMA ThreadGoes ==
    ASSUME TypeOK, ThreadsAreTrue, NEW p \in Procs, NEW place \in Places,
           Goto(p, place), notified \subseteq notified',
           place = "idle" \/ thread[p].at # "idle",
           place = "ack" => thread[p].occ \in notified'
    PROVE  ThreadsAreTrue'
BY GotoShape DEF ThreadsAreTrue

LEMMA ThreadStays ==
    ASSUME ThreadsAreTrue, thread' = thread, notified \subseteq notified'
    PROVE  ThreadsAreTrue'
BY DEF ThreadsAreTrue

\* A run moves on.
LEMMA RunGoes ==
    ASSUME TypeOK, RunsAreTrue, NEW r \in Runs, NEW place \in Stages, Put(r, place),
           notified \subseteq notified', begun' = begun, run[r].at # "none",
           place = "closing" => run[r].occ \in notified',
           place = "noted" => run[r].at = "noted"
    PROVE  RunsAreTrue'
BY PutShape DEF RunsAreTrue

LEMMA RunStays ==
    ASSUME RunsAreTrue, run' = run, notified \subseteq notified', begun' = begun
    PROVE  RunsAreTrue'
BY DEF RunsAreTrue

LEMMA TickStages ==
    ASSUME TypeOK, RecordIsTrue, StagesAreTrue, NEW p \in Procs, Tick(p)
    PROVE  StagesAreTrue'
<1>0. Typed /\ ThreadsAreTrue /\ RunsAreTrue BY TypeIs, StagesAre
<1>1. begun' = begun BY TickShape
<1>2. CASE Claim(p)
  <2>1. /\ notified' = notified /\ run' = run BY <1>2 DEF Claim, history
  <2>2. Occ(entry) \in Occurrences
    BY <1>2, <1>0, ClaimShape, Constants DEF RecordIsTrue, Typed, Entries, Occ, Occurrences
  <2>3. ThreadsAreTrue' BY <1>2, <2>1, <2>2, <1>0, ClaimShape DEF ThreadsAreTrue
  <2> QED BY <2>1, <2>3, <1>0, <1>1, RunStays, StagesAre
<1>3. CASE ChooseNotify(p) \/ ChooseDefer(p)
  <2>1. /\ notified' = notified /\ run' = run /\ thread[p].at # "idle"
        /\ Goto(p, "notify") \/ Goto(p, "defer")
    BY <1>3 DEF ChooseNotify, ChooseDefer, history
  <2>2. ThreadsAreTrue' BY <2>1, <1>0, ThreadGoes DEF Places
  <2> QED BY <2>1, <2>2, <1>0, <1>1, RunStays, StagesAre
<1>4. CASE ChooseCancel(p)
  <2>1. /\ notified' = notified /\ run' = run /\ thread[p].at # "idle"
        /\ Goto(p, "retry") \/ Goto(p, "idle")
    BY <1>4 DEF ChooseCancel
  <2>2. ThreadsAreTrue' BY <2>1, <1>0, ThreadGoes DEF Places
  <2> QED BY <2>1, <2>2, <1>0, <1>1, RunStays, StagesAre
<1>5. CASE Start(p)
  <2>1. /\ notified' = notified /\ thread[p].at = "claimed" /\ p \notin CannotRun
        /\ \E place \in {"idle", "defer", "retry"} : Goto(p, place)
    BY <1>5, StartShape DEF Start, history
  <2>2. ThreadsAreTrue' BY <2>1, <1>0, ThreadGoes DEF Places
  <2>3. thread[p].occ \in Occurrences BY <2>1, <1>0 DEF ThreadsAreTrue
  <2> DEFINE new == [at |-> "queued", proc |-> p, occ |-> thread[p].occ]
  <2>4. run' = run \/ \E r \in Runs : run' = [run EXCEPT ![r] = new]
    BY <1>5, StartShape
  <2>5. new.at = "queued" /\ new.proc = p /\ new.occ = thread[p].occ OBVIOUS
  <2> HIDE DEF new
  <2>6. RunsAreTrue'
    BY <2>1, <2>3, <2>4, <2>5, <1>0, <1>1 DEF RunsAreTrue, Typed
  <2> QED BY <2>2, <2>6, StagesAre
<1>6. CASE DoDefer(p)
  <2>1. /\ notified' = notified /\ run' = run /\ thread[p].at # "idle"
        /\ \E next \in {"retry", "notify", "idle"} : Goto(p, next)
    BY <1>6 DEF DoDefer, history
  <2>2. ThreadsAreTrue' BY <2>1, <1>0, ThreadGoes DEF Places
  <2> QED BY <2>1, <2>2, <1>0, <1>1, RunStays, StagesAre
<1>7. CASE DoNotify(p)
  <2>1. /\ run' = run /\ thread[p].at = "notify"
        /\ \/ notified' = notified \union {thread[p].occ} /\ Goto(p, "ack")
           \/ notified' = notified /\ Goto(p, "retry")
    BY <1>7 DEF DoNotify
  <2>2. ThreadsAreTrue' BY <2>1, <1>0, ThreadGoes DEF Places
  <2> QED BY <2>1, <2>2, <1>0, <1>1, RunStays, StagesAre
<1>8. CASE DoAck(p)
  <2>1. /\ notified' = notified /\ run' = run /\ thread[p].at # "idle"
        /\ Goto(p, "retry") \/ Goto(p, "idle")
    BY <1>8 DEF DoAck, history
  <2>2. ThreadsAreTrue' BY <2>1, <1>0, ThreadGoes DEF Places
  <2> QED BY <2>1, <2>2, <1>0, <1>1, RunStays, StagesAre
<1>9. CASE DoRetry(p)
  <2>1. /\ notified' = notified /\ run' = run /\ Goto(p, "idle")
    BY <1>9 DEF DoRetry, history
  <2>2. ThreadsAreTrue' BY <2>1, <1>0, ThreadGoes DEF Places
  <2> QED BY <2>1, <2>2, <1>0, <1>1, RunStays, StagesAre
<1> QED BY <1>2, <1>3, <1>4, <1>5, <1>6, <1>7, <1>8, <1>9 DEF Tick

LEMMA WorkStages ==
    ASSUME TypeOK, RecordIsTrue, StagesAreTrue, NEW r \in Runs, Work(r)
    PROVE  StagesAreTrue'
<1>0. Typed /\ ThreadsAreTrue /\ RunsAreTrue BY TypeIs, StagesAre
<1>1. CASE Refuse(r) \/ RunEnds(r)
  <2>1. /\ notified' = notified /\ thread' = thread /\ begun' = begun
        /\ run[r].at # "none" /\ (Put(r, "failing") \/ Put(r, "none"))
    BY <1>1 DEF Refuse, RunEnds, history
  <2>2. RunsAreTrue' BY <2>1, <1>0, RunGoes DEF Stages
  <2> QED BY <2>1, <2>2, <1>0, ThreadStays, StagesAre
<1>2. CASE Admit(r)
  <2>1. /\ notified' = notified /\ thread' = thread /\ run[r].at = "queued"
        /\ Occ(entry) \in Occurrences
        /\ \/ Put(r, "failing") /\ begun' = begun
           \/ Put(r, "noted") /\ begun' = [begun EXCEPT ![Occ(entry)] = @ + 1]
    BY <1>2, AdmitShape DEF Admit
  <2>2. CASE Put(r, "failing") /\ begun' = begun
    BY <2>1, <2>2, <1>0, RunGoes, ThreadStays, StagesAre DEF Stages
  <2>3. CASE Put(r, "noted") /\ begun' = [begun EXCEPT ![Occ(entry)] = @ + 1]
    <3>1. begun'[Occ(entry)] > 0 BY <2>1, <2>3, <1>0 DEF Typed
    <3>2. RunsAreTrue'
      BY <2>1, <2>3, <3>1, <1>0, PutShape DEF RunsAreTrue, Stages
    <3> QED BY <2>1, <3>2, <1>0, ThreadStays, StagesAre
  <2> QED BY <2>1, <2>2, <2>3
<1>3. CASE MarkStarted(r)
  <2>1. /\ notified' = notified /\ thread' = thread /\ begun' = begun
        /\ run[r].at # "none" /\ (Put(r, "running") \/ Put(r, "none"))
    BY <1>3 DEF MarkStarted, history
  <2>2. RunsAreTrue' BY <2>1, <1>0, RunGoes DEF Stages
  <2> QED BY <2>1, <2>2, <1>0, ThreadStays, StagesAre
<1>4. CASE Terminal(r)
  <2>1. /\ notified' = notified /\ thread' = thread /\ begun' = begun
        /\ run[r].at # "none" /\ (Put(r, "giving_up") \/ Put(r, "none"))
    BY <1>4 DEF Terminal, history
  <2>2. RunsAreTrue' BY <2>1, <1>0, RunGoes DEF Stages
  <2> QED BY <2>1, <2>2, <1>0, ThreadStays, StagesAre
<1>5. CASE GiveUp(r)
  <2>1. /\ thread' = thread /\ begun' = begun /\ run[r].at = "giving_up"
        /\ \/ notified' = notified \union {run[r].occ} /\ Put(r, "closing")
           \/ notified' = notified /\ Put(r, "none")
    BY <1>5 DEF GiveUp
  <2>2. RunsAreTrue' BY <2>1, <1>0, RunGoes DEF Stages
  <2> QED BY <2>1, <2>2, <1>0, ThreadStays, StagesAre
<1>6. CASE Close(r)
  <2>1. /\ notified' = notified /\ thread' = thread /\ begun' = begun
        /\ run[r].at # "none" /\ Put(r, "none")
    BY <1>6 DEF Close, history
  <2>2. RunsAreTrue' BY <2>1, <1>0, RunGoes DEF Stages
  <2> QED BY <2>1, <2>2, <1>0, ThreadStays, StagesAre
<1> QED BY <1>1, <1>2, <1>3, <1>4, <1>5, <1>6 DEF Work

LEMMA StagesStep ==
    ASSUME TypeOK, RecordIsTrue, StagesAreTrue, Next PROVE StagesAreTrue'
<1>0. Typed /\ ThreadsAreTrue /\ RunsAreTrue BY TypeIs, StagesAre
<1>1. ASSUME NEW p \in Procs, Human(p) PROVE StagesAreTrue'
  <2>1. /\ notified' = notified /\ thread' = thread /\ begun' = begun /\ run' = run
    BY <1>1 DEF Human, Add, Cancel, RevokeGrant, RearmLooks, Rearm, RearmFails,
       history
  <2> QED BY <2>1, <1>0, ThreadStays, RunStays, StagesAre
<1>2. CASE Time
  BY <1>2, <1>0, TimeShape, ThreadStays, RunStays, StagesAre
<1>3. ASSUME NEW p \in Procs, Fallen(p) PROVE StagesAreTrue'
  <2>1. ThreadsAreTrue' BY <1>3, <1>0, FallenShape DEF ThreadsAreTrue, Idle, history
  <2>2. RunsAreTrue' BY <1>3, <1>0, FallenShape DEF RunsAreTrue, NoRun, history
  <2> QED BY <2>1, <2>2, StagesAre
<1>4. ASSUME NEW r \in Runs, CrashAdmitting(r) PROVE StagesAreTrue'
  <2>1. run[r].proc \in Procs /\ Fallen(run[r].proc)
    BY <1>4 DEF CrashAdmitting, StagesAreTrue
  <2> QED BY <2>1, <1>3
<1> QED BY <1>1, <1>2, <1>3, <1>4, TickStages, WorkStages DEF Next, Time, Crash

-----------------------------------------------------------------------------
\* What was admitted, and what was paid for it.  Two commits of one standing
\* fire that are skipped start it twice, so these assume there are none.
NoSkips == Standing => "skipped" \notin FaultKinds

LEMMA BegunStep ==
    ASSUME NoSkips, TypeOK, RecordIsTrue, StagesAreTrue, BegunIsMarked, Next
    PROVE  BegunIsMarked'
<1>0. Typed BY TypeIs
<1> SUFFICES ASSUME NEW o \in Occurrences, begun'[o] > 0
             PROVE  IF Standing
                    THEN entry'.there /\ entry'.wake =>
                           \/ o < Occ(entry')
                           \/ o = Occ(entry') /\ entry'.started
                    ELSE ledger'.state # "pending"
  BY DEF BegunIsMarked, Occ
<1>1. CASE Time
  <2>1. /\ begun' = begun /\ ledger' = ledger /\ SameFire(entry, entry')
    BY <1>1, TimeShape
  <2> QED BY <2>1 DEF BegunIsMarked, SameFire, Occ
<1>2. CASE \E p \in Procs : Add(p)
  <2>1. ledger.state = "none" /\ begun' = begun BY <1>2 DEF Add, history
  <2>2. ~(begun[o] > 0) BY <2>1 DEF RecordIsTrue
  <2> QED BY <2>1, <2>2
<1>3. ASSUME Moves, begun[o] > 0 PROVE
        /\ Standing /\ entry'.there /\ entry'.wake /\ entry' \in Advanced(entry)
           => o < Occ(entry')
        /\ Standing /\ entry'.there /\ entry'.wake
              /\ entry'.count = entry.count /\ entry'.there = entry.there
              /\ entry.wake /\ (entry.started => entry'.started)
           => o < Occ(entry') \/ (o = Occ(entry') /\ entry'.started)
        /\ ~Standing => ledger.state # "pending"
  <2>1. CASE Standing /\ entry'.there /\ entry'.wake /\ entry' \in Advanced(entry)
    <3>1. entry.there \/ ~entry.there OBVIOUS
    <3>2. CASE entry.there
      <4>1. entry \in Entries /\ entry.count < MaxFires
        BY <3>2, <1>0 DEF RecordIsTrue, Typed
      <4>2. entry'.count = entry.count + 1 /\ entry'.wake = entry.wake
        BY <2>1, <4>1, AdvancedShape
      <4>3. o < Occ(entry) \/ o = Occ(entry)
        BY <4>2, <3>2, <2>1, <1>3 DEF BegunIsMarked
      <4>4. o < Occ(entry')
        BY <4>1, <4>2, <4>3, Constants DEF Entries, Occ, Occurrences
      <4> QED BY <4>4, <2>1, <4>1, <4>2 DEF Entries
    <3>3. CASE ~entry.there
      <4>1. entry'.there = entry.there \/ ~entry'.there
        BY <3>3, <1>3, MovesShape DEF EntryChange
      <4> QED BY <4>1, <3>3, <2>1
    <3> QED BY <3>2, <3>3
  <2>2. Standing /\ entry.there /\ entry.wake =>
          o < Occ(entry) \/ (o = Occ(entry) /\ entry.started)
    BY <1>3 DEF BegunIsMarked
  <2>3. ~Standing => ledger.state # "pending" BY <1>3 DEF BegunIsMarked
  <2> QED BY <2>1, <2>2, <2>3 DEF Occ
<1>4. CASE Moves /\ begun[o] > 0
  <2>1. /\ LedgerChange
        /\ EntryChange \/ (~entry.there /\ ~entry'.there)
    BY <1>4, MovesShape
  <2>2. CASE ~Standing
    <3>1. ledger.state # "pending" BY <2>2, <1>4, <1>3
    <3>2. ledger' = ledger \/ ledger' = [ledger EXCEPT !.state = "revoked"]
      BY <2>1, <3>1 DEF LedgerChange
    <3>3. ledger'.state # "pending" BY <3>1, <3>2, <1>0 DEF Typed, Record
    <3> QED BY <3>3, <2>2
  <2>3. CASE Standing
    BY <2>1, <2>3, <1>3, <1>4 DEF EntryChange
  <2> QED BY <2>2, <2>3
<1>5. CASE Moves /\ ~(begun[o] > 0)
  <2>1. PICK r \in Runs : Admit(r) BY <1>5, MovesShape
  <2>2. /\ Occ(entry) \in Occurrences /\ entry'.there
        /\ ledger' = Spent(Occ(entry)) /\ ledger.state = "pending"
        /\ entry'.count = entry.count
        /\ \/ begun' = begun
           \/ /\ begun' = [begun EXCEPT ![Occ(entry)] = @ + 1]
              /\ entry'.started \/ "skipped" \in FaultKinds
    BY <2>1, AdmitShape
  <2>3. o = Occ(entry) /\ (entry'.started \/ "skipped" \in FaultKinds)
    BY <2>2, <1>5, <1>0 DEF Typed
  <2>4. ~Standing => ledger'.state # "pending" BY <2>2, SpentShape
  <2>5. Occ(entry') = Occ(entry) BY <2>2 DEF Occ
  <2> QED BY <2>3, <2>4, <2>5 DEF NoSkips
<1> QED BY <1>1, <1>2, <1>4, <1>5, NextIs

LEMMA OnceStep ==
    ASSUME TypeOK, RecordIsTrue, StagesAreTrue, BegunIsMarked, StartsOnce, Next
    PROVE  StartsOnce'
<1>0. Typed BY TypeIs
<1>1. CASE begun' = begun BY <1>1 DEF StartsOnce
<1>2. ASSUME NEW r \in Runs, Admit(r) PROVE StartsOnce'
  <2>1. /\ Occ(entry) \in Occurrences /\ entry.there /\ entry.wake /\ ~entry.started
        /\ ledger.state = "pending"
        /\ begun' = begun \/ begun' = [begun EXCEPT ![Occ(entry)] = @ + 1]
    BY <1>2, AdmitShape
  <2>2. ~(begun[Occ(entry)] > 0)
    <3>1. ~(Occ(entry) < Occ(entry)) BY <1>0 DEF Typed, Entries, Occ
    <3> QED BY <2>1, <3>1 DEF BegunIsMarked
  <2>3. begun[Occ(entry)] = 0 BY <2>1, <2>2, <1>0 DEF Typed
  <2> QED BY <2>1, <2>3, <1>0 DEF StartsOnce, Typed
<1>3. begun' = begun \/ \E r \in Runs : Admit(r)
  BY MovesShape, TimeShape, NextIs DEF Add, history
<1> QED BY <1>1, <1>2, <1>3

\* The occurrences that a credit was spent for.
Paid == {o \in Occurrences : begun[o] > 0 \/ o = ledger.last}

LEMMA PaidIsFinite ==
    /\ IsFiniteSet(Paid) /\ Cardinality(Paid) \in Nat
    /\ IsFiniteSet(Paid') /\ Cardinality(Paid') \in Nat
    /\ Cardinality(Paid) <= MaxFires /\ Cardinality(Paid') <= MaxFires
<1>1. IsFiniteSet(1..MaxFires) /\ Cardinality(1..MaxFires) = MaxFires
  BY Constants, FS_Interval
<1>2. Paid \in SUBSET (1..MaxFires) /\ Paid' \in SUBSET (1..MaxFires)
  BY DEF Paid, Occurrences
<1>3. IsFiniteSet(Paid) /\ Cardinality(Paid) <= MaxFires
  BY <1>1, <1>2, FS_Subset
<1>4. IsFiniteSet(Paid') /\ Cardinality(Paid') <= MaxFires
  BY <1>1, <1>2, FS_Subset
<1>5. Cardinality(Paid) \in Nat BY <1>3, FS_CardinalityType
<1>6. Cardinality(Paid') \in Nat BY <1>4, FS_CardinalityType
<1> QED BY <1>3, <1>4, <1>5, <1>6

LEMMA PaidStep ==
    ASSUME TypeOK, RecordIsTrue, StagesAreTrue, StartsArePaid, Next
    PROVE  StartsArePaid'
<1>0. Typed BY TypeIs
<1>00. Cardinality(Paid) <= ledger.used BY DEF StartsArePaid, Paid
<1> SUFFICES Cardinality(Paid') <= ledger'.used
  BY DEF StartsArePaid, Paid
<1>1. ASSUME begun' = begun, ledger'.used = ledger.used,
             ledger'.last \in {0, ledger.last}
      PROVE  Cardinality(Paid') <= ledger'.used
  <2>1. Paid' \in SUBSET Paid BY <1>1 DEF Paid, Occurrences
  <2>2. Cardinality(Paid') <= Cardinality(Paid) BY <2>1, PaidIsFinite, FS_Subset
  <2> QED BY <2>2, <1>1, <1>00, <1>0, PaidIsFinite DEF Typed, Record
<1>2. CASE Time
  BY <1>2, <1>1, TimeShape
<1>3. CASE \E p \in Procs : Add(p)
  <2>1. /\ ledger.state = "none" /\ begun' = begun /\ ledger'.used = 0 /\ ledger'.last = 0
    BY <1>3 DEF Add, history, Pending
  <2>2. Paid' = {} BY <2>1 DEF Paid, RecordIsTrue, Occurrences
  <2> QED BY <2>1, <2>2, FS_EmptySet
<1>4. ASSUME Occ(entry) \in Occurrences, ledger.state = "pending",
             ledger' = Spent(Occ(entry)),
             \/ begun' = begun
             \/ begun' = [begun EXCEPT ![Occ(entry)] = @ + 1]
      PROVE  Cardinality(Paid') <= ledger'.used
  <2> DEFINE occ == Occ(entry)
  <2>1. /\ Standing => ledger'.last = occ
        /\ ~Standing => ledger'.used = 1
        /\ \/ ledger' = ledger /\ ledger.last = occ
           \/ Standing /\ ledger'.used = ledger.used + 1
           \/ ~Standing
    BY <1>4, SpentShape
  <2>2. CASE ~Standing
    BY <2>1, <2>2, PaidIsFinite, Constants
  <2>3. \A o \in Occurrences : begun'[o] > 0 => begun[o] > 0 \/ o = occ
    BY <1>4, <1>0 DEF Typed
  <2> HIDE DEF occ
  <2>4. CASE ledger' = ledger /\ ledger.last = occ
    <3>1. Paid' \in SUBSET Paid BY <2>3, <2>4 DEF Paid
    <3>2. Cardinality(Paid') <= Cardinality(Paid) BY <3>1, PaidIsFinite, FS_Subset
    <3> QED BY <3>2, <2>4, <1>00, <1>0, PaidIsFinite DEF Typed, Record
  <2>5. CASE Standing /\ ledger'.used = ledger.used + 1
    <3>1. Paid' \in SUBSET (Paid \union {occ}) BY <2>1, <2>3, <2>5 DEF Paid
    <3>2. /\ IsFiniteSet(Paid \union {occ})
          /\ Cardinality(Paid \union {occ}) =
               IF occ \in Paid THEN Cardinality(Paid) ELSE Cardinality(Paid) + 1
      BY PaidIsFinite, FS_AddElement
    <3>3. Cardinality(Paid') <= Cardinality(Paid \union {occ})
      BY <3>1, <3>2, FS_Subset
    <3> QED BY <3>2, <3>3, <2>5, <1>00, <1>0, PaidIsFinite DEF Typed, Record
  <2> QED BY <2>1, <2>2, <2>4, <2>5
<1>5. CASE \E r \in Runs : Admit(r)
  <2>1. /\ Occ(entry) \in Occurrences /\ ledger.state = "pending"
        /\ ledger' = Spent(Occ(entry))
        /\ begun' = begun \/ begun' = [begun EXCEPT ![Occ(entry)] = @ + 1]
    BY <1>5, AdmitShape
  <2> QED BY <2>1, <1>4
<1>6. CASE Moves /\ begun' = begun
  <2>1. LedgerChange BY <1>6, MovesShape
  <2>2. CASE ledger.state = "pending" /\ entry.there /\ ledger' = Spent(Occ(entry))
    <3>1. Occ(entry) \in Occurrences
      BY <2>2, <1>0, Constants DEF Occ, Occurrences, RecordIsTrue, Entries, Typed
    <3> QED BY <3>1, <2>2, <1>4, <1>6
  <2>3. CASE \/ ledger' = ledger
             \/ ledger' = [ledger EXCEPT !.state = "revoked"]
             \/ ledger.state = "pending" /\ ledger' = [ledger EXCEPT !.last = 0]
    <3>1. ledger'.used = ledger.used /\ ledger'.last \in {0, ledger.last}
      BY <2>3, <1>0 DEF Typed, Record
    <3> QED BY <3>1, <1>1, <1>6
  <2> QED BY <2>1, <2>2, <2>3 DEF LedgerChange
<1> QED BY <1>2, <1>3, <1>5, <1>6, MovesShape, NextIs

-----------------------------------------------------------------------------
\* One delivery at a time, while no claim runs out under it

\* The situation that DeliveriesAreCovered speaks of.
Calm == Standing /\ ~overrun /\ entry.there

\* Who delivers: nobody, one thread, or one run.
NoDelivery == /\ \A p \in Procs : thread[p].at = "idle"
              /\ \A r \in Runs : ~InDelivery(r)
OneThread(p) == /\ Covered(p, thread[p].occ)
                /\ \A q \in Procs : q # p => thread[q].at = "idle"
                /\ \A r \in Runs : ~InDelivery(r)
OneRun(r) == /\ Covered(run[r].proc, run[r].occ)
             /\ \A q \in Procs : thread[q].at = "idle"
             /\ \A s \in Runs : s # r => ~InDelivery(s)
             /\ run[r].at = "noted" => begun[Occ(entry)] > 0

LEMMA ThreadAlone ==
    ASSUME TypeOK, StagesAreTrue, DeliveriesAreCovered, Calm, NEW p \in Procs,
           thread[p].at # "idle"
    PROVE  OneThread(p)
BY DEF StagesAreTrue, DeliveriesAreCovered, Calm, OneThread, Covered, InDelivery

LEMMA RunAlone ==
    ASSUME TypeOK, StagesAreTrue, DeliveriesAreCovered, Calm, NEW r \in Runs,
           InDelivery(r)
    PROVE  OneRun(r)
BY DEF StagesAreTrue, DeliveriesAreCovered, Calm, OneRun, Covered, InDelivery

LEMMA NobodyIsCovered == NoDelivery' => DeliveriesAreCovered'
BY DEF NoDelivery, DeliveriesAreCovered

LEMMA ThreadIsCovered ==
    ASSUME NEW p \in Procs, OneThread(p)' PROVE DeliveriesAreCovered'
BY DEF OneThread, DeliveriesAreCovered

LEMMA RunIsCovered ==
    ASSUME NEW r \in Runs, OneRun(r)', run'[r].proc \in Procs PROVE DeliveriesAreCovered'
BY DEF OneRun, DeliveriesAreCovered

\* The thread that delivers goes on, or is done.
LEMMA ThreadDelivers ==
    ASSUME TypeOK, StagesAreTrue, DeliveriesAreCovered, Calm, NEW p \in Procs,
           thread[p].at # "idle", NEW place \in Places, Goto(p, place), run' = run,
           place # "idle" => SameClaim(entry, entry') /\ entry'.count = entry.count
    PROVE  DeliveriesAreCovered'
<1>1. OneThread(p) BY ThreadAlone
<1>2. /\ thread'[p].at = place
      /\ place # "idle" => thread'[p].occ = thread[p].occ
      /\ \A q \in Procs : q # p => thread'[q] = thread[q]
  BY GotoShape
<1>3. CASE place = "idle"
  <2>1. NoDelivery' BY <1>1, <1>2, <1>3 DEF OneThread, NoDelivery, InDelivery
  <2> QED BY <2>1, NobodyIsCovered
<1>4. CASE place # "idle"
  <2>1. OneThread(p)'
    BY <1>1, <1>2, <1>4 DEF OneThread, Covered, InDelivery, SameClaim, Occ
  <2> QED BY <2>1, ThreadIsCovered
<1> QED BY <1>3, <1>4

\* The run that delivers goes on, or is done.
LEMMA RunDelivers ==
    ASSUME TypeOK, StagesAreTrue, DeliveriesAreCovered, Calm, NEW r \in Runs,
           InDelivery(r), NEW place \in Stages, Put(r, place), thread' = thread,
           place \notin {"none", "running"} =>
              SameClaim(entry, entry') /\ entry'.count = entry.count,
           place = "noted" => begun'[Occ(entry)] > 0
    PROVE  DeliveriesAreCovered'
<1>1. OneRun(r) BY RunAlone
<1>2. /\ run'[r].at = place
      /\ place # "none" => run'[r].proc = run[r].proc /\ run'[r].occ = run[r].occ
      /\ \A s \in Runs : s # r => run'[s] = run[s]
  BY PutShape
<1>3. CASE place \in {"none", "running"}
  <2>1. NoDelivery' BY <1>1, <1>2, <1>3 DEF OneRun, NoDelivery, InDelivery
  <2> QED BY <2>1, NobodyIsCovered
<1>4. CASE place \notin {"none", "running"}
  <2>1. OneRun(r)'
    BY <1>1, <1>2, <1>4 DEF OneRun, Covered, InDelivery, SameClaim, Occ
  <2>2. run'[r].proc \in Procs BY <1>2, <1>4 DEF InDelivery, StagesAreTrue
  <2> QED BY <2>1, <2>2, RunIsCovered
<1> QED BY <1>3, <1>4

\* Nothing that concerns a delivery happens.
LEMMA DeliveryStays ==
    ASSUME DeliveriesAreCovered, Calm, SameClaim(entry, entry'),
           entry'.count = entry.count, thread' = thread, begun' = begun,
           \A r \in Runs : run'[r] = run[r] \/ run'[r].at \in {"none", "running"}
    PROVE  DeliveriesAreCovered'
<1>1. /\ \A p \in Procs : thread[p].at # "idle" => Covered(p, thread[p].occ)
      /\ \A r \in Runs : InDelivery(r) =>
            /\ Covered(run[r].proc, run[r].occ)
            /\ thread[run[r].proc].at = "idle"
            /\ \A s \in Runs : InDelivery(s) => s = r
            /\ run[r].at = "noted" => begun[Occ(entry)] > 0
  BY DEF Calm, DeliveriesAreCovered
<1>2. \A r \in Runs : InDelivery(r)' => InDelivery(r) /\ run'[r] = run[r]
  BY DEF InDelivery
<1>3. Occ(entry') = Occ(entry) BY DEF Occ
<1> QED BY <1>1, <1>2, <1>3 DEF DeliveriesAreCovered, Covered, SameClaim

LEMMA HumanCovered ==
    ASSUME TypeOK, StagesAreTrue, DeliveriesAreCovered, Calm, NEW p \in Procs,
           Cancel(p) \/ RevokeGrant(p) \/ Rearm(p), entry'.there
    PROVE  DeliveriesAreCovered'
<1>0. Typed BY TypeIs
<1>1. thread' = thread /\ run' = run /\ begun' = begun
  BY DEF Cancel, RevokeGrant, Rearm, history
<1>2. CASE Cancel(p)
  <2>1. entry' = entry \/ entry' = Gone(entry)
    BY <1>2, CommitShape, <1>0 DEF Cancel, Remove, Typed
  <2>2. entry' = entry BY <2>1, GoneShape, <1>0 DEF Typed, Entries
  <2> QED BY <2>2, <1>1, DeliveryStays DEF SameClaim
<1>3. CASE RevokeGrant(p)
  <2> DEFINE changed == [entry EXCEPT !.wake = FALSE, !.started = FALSE,
                                      !.owner = None, !.used = 0]
  <2>1. SameClaim(entry, changed) /\ changed.count = entry.count
    BY <1>0 DEF Typed, Entries, SameClaim
  <2>2. \E outcome \in Outcomes : Commit(outcome, changed) BY <1>3 DEF RevokeGrant
  <2> HIDE DEF changed
  <2>3. SameClaim(entry, entry') /\ entry'.count = entry.count
    BY <2>1, <2>2, CommitShape, <1>0 DEF Typed, SameClaim
  <2> QED BY <2>3, <1>1, DeliveryStays
<1>4. CASE Rearm(p)
  <2>1. PICK w : \E outcome \in Outcomes :
          Commit(outcome, [entry EXCEPT !.owner = p, !.retries = 0, !.wait = w])
    BY <1>4 DEF Rearm
  <2> DEFINE changed == [entry EXCEPT !.owner = p, !.retries = 0, !.wait = w]
  <2>2. SameClaim(entry, changed) /\ changed.count = entry.count
    BY <1>0 DEF Typed, Entries, SameClaim
  <2> HIDE DEF changed
  <2>3. SameClaim(entry, entry') /\ entry'.count = entry.count
    BY <2>1, <2>2, CommitShape, <1>0 DEF Typed, SameClaim, changed
  <2> QED BY <2>3, <1>1, DeliveryStays
<1> QED BY <1>2, <1>3, <1>4

LEMMA TickCovered ==
    ASSUME NoSkips, TypeOK, RecordIsTrue, StagesAreTrue, DeliveriesAreCovered, Calm,
           NEW p \in Procs, Tick(p), entry'.there
    PROVE  DeliveriesAreCovered'
<1>0. Typed BY TypeIs
<1>1. SameClaim(entry, entry) BY DEF SameClaim
<1>2. CASE Claim(p)
  <2>1. run' = run /\ begun' = begun BY <1>2 DEF Claim, history
  <2>2. SameFire(entry, entry') BY <1>2, ClaimShape
  <2>3. CASE thread' = thread /\ SameClaim(entry, entry')
    BY <2>1, <2>2, <2>3, DeliveryStays DEF SameFire
  <2>4. CASE ~(thread' = thread /\ SameClaim(entry, entry'))
    <3>1. /\ ~entry.live
          /\ thread'[p].occ = Occ(entry)
          /\ \A q \in Procs : q # p => thread'[q] = thread[q]
          /\ entry'.holder = p /\ entry'.live
      BY <1>2, <2>4, ClaimShape DEF NoSkips, Calm
    <3>2. /\ \A q \in Procs : thread[q].at = "idle"
          /\ \A r \in Runs : ~InDelivery(r)
      BY <3>1 DEF Calm, DeliveriesAreCovered, Covered
    <3>3. OneThread(p)'
      BY <3>1, <3>2, <2>1, <2>2 DEF OneThread, Covered, InDelivery, SameFire, Occ
    <3> QED BY <3>3, ThreadIsCovered
  <2> QED BY <2>3, <2>4
<1>3. CASE ChooseNotify(p) \/ ChooseDefer(p)
  <2>1. /\ run' = run /\ entry' = entry /\ thread[p].at # "idle"
        /\ Goto(p, "notify") \/ Goto(p, "defer")
    BY <1>3 DEF ChooseNotify, ChooseDefer
  <2> QED BY <2>1, <1>1, ThreadDelivers DEF Places
<1>4. CASE ChooseCancel(p)
  <2>1. /\ run' = run /\ thread[p].at # "idle"
        /\ \/ Goto(p, "retry") /\ entry' = entry
           \/ Goto(p, "idle")
    <3>1. PICK outcome \in Outcomes :
            IF Raises(outcome)
            THEN Commit(outcome, entry) /\ Goto(p, "retry")
            ELSE Goto(p, "idle")
      BY <1>4 DEF ChooseCancel
    <3>2. Commit(outcome, entry) => entry' = entry BY CommitShape, <1>0 DEF Typed
    <3> QED BY <3>1, <3>2, <1>4 DEF ChooseCancel
  <2> QED BY <2>1, <1>1, ThreadDelivers DEF Places
<1>5. CASE Start(p)
  <2>1. thread[p].at # "idle" BY <1>5, StartShape
  <2>2. CASE run' = run /\ entry' = entry
    BY <1>5, <2>1, <2>2, <1>1, StartShape, ThreadDelivers DEF Places
  <2>3. CASE ~(run' = run /\ entry' = entry)
    <3> DEFINE new == [at |-> "queued", proc |-> p, occ |-> thread[p].occ]
    <3>1. PICK r \in Runs : Goto(p, "idle") /\ run' = [run EXCEPT ![r] = new]
      BY <1>5, <2>3, StartShape
    <3>2. new.at = "queued" /\ new.proc = p /\ new.occ = thread[p].occ OBVIOUS
    <3> HIDE DEF new
    <3>3. /\ run'[r] = new /\ \A s \in Runs : s # r => run'[s] = run[s]
      BY <3>1, <1>0 DEF Typed
    <3>4. OneThread(p) BY <2>1, ThreadAlone
    <3>5. /\ thread'[p].at = "idle"
          /\ \A q \in Procs : q # p => thread'[q] = thread[q]
      BY <3>1, GotoShape DEF Places
    <3>6. SameClaim(entry, entry') /\ entry'.count = entry.count BY <1>5, StartShape
    <3>7. OneRun(r)'
      BY <3>2, <3>3, <3>4, <3>5, <3>6
         DEF OneThread, OneRun, Covered, InDelivery, SameClaim, Occ
    <3> QED BY <3>7, <3>2, <3>3, RunIsCovered
  <2> QED BY <2>2, <2>3
<1>6. CASE DoDefer(p)
  <2>1. PICK outcome \in Outcomes, next \in {"retry", "notify", "idle"} :
          Defer(p, outcome, next, "retry", "notify", "idle") /\ Goto(p, next)
    BY <1>6 DEF DoDefer
  <2>2. run' = run /\ thread[p].at # "idle" BY <1>6 DEF DoDefer
  <2>3. entry.holder = p BY <2>2, ThreadAlone DEF OneThread, Covered
  <2>4. SameFire(entry, entry') /\ (next = "idle" \/ SameClaim(entry, entry'))
    BY <2>1, <2>3, DeferShape
  <2> QED BY <2>1, <2>2, <2>4, ThreadDelivers DEF Places, SameFire
<1>7. CASE DoNotify(p)
  <2>1. /\ run' = run /\ entry' = entry /\ thread[p].at # "idle"
        /\ Goto(p, "ack") \/ Goto(p, "retry")
    BY <1>7 DEF DoNotify
  <2> QED BY <2>1, <1>1, ThreadDelivers DEF Places
<1>8. CASE DoAck(p)
  <2>1. PICK outcome \in Outcomes :
          /\ Mark(p, FALSE, outcome)
          /\ Goto(p, IF Raises(outcome) THEN "retry" ELSE "idle")
    BY <1>8 DEF DoAck
  <2>2. /\ run' = run /\ thread[p].at # "idle"
        /\ \/ Goto(p, "retry") /\ entry' = entry
           \/ Goto(p, "idle")
    BY <1>8, <2>1, MarkShape DEF DoAck, Raises
  <2> QED BY <2>2, <1>1, ThreadDelivers DEF Places
<1>9. CASE DoRetry(p)
  <2>1. run' = run /\ thread[p].at # "idle" /\ Goto(p, "idle") BY <1>9, RetryShape DEF DoRetry
  <2> QED BY <2>1, ThreadDelivers DEF Places
<1> QED BY <1>2, <1>3, <1>4, <1>5, <1>6, <1>7, <1>8, <1>9 DEF Tick
LEMMA WorkCovered ==
    ASSUME TypeOK, RecordIsTrue, StagesAreTrue, DeliveriesAreCovered, Calm,
           NEW r \in Runs, Work(r), entry'.there
    PROVE  DeliveriesAreCovered'
<1>0. Typed BY TypeIs
<1>1. SameClaim(entry, entry) BY DEF SameClaim
<1>2. CASE Refuse(r)
  <2>1. InDelivery(r) /\ Put(r, "failing") /\ entry' = entry /\ thread' = thread
    BY <1>2 DEF Refuse, InDelivery
  <2> QED BY <2>1, <1>1, RunDelivers DEF Stages
<1>3. CASE Admit(r)
  <2>1. InDelivery(r) /\ thread' = thread BY <1>3 DEF Admit, InDelivery
  <2>2. /\ SameClaim(entry, entry') /\ entry'.count = entry.count
        /\ Occ(entry) \in Occurrences
        /\ \/ Put(r, "failing")
           \/ Put(r, "noted") /\ begun' = [begun EXCEPT ![Occ(entry)] = @ + 1]
    BY <1>3, AdmitShape
  <2>3. CASE Put(r, "failing") BY <2>1, <2>2, <2>3, RunDelivers DEF Stages
  <2>4. CASE Put(r, "noted") /\ begun' = [begun EXCEPT ![Occ(entry)] = @ + 1]
    <3>1. begun'[Occ(entry)] > 0 BY <2>2, <2>4, <1>0 DEF Typed
    <3> QED BY <3>1, <2>1, <2>2, <2>4, RunDelivers DEF Stages
  <2> QED BY <2>2, <2>3, <2>4
<1>4. CASE MarkStarted(r)
  <2>1. /\ InDelivery(r) /\ thread' = thread
        /\ Put(r, "none") \/ Put(r, "running")
    BY <1>4 DEF MarkStarted, InDelivery
  <2> QED BY <2>1, RunDelivers DEF Stages
<1>5. CASE RunEnds(r)
  <2>1. /\ Put(r, "none") /\ UNCHANGED <<entry, thread, begun>>
    BY <1>5 DEF RunEnds, history
  <2>2. \A s \in Runs : run'[s] = run[s] \/ run'[s].at \in {"none", "running"}
    BY <2>1, PutShape DEF Stages
  <2> QED BY <2>1, <2>2, <1>1, DeliveryStays
<1>6. CASE Terminal(r)
  <2>1. PICK outcome \in Outcomes, next \in {"none", "giving_up"} :
          Defer(run[r].proc, outcome, next, "none", "giving_up", "none") /\ Put(r, next)
    BY <1>6 DEF Terminal
  <2>2. InDelivery(r) /\ thread' = thread BY <1>6 DEF Terminal, InDelivery
  <2>3. entry.holder = run[r].proc BY <2>2, RunAlone DEF OneRun, Covered
  <2>4. SameFire(entry, entry') /\ (next = "none" \/ SameClaim(entry, entry'))
    BY <2>1, <2>3, DeferShape
  <2> QED BY <2>1, <2>2, <2>4, RunDelivers DEF Stages, SameFire
<1>7. CASE GiveUp(r)
  <2>1. /\ InDelivery(r) /\ thread' = thread /\ entry' = entry
        /\ Put(r, "closing") \/ Put(r, "none")
    BY <1>7 DEF GiveUp, InDelivery
  <2> QED BY <2>1, <1>1, RunDelivers DEF Stages
<1>8. CASE Close(r)
  <2>1. InDelivery(r) /\ thread' = thread /\ Put(r, "none")
    BY <1>8 DEF Close, InDelivery
  <2> QED BY <2>1, RunDelivers DEF Stages
<1> QED BY <1>2, <1>3, <1>4, <1>5, <1>6, <1>7, <1>8 DEF Work

\* A crash takes its thread and its runs along; the others keep their claim.
LEMMA CrashCovered ==
    ASSUME TypeOK, StagesAreTrue, DeliveriesAreCovered, Calm, NEW p \in Procs, Fallen(p)
    PROVE  DeliveriesAreCovered'
<1>1. /\ SameFire(entry, entry') /\ entry'.live = entry.live
      /\ entry.holder # p => entry'.holder = entry.holder
      /\ thread'[p].at = "idle" /\ \A q \in Procs : q # p => thread'[q] = thread[q]
      /\ \A r \in Runs : run'[r] = IF run[r].proc = p THEN NoRun ELSE run[r]
      /\ begun' = begun
  BY FallenShape DEF Idle, Fallen, history
<1>2. Occ(entry') = Occ(entry) BY <1>1 DEF Occ, SameFire
<1>3. ASSUME NEW q \in Procs, q # p, NEW o, Covered(q, o)
      PROVE  entry'.holder = q /\ entry'.live /\ o = Occ(entry')
  BY <1>1, <1>2, <1>3 DEF Covered
<1>4. ASSUME NEW q \in Procs, thread'[q].at # "idle"
      PROVE  entry'.holder = q /\ entry'.live /\ thread'[q].occ = Occ(entry')
  <2>1. q # p /\ thread'[q] = thread[q] BY <1>1, <1>4
  <2>2. Covered(q, thread[q].occ) BY <2>1, <1>4 DEF Calm, DeliveriesAreCovered
  <2> QED BY <2>1, <2>2, <1>3
<1>5. \A r \in Runs : run'[r].at \notin {"none", "running"} =>
        InDelivery(r) /\ run'[r] = run[r] /\ run[r].proc # p /\ run[r].proc \in Procs
  BY <1>1 DEF InDelivery, StagesAreTrue, NoRun
<1>6. ASSUME NEW r \in Runs, run'[r].at \notin {"none", "running"}
      PROVE  /\ entry'.holder = run'[r].proc /\ entry'.live
             /\ run'[r].occ = Occ(entry')
             /\ thread'[run'[r].proc].at = "idle"
             /\ \A s \in Runs : run'[s].at \notin {"none", "running"} => s = r
             /\ run'[r].at = "noted" => begun'[Occ(entry')] > 0
  <2>1. OneRun(r) BY <1>5, <1>6, RunAlone
  <2>2. Covered(run[r].proc, run[r].occ) /\ thread[run[r].proc].at = "idle"
    BY <2>1, <1>5, <1>6 DEF OneRun
  <2> QED BY <2>1, <2>2, <1>1, <1>2, <1>3, <1>5, <1>6 DEF OneRun
<1> QED BY <1>4, <1>6 DEF DeliveriesAreCovered, Covered, InDelivery

\* A claim that runs out under a delivery says so.
LEMMA TimeCovered ==
    ASSUME TypeOK, StagesAreTrue, DeliveriesAreCovered, Calm, Time, ~overrun'
    PROVE  DeliveriesAreCovered'
<1>1. /\ SameFire(entry, entry') /\ entry'.holder = entry.holder
      /\ UNCHANGED <<thread, run, begun>>
      /\ entry'.live = entry.live \/ overrun' = (overrun \/ Delivering(entry.holder))
  BY TimeShape
<1>2. CASE entry'.live = entry.live
  BY <1>1, <1>2, DeliveryStays DEF SameFire, SameClaim
<1>3. CASE ~Delivering(entry.holder)
  <2>1. \A p \in Procs : thread[p].at = "idle"
    BY <1>3 DEF DeliveriesAreCovered, Calm, Covered, Delivering
  <2>2. \A r \in Runs : ~InDelivery(r)
    BY <1>3 DEF DeliveriesAreCovered, Calm, Covered, Delivering, InDelivery
  <2>3. NoDelivery' BY <2>1, <2>2, <1>1 DEF NoDelivery, InDelivery
  <2> QED BY <2>3, NobodyIsCovered
<1> QED BY <1>1, <1>2, <1>3

LEMMA OverrunStays == Moves => overrun' = overrun
BY DEF Moves, Cancel, RevokeGrant, Rearm, Tick, Claim, ChooseNotify, ChooseCancel,
       ChooseDefer, Start, DoDefer, DoNotify, DoAck, DoRetry, Crash, CrashAdmitting,
       Fallen, Work, Refuse, Admit, MarkStarted, RunEnds, Terminal, GiveUp, Close, history

LEMMA DeliveriesStep ==
    ASSUME NoSkips, TypeOK, RecordIsTrue, StagesAreTrue, DeliveriesAreCovered, Next
    PROVE  DeliveriesAreCovered'
<1>0. Typed BY TypeIs
<1> SUFFICES ASSUME Standing, ~overrun', entry'.there PROVE DeliveriesAreCovered'
  BY DEF DeliveriesAreCovered
<1>1. CASE Time
  <2>1. /\ SameFire(entry, entry')
        /\ overrun' = overrun \/ overrun' = (overrun \/ Delivering(entry.holder))
    BY <1>1, TimeShape
  <2>2. ~overrun BY <2>1, <1>0 DEF Typed
  <2>3. entry.there BY <2>1 DEF SameFire
  <2>4. Calm BY <2>2, <2>3 DEF Calm
  <2> QED BY <2>4, <1>1, TimeCovered
<1>2. CASE \E p \in Procs : Add(p)
  <2>1. ledger.state = "none" /\ thread' = thread /\ run' = run BY <1>2 DEF Add
  <2>2. NoDelivery' BY <2>1 DEF RecordIsTrue, NoDelivery, InDelivery
  <2> QED BY <2>2, NobodyIsCovered
<1>3. CASE Moves
  <2>1. ~overrun BY <1>3, OverrunStays
  <2>2. entry.there
    <3>1. EntryChange \/ ~entry'.there BY <1>3, MovesShape
    <3> QED BY <3>1 DEF EntryChange
  <2>3. Calm BY <2>1, <2>2 DEF Calm
  <2>4. ASSUME NEW p \in Procs, Cancel(p) \/ RevokeGrant(p) \/ Rearm(p)
        PROVE  DeliveriesAreCovered'
    BY <2>3, <2>4, HumanCovered
  <2>5. ASSUME NEW p \in Procs, Tick(p) PROVE DeliveriesAreCovered'
    BY <2>3, <2>5, TickCovered
  <2>6. ASSUME NEW p \in Procs, Crash(p) PROVE DeliveriesAreCovered'
    BY <2>3, <2>6, CrashCovered DEF Crash
  <2>7. ASSUME NEW r \in Runs, Work(r) PROVE DeliveriesAreCovered'
    BY <2>3, <2>7, WorkCovered
  <2>8. ASSUME NEW r \in Runs, CrashAdmitting(r) PROVE DeliveriesAreCovered'
    <3>1. run[r].proc \in Procs /\ Fallen(run[r].proc)
      BY <2>8 DEF CrashAdmitting, StagesAreTrue
    <3> QED BY <3>1, <2>3, CrashCovered
  <2> QED BY <1>3, <2>4, <2>5, <2>6, <2>7, <2>8 DEF Moves
<1> QED BY <1>1, <1>2, <1>3, NextIs

-----------------------------------------------------------------------------
\* What has passed is answered

Answered(o) == o \in worked \/ o \in notified
WillBeAnswered(o) == o \in worked' \/ o \in notified'

LEMMA AnsweredStays ==
    ASSUME TypeOK, RecordIsTrue, StagesAreTrue, Next, NEW o \in Occurrences, Answered(o)
    PROVE  Answered(o)'
<1>1. worked \subseteq worked' /\ notified \subseteq notified'
  BY DEF Next, Human, Add, Cancel, RevokeGrant, RearmLooks, Rearm, RearmFails, Tick, Claim,
         ChooseNotify,
         ChooseCancel, ChooseDefer, Start, DoDefer, DoNotify, DoAck, DoRetry, Crash,
         CrashAdmitting, Fallen, Work, Refuse, Admit, MarkStarted, RunEnds, Terminal,
         GiveUp, Close, AnchorPasses, RetryPasses, LeaseExpires, GrantExpires, JobEnds,
         history
<1> QED BY <1>1 DEF Answered

\* A wake that fires once has one occurrence.
LEMMA OneOccurrence ==
    ASSUME TypeOK, RecordIsTrue, ~Standing, entry.there
    PROVE  Occ(entry) = 1 /\ Occurrences = {1}
BY TypeIs, Constants DEF Typed, Entries, RecordIsTrue, Occ, Occurrences

\* The entry moves on only from an occurrence that is answered.
LEMMA MarkIsAnswered ==
    ASSUME TypeOK, RecordIsTrue, WillBeAnswered(Occ(entry)), NEW p, NEW anyone \in BOOLEAN,
           NEW outcome \in Outcomes, Mark(p, anyone, outcome)
    PROVE  \A o \in 1..entry'.count : o \in 1..entry.count \/ WillBeAnswered(o)
<1>0. Typed BY TypeIs
<1>1. CASE entry' = entry BY <1>1
<1>2. CASE entry.there /\ entry' \in Advanced(entry)
  <2>1. entry.count < MaxFires BY <1>2 DEF RecordIsTrue
  <2>2. entry'.count = entry.count + 1 BY <2>1, <1>2, <1>0, AdvancedShape DEF Typed
  <2>3. entry.count \in Nat BY <1>0, Constants DEF Typed, Entries
  <2> QED BY <2>2, <2>3 DEF Occ
<1> QED BY <1>1, <1>2, MarkShape

LEMMA PastIsKept ==
    ASSUME TypeOK, RecordIsTrue, StagesAreTrue, DeliveriesAreCovered, Moves,
           Standing => ~overrun
    PROVE  \A o \in 1..entry'.count : o \in 1..entry.count \/ WillBeAnswered(o)
<1>0. Typed BY TypeIs
<1>1. entry.there => Calm \/ (~Standing /\ Occ(entry) = 1 /\ Occurrences = {1})
  BY OneOccurrence DEF Calm
<1>2. ASSUME NEW p, NEW anyone \in BOOLEAN, NEW outcome \in Outcomes,
             Mark(p, anyone, outcome),
             entry.there /\ (anyone \/ entry.holder = p) => WillBeAnswered(Occ(entry))
      PROVE  \A o \in 1..entry'.count : o \in 1..entry.count \/ WillBeAnswered(o)
  <2>1. CASE entry.there /\ (anyone \/ entry.holder = p)
    BY <2>1, <1>2, MarkIsAnswered
  <2>2. CASE ~(entry.there /\ (anyone \/ entry.holder = p))
    <3>1. entry' = entry BY <2>2, <1>2 DEF Mark
    <3> QED BY <3>1
  <2> QED BY <2>1, <2>2
<1>3. ASSUME NEW p \in Procs, DoAck(p)
      PROVE  \A o \in 1..entry'.count : o \in 1..entry.count \/ WillBeAnswered(o)
  <2>1. PICK outcome \in Outcomes : Mark(p, FALSE, outcome) BY <1>3 DEF DoAck
  <2>2. thread[p].at = "ack" /\ notified' = notified BY <1>3 DEF DoAck, history
  <2>3. thread[p].occ \in notified /\ thread[p].occ \in Occurrences
    BY <2>2 DEF StagesAreTrue
  <2>4. entry.there => thread[p].occ = Occ(entry)
    <3>1. Calm => thread[p].occ = Occ(entry)
      BY <2>2, ThreadAlone DEF OneThread, Covered
    <3> QED BY <3>1, <2>3, <1>1
  <2> QED BY <2>1, <2>2, <2>3, <2>4, <1>2 DEF WillBeAnswered
<1>4. ASSUME NEW r \in Runs, MarkStarted(r)
      PROVE  \A o \in 1..entry'.count : o \in 1..entry.count \/ WillBeAnswered(o)
  <2>1. PICK outcome \in Outcomes :
          /\ Mark(run[r].proc, FALSE, outcome)
          /\ worked' = IF Raises(outcome) THEN worked ELSE worked \union {run[r].occ}
    BY <1>4 DEF MarkStarted
  <2>2. CASE Raises(outcome)
    <3>1. entry' = entry
      BY <2>1, <2>2, CommitShape, <1>0 DEF Raises, Mark, Commit
    <3> QED BY <3>1
  <2>3. CASE ~Raises(outcome)
    <3>1. run[r].at = "noted" /\ run[r].occ \in worked'
      BY <1>4, <2>1, <2>3 DEF MarkStarted
    <3>2. run[r].occ \in Occurrences BY <3>1 DEF StagesAreTrue
    <3>3. entry.there => run[r].occ = Occ(entry)
      <4>1. Calm => run[r].occ = Occ(entry)
        BY <3>1, RunAlone DEF OneRun, Covered, InDelivery
      <4> QED BY <4>1, <3>2, <1>1
    <3> QED BY <2>1, <3>1, <3>3, <1>2 DEF WillBeAnswered
  <2> QED BY <2>2, <2>3
<1>5. ASSUME NEW r \in Runs, Close(r)
      PROVE  \A o \in 1..entry'.count : o \in 1..entry.count \/ WillBeAnswered(o)
  <2>1. PICK outcome \in Outcomes : Mark(run[r].proc, TRUE, outcome)
    BY <1>5 DEF Close
  <2>2. run[r].at = "closing" /\ notified' = notified BY <1>5 DEF Close, history
  <2>3. run[r].occ \in notified /\ run[r].occ \in Occurrences
    BY <2>2 DEF StagesAreTrue
  <2>4. entry.there => run[r].occ = Occ(entry)
    <3>1. Calm => run[r].occ = Occ(entry)
      BY <2>2, RunAlone DEF OneRun, Covered, InDelivery
    <3> QED BY <3>1, <2>3, <1>1
  <2> QED BY <2>1, <2>2, <2>3, <2>4, <1>2 DEF WillBeAnswered
<1>6. CASE entry'.count = entry.count BY <1>6
<1>7. ASSUME NEW p \in Procs, NEW outcome \in Outcomes, Remove(p, outcome)
      PROVE  entry'.count = entry.count
  <2>1. entry.count \in 0..MaxFires BY <1>0 DEF Typed, Entries
  <2>2. Commit(outcome, Gone(entry)) BY <1>7 DEF Remove
  <2> QED BY <2>1, <2>2, CommitShape, GoneShape, <1>0 DEF Typed
<1>8. ASSUME NEW p \in Procs,
             \/ Cancel(p) \/ RevokeGrant(p) \/ Rearm(p) \/ Crash(p)
             \/ Tick(p) /\ ~DoAck(p)
      PROVE  entry'.count = entry.count
  <2>1. CASE Cancel(p) BY <2>1, <1>7 DEF Cancel
  <2>2. CASE RevokeGrant(p)
    <3>1. entry \in Entries BY <1>0 DEF Typed
    <3> QED BY <3>1, <2>2 DEF RevokeGrant, Commit, Entries
  <2>3. CASE Rearm(p)
    <3>1. entry \in Entries BY <1>0 DEF Typed
    <3> QED BY <3>1, <2>3 DEF Rearm, Commit, Entries
  <2>4. CASE Crash(p) BY <2>4, FallenShape DEF Crash, SameFire
  <2>5. CASE Claim(p) BY <2>5, ClaimShape DEF SameFire
  <2>6. CASE ChooseNotify(p) \/ ChooseDefer(p) \/ DoNotify(p)
    BY <2>6 DEF ChooseNotify, ChooseDefer, DoNotify
  <2>7. CASE ChooseCancel(p)
    <3>1. PICK outcome \in Outcomes :
            Commit(outcome, entry) \/ Remove(p, outcome)
      BY <2>7 DEF ChooseCancel
    <3> QED BY <3>1, <1>7, CommitShape, <1>0 DEF Typed
  <2>8. CASE Start(p) BY <2>8, StartShape
  <2>9. CASE DoDefer(p)
    <3>1. PICK outcome \in Outcomes, next \in {"retry", "notify", "idle"} :
            Defer(p, outcome, next, "retry", "notify", "idle")
      BY <2>9 DEF DoDefer
    <3> QED BY <3>1, DeferShape DEF SameFire
  <2>10. CASE DoRetry(p) BY <2>10, RetryShape DEF SameFire
  <2> QED
    BY <1>8, <2>1, <2>2, <2>3, <2>4, <2>5, <2>6, <2>7, <2>8, <2>9, <2>10 DEF Tick
<1>9. ASSUME NEW r \in Runs,
             CrashAdmitting(r) \/ (Work(r) /\ ~MarkStarted(r) /\ ~Close(r))
      PROVE  entry'.count = entry.count
  <2>1. CASE CrashAdmitting(r)
    <3>1. run[r].proc \in Procs /\ Fallen(run[r].proc)
      BY <2>1 DEF CrashAdmitting, StagesAreTrue
    <3> QED BY <3>1, FallenShape DEF SameFire
  <2>2. CASE Admit(r) BY <2>2, AdmitShape
  <2>3. CASE Refuse(r) \/ RunEnds(r) \/ GiveUp(r) BY <2>3 DEF Refuse, RunEnds, GiveUp
  <2>4. CASE Terminal(r)
    <3>1. PICK outcome \in Outcomes, next \in {"none", "giving_up"} :
            Defer(run[r].proc, outcome, next, "none", "giving_up", "none")
      BY <2>4 DEF Terminal
    <3> QED BY <3>1, DeferShape DEF SameFire
  <2> QED BY <1>9, <2>1, <2>2, <2>3, <2>4 DEF Work
<1> QED BY <1>3, <1>4, <1>5, <1>6, <1>8, <1>9 DEF Moves

LEMMA PastStep ==
    ASSUME TypeOK, RecordIsTrue, StagesAreTrue, DeliveriesAreCovered, PastIsAnswered,
           Next, TypeOK'
    PROVE  PastIsAnswered'
<1>0. Typed BY TypeIs
<1> SUFFICES ASSUME Standing => ~overrun', NEW o \in 1..entry'.count
             PROVE  Answered(o)'
  BY DEF PastIsAnswered, Answered
<1>1. 1..entry.count \subseteq Occurrences
  BY <1>0, Constants DEF Typed, Entries, Occurrences
<1>2. ASSUME Standing => ~overrun, o \in 1..entry.count PROVE Answered(o)'
  BY <1>1, <1>2, AnsweredStays DEF PastIsAnswered, Answered
<1>3. CASE Moves
  <2>1. Standing => ~overrun BY <1>3, OverrunStays
  <2>2. o \in 1..entry.count \/ WillBeAnswered(o) BY <1>3, <2>1, PastIsKept
  <2> QED BY <2>1, <2>2, <1>2 DEF Answered, WillBeAnswered
<1>4. CASE Time
  <2>1. /\ entry'.count = entry.count
        /\ overrun' = overrun \/ overrun' = (overrun \/ Delivering(entry.holder))
    BY <1>4, TimeShape DEF SameFire
  <2>2. Standing => ~overrun BY <2>1, <1>0 DEF Typed
  <2> QED BY <2>1, <2>2, <1>2
<1>5. CASE \E p \in Procs : Add(p)
  <2>1. PICK p \in Procs, outcome \in Outcomes : Commit(outcome, Fresh(p))
    BY <1>5 DEF Add
  <2>2. /\ ledger.state = "none"
        /\ overrun' = overrun
    BY <1>5 DEF Add, history
  <2>3. entry' = entry \/ entry'.count = 0
    BY <2>1, FreshShape, CommitShape, <1>0 DEF Typed
  <2>4. o \in 1..entry.count BY <2>3
  <2> QED BY <2>2, <2>4, <1>2
<1> QED BY <1>3, <1>4, <1>5, NextIs

-----------------------------------------------------------------------------
\* One fire runs at a time

\* One process at most can run what it claims.  The previous fire is looked for in
\* the registry of the process (runner.is_running), which shows no other's runs.
OneCanRun == \A p, q \in Procs \ CannotRun : p = q

ChildKept == entry'.there => entry.there /\ entry'.child = entry.child
RunsEnd == \A r \in Runs : run'[r].at # "none" => run[r].at # "none"
ThreadsKeep ==
    \A p \in Procs : thread'[p].at = "claimed" =>
        thread[p].at = "claimed" /\ thread'[p].child = thread[p].child

LEMMA FaultsStay ==
    ASSUME TypeOK, Next
    PROVE  faults' = 0 => faults = 0
<1>1. faults \in Nat BY Constants DEF TypeOK
<1>2. \A outcome, changed : Commit(outcome, changed) => faults' \in {faults, faults + 1}
  BY DEF Commit
<1>3. \A p, anyone, outcome : Mark(p, anyone, outcome) => faults' \in {faults, faults + 1}
  BY <1>2 DEF Mark
<1>4. \A p, outcome, next, raised, spent, done :
        Defer(p, outcome, next, raised, spent, done) => faults' \in {faults, faults + 1}
  BY <1>2 DEF Defer
<1>5. \A p \in Procs : Human(p) \/ Crash(p) => faults' \in {faults, faults + 1}
  BY <1>2 DEF Human, Add, Cancel, Remove, RevokeGrant, RearmLooks, Rearm, RearmFails,
     Crash,     Fallen
<1>6. ASSUME NEW p \in Procs, Tick(p) PROVE faults' \in {faults, faults + 1}
  <2>1. Claim(p) => faults' \in {faults, faults + 1} BY <1>2 DEF Claim
  <2>2. ChooseCancel(p) => faults' \in {faults, faults + 1}
    BY <1>2 DEF ChooseCancel, Remove
  <2>3. Start(p) => faults' \in {faults, faults + 1} BY <1>2 DEF Start
  <2>4. DoDefer(p) => faults' \in {faults, faults + 1} BY <1>4 DEF DoDefer
  <2>5. DoNotify(p) \/ DoAck(p) => faults' \in {faults, faults + 1}
    BY <1>3 DEF DoNotify, DoAck
  <2>6. DoRetry(p) => faults' \in {faults, faults + 1} BY <1>2 DEF DoRetry
  <2>7. ChooseNotify(p) \/ ChooseDefer(p) => faults' = faults
    BY DEF ChooseNotify, ChooseDefer
  <2> QED BY <1>6, <2>1, <2>2, <2>3, <2>4, <2>5, <2>6, <2>7 DEF Tick
<1>7. ASSUME NEW r \in Runs, Work(r) \/ CrashAdmitting(r)
      PROVE  faults' \in {faults, faults + 1}
  <2>1. CrashAdmitting(r) \/ Refuse(r) \/ Admit(r) => faults' \in {faults, faults + 1}
    BY <1>2, <1>3, <1>4 DEF CrashAdmitting, Fallen, Refuse, Admit
  <2>2. MarkStarted(r) \/ RunEnds(r) => faults' \in {faults, faults + 1}
    BY <1>2, <1>3, <1>4 DEF MarkStarted, RunEnds
  <2>3. Terminal(r) \/ GiveUp(r) \/ Close(r) => faults' \in {faults, faults + 1}
    BY <1>2, <1>3, <1>4 DEF Terminal, GiveUp, Close
  <2> QED BY <1>7, <2>1, <2>2, <2>3 DEF Work
<1>8. Time => faults' = faults BY TimeShape
<1> QED BY <1>1, <1>5, <1>6, <1>7, <1>8 DEF Next, Time

\* Nothing new is started or claimed.
LEMMA ChildStays ==
    ASSUME ChildIsKnown, Standing /\ ~overrun' /\ faults' = 0 => ~overrun /\ faults = 0,
           ChildKept, RunsEnd, ThreadsKeep
    PROVE  ChildIsKnown'
BY DEF ChildIsKnown, ChildKept, RunsEnd, ThreadsKeep

LEMMA MarkKeeps ==
    ASSUME TypeOK, RecordIsTrue, NEW p, NEW anyone \in BOOLEAN,
           NEW outcome \in Outcomes, Mark(p, anyone, outcome)
    PROVE  ChildKept
<1>1. entry \in Entries BY DEF TypeOK
<1>2. CASE entry' = entry BY <1>2 DEF ChildKept
<1>3. CASE entry.there /\ entry' \in Advanced(entry)
  <2>1. entry.count < MaxFires BY <1>3 DEF RecordIsTrue
  <2> QED BY <2>1, <1>1, <1>3, AdvancedShape DEF ChildKept
<1> QED BY <1>2, <1>3, MarkShape

LEMMA HumanKeeps ==
    ASSUME TypeOK, NEW p \in Procs, Cancel(p) \/ RevokeGrant(p) \/ Rearm(p)
    PROVE  ChildKept /\ RunsEnd /\ ThreadsKeep
<1>1. Typed BY TypeIs
<1>2. run' = run /\ thread' = thread BY DEF Cancel, RevokeGrant, Rearm
<1>3. CASE Cancel(p)
  <2>1. entry' = entry \/ entry' = Gone(entry)
    BY <1>3, CommitShape, <1>1 DEF Cancel, Remove, Typed
  <2>2. ~Gone(entry).there BY <1>1, GoneShape DEF Typed, Entries
  <2> QED BY <2>1, <2>2, <1>2 DEF ChildKept, RunsEnd, ThreadsKeep
<1>4. CASE RevokeGrant(p) \/ Rearm(p)
  <2>1. entry \in Entries BY <1>1 DEF Typed
  <2>2. entry'.there = entry.there /\ entry'.child = entry.child
    BY <2>1, <1>4 DEF RevokeGrant, Rearm, Commit, Entries
  <2> QED BY <2>2, <1>2 DEF ChildKept, RunsEnd, ThreadsKeep
<1> QED BY <1>3, <1>4

LEMMA GotoKeeps ==
    ASSUME TypeOK, NEW p \in Procs, NEW place \in Places \ {"claimed"}, Goto(p, place)
    PROVE  ThreadsKeep
BY GotoShape DEF ThreadsKeep

\* What a thread does besides Claim and Start.
LEMMA TickKeeps ==
    ASSUME TypeOK, RecordIsTrue, NEW p \in Procs, Tick(p), ~Claim(p), ~Start(p)
    PROVE  ChildKept /\ RunsEnd /\ ThreadsKeep
<1>1. Typed BY TypeIs
<1>2. run' = run
  BY DEF Tick, ChooseNotify, ChooseCancel, ChooseDefer, DoDefer, DoNotify, DoAck, DoRetry
<1>3. RunsEnd BY <1>2 DEF RunsEnd
<1>4. \E place \in Places \ {"claimed"} : Goto(p, place)
  BY RetryShape
     DEF Tick, ChooseNotify, ChooseCancel, ChooseDefer, DoDefer, DoNotify, DoAck, DoRetry,
         Places
<1>5. ThreadsKeep BY <1>4, GotoKeeps
<1>6. CASE ChooseNotify(p) \/ ChooseDefer(p) \/ DoNotify(p)
  BY <1>6, <1>3, <1>5 DEF ChooseNotify, ChooseDefer, DoNotify, ChildKept
<1>7. CASE ChooseCancel(p)
  <2>1. \/ entry' = entry
        \/ entry' = Gone(entry)
    BY <1>7, CommitShape, <1>1 DEF ChooseCancel, Remove, Typed
  <2>2. ~Gone(entry).there BY <1>1, GoneShape DEF Typed, Entries
  <2> QED BY <2>1, <2>2, <1>3, <1>5 DEF ChildKept
<1>8. CASE DoDefer(p)
  <2>1. PICK outcome \in Outcomes, next \in {"retry", "notify", "idle"} :
          Defer(p, outcome, next, "retry", "notify", "idle")
    BY <1>8 DEF DoDefer
  <2>2. SameFire(entry, entry') BY <2>1, DeferShape
  <2> QED BY <2>2, <1>3, <1>5 DEF SameFire, ChildKept
<1>9. CASE DoAck(p)
  <2>1. PICK outcome \in Outcomes : Mark(p, FALSE, outcome) BY <1>9 DEF DoAck
  <2> QED BY <2>1, MarkKeeps, <1>3, <1>5
<1>10. CASE DoRetry(p)
  <2>1. SameFire(entry, entry') BY <1>10, RetryShape
  <2> QED BY <2>1, <1>3, <1>5 DEF SameFire, ChildKept
<1> QED BY <1>6, <1>7, <1>8, <1>9, <1>10 DEF Tick

LEMMA WorkKeeps ==
    ASSUME TypeOK, RecordIsTrue, StagesAreTrue, NEW r \in Runs, Work(r)
    PROVE  ChildKept /\ RunsEnd /\ ThreadsKeep
<1>1. thread' = thread
  BY DEF Work, Refuse, Admit, MarkStarted, RunEnds, Terminal, GiveUp, Close
<1>2. ThreadsKeep BY <1>1 DEF ThreadsKeep
<1>3. run[r].at # "none" /\ \E place \in Stages : Put(r, place)
  BY DEF Work, Refuse, Admit, MarkStarted, RunEnds, Terminal, GiveUp, Close, Stages
<1>4. RunsEnd BY <1>3, PutShape DEF RunsEnd
<1>5. CASE Refuse(r) \/ RunEnds(r) \/ GiveUp(r)
  BY <1>5, <1>2, <1>4 DEF Refuse, RunEnds, GiveUp, ChildKept
<1>6. CASE Admit(r) BY <1>6, <1>2, <1>4, AdmitShape DEF ChildKept
<1>7. CASE MarkStarted(r) \/ Close(r)
  <2>1. \E anyone \in BOOLEAN, outcome \in Outcomes : Mark(run[r].proc, anyone, outcome)
    BY <1>7 DEF MarkStarted, Close
  <2> QED BY <2>1, <1>2, <1>4, MarkKeeps
<1>8. CASE Terminal(r)
  <2>1. PICK outcome \in Outcomes, next \in {"none", "giving_up"} :
          Defer(run[r].proc, outcome, next, "none", "giving_up", "none")
    BY <1>8 DEF Terminal
  <2>2. SameFire(entry, entry') BY <2>1, DeferShape
  <2> QED BY <2>2, <1>2, <1>4 DEF SameFire, ChildKept
<1> QED BY <1>5, <1>6, <1>7, <1>8 DEF Work

LEMMA CrashKeeps ==
    ASSUME TypeOK, NEW p \in Procs, Fallen(p)
    PROVE  ChildKept /\ RunsEnd /\ ThreadsKeep
BY FallenShape DEF ChildKept, RunsEnd, ThreadsKeep, SameFire, NoRun, Idle

\* A run is started where the previous one is known, and it has ended.
LEMMA StartKnown ==
    ASSUME OneCanRun, TypeOK, StagesAreTrue, DeliveriesAreCovered, ChildIsKnown,
           Standing, ~overrun, faults = 0, faults' = 0, NEW p \in Procs, Start(p)
    PROVE  ChildIsKnown'
<1>0. Typed BY TypeIs
<1>1. /\ thread[p].at = "claimed" /\ p \notin CannotRun /\ ~PreviousRuns(p)
      /\ entry'.there = entry.there
  BY StartShape
<1>2. entry.there BY DEF Start, MustNotify, Authority
<1>3. entry.holder = p
  BY <1>1, <1>2, ThreadAlone DEF Calm, OneThread, Covered
<1>4. \A r \in Runs : run[r].at = "none"
  <2> SUFFICES ASSUME NEW r \in Runs, run[r].at # "none" PROVE FALSE
    OBVIOUS
  <2>1. thread[p].child = r BY <1>1 DEF ChildIsKnown
  <2>2. run[r].proc = p BY <1>1 DEF StagesAreTrue, OneCanRun
  <2> QED BY <2>1, <2>2, <1>1 DEF PreviousRuns, Registered
<1>5. PICK place \in {"idle", "defer", "retry"} : Goto(p, place) BY StartShape
<1>6. \A q \in Procs \ CannotRun : thread'[q].at # "claimed"
  <2>1. thread'[p].at # "claimed" BY <1>5, GotoShape DEF Places
  <2> QED BY <2>1, <1>1 DEF OneCanRun
<1>7. CASE run' = run
  BY <1>4, <1>7 DEF ChildIsKnown
<1>8. CASE run' # run
  <2>1. PICK r \in Runs :
          /\ run' = [run EXCEPT ![r] =
               [at |-> "queued", proc |-> p, occ |-> thread[p].occ]]
          /\ entry'.child = r
    BY <1>8, <1>2, <1>3, StartShape
  <2>2. \A s \in Runs : run'[s].at # "none" => s = r
    BY <2>1, <1>4, <1>0 DEF Typed
  <2> QED BY <2>1, <2>2, <1>6 DEF ChildIsKnown
<1> QED BY <1>7, <1>8

LEMMA ClaimKnown ==
    ASSUME TypeOK, RecordIsTrue, ChildIsKnown, Standing, ~overrun, faults = 0,
           NEW p \in Procs, Claim(p)
    PROVE  ChildIsKnown'
<1>1. run' = run BY DEF Claim
<1>2. /\ SameFire(entry, entry') /\ entry.there
      /\ \A q \in Procs : q # p => thread'[q] = thread[q]
      /\ thread' = thread \/ thread'[p].child = entry.child
  BY ClaimShape
<1>3. ASSUME NEW r \in Runs, run[r].at # "none", NEW q \in Procs \ CannotRun,
             thread'[q].at = "claimed"
      PROVE  thread'[q].child = r
  BY <1>2, <1>3 DEF ChildIsKnown
<1> QED BY <1>1, <1>2, <1>3 DEF ChildIsKnown, SameFire

LEMMA ChildStep ==
    ASSUME OneCanRun, TypeOK, RecordIsTrue, StagesAreTrue, DeliveriesAreCovered,
           ChildIsKnown, Next
    PROVE  ChildIsKnown'
<1>0. Typed BY TypeIs
<1>1. CASE ~(Standing /\ ~overrun' /\ faults' = 0) BY <1>1 DEF ChildIsKnown
<1>2. CASE Standing /\ ~overrun' /\ faults' = 0
  <2>1. faults = 0 BY <1>2, FaultsStay
  <2>2. CASE Moves
    <3>1. ~overrun BY <1>2, <2>2, OverrunStays
    <3>2. CASE \E p \in Procs : Claim(p) BY <1>2, <2>1, <3>1, <3>2, ClaimKnown
    <3>3. CASE \E p \in Procs : Start(p) BY <1>2, <2>1, <3>1, <3>3, StartKnown
    <3>4. CASE ~\E p \in Procs : Claim(p) \/ Start(p)
      <4>1. \A p \in Procs : Cancel(p) \/ RevokeGrant(p) \/ Rearm(p) =>
              ChildKept /\ RunsEnd /\ ThreadsKeep
        BY HumanKeeps
      <4>2. \A p \in Procs : Tick(p) => ChildKept /\ RunsEnd /\ ThreadsKeep
        BY <3>4, TickKeeps
      <4>3. \A p \in Procs : Crash(p) => ChildKept /\ RunsEnd /\ ThreadsKeep
        BY CrashKeeps DEF Crash
      <4>4. \A r \in Runs : Work(r) => ChildKept /\ RunsEnd /\ ThreadsKeep
        BY WorkKeeps
      <4>5. \A r \in Runs : CrashAdmitting(r) => ChildKept /\ RunsEnd /\ ThreadsKeep
        BY CrashKeeps DEF CrashAdmitting, StagesAreTrue
      <4>6. ChildKept /\ RunsEnd /\ ThreadsKeep
        BY <2>2, <4>1, <4>2, <4>3, <4>4, <4>5 DEF Moves
      <4> QED BY <4>6, <2>1, <3>1, ChildStays
    <3> QED BY <3>2, <3>3, <3>4
  <2>3. CASE Time
    <3>1. /\ SameFire(entry, entry') /\ thread' = thread /\ run' = run
          /\ overrun' = overrun \/ overrun' = (overrun \/ Delivering(entry.holder))
      BY <2>3, TimeShape
    <3>2. ~overrun BY <3>1, <1>2, <1>0 DEF Typed
    <3>3. ChildKept /\ RunsEnd /\ ThreadsKeep
      BY <3>1 DEF SameFire, ChildKept, RunsEnd, ThreadsKeep
    <3> QED BY <3>2, <3>3, <2>1, ChildStays
  <2>4. CASE \E p \in Procs : Add(p)
    <3>1. ledger.state = "none" /\ run' = run BY <2>4 DEF Add
    <3>2. \A r \in Runs : run'[r].at = "none" BY <3>1 DEF RecordIsTrue
    <3> QED BY <3>2 DEF ChildIsKnown
  <2> QED BY <2>2, <2>3, <2>4, NextIs
<1> QED BY <1>1, <1>2

-----------------------------------------------------------------------------
\* The theorems

\* Every value keeps its type, the counts their bounds, and a delivery the
\* stage it has reached (count, wake_fires_used, retry_count).
THEOREM TypeCorrect == Spec => [](TypeOK /\ RecordIsTrue /\ StagesAreTrue)
<1> DEFINE I == TypeOK /\ RecordIsTrue /\ StagesAreTrue
<1>1. Init => I BY TypeInit
<1>2. I /\ [Next]_vars => I'
  <2> SUFFICES ASSUME I, [Next]_vars PROVE I'
    OBVIOUS
  <2>1. CASE Next
    <3>1. TypeOK'
      BY <2>1, HumanTyped, TickTyped, WorkTyped, TimeTyped, CrashTyped DEF Next, Time
    <3> QED BY <2>1, <3>1, RecordStep, StagesStep
  <2>2. CASE UNCHANGED vars
    <3>1. TypeOK' BY <2>2 DEF TypeOK, vars
    <3>2. RecordIsTrue' BY <2>2 DEF RecordIsTrue, vars
    <3>3. StagesAreTrue' BY <2>2 DEF StagesAreTrue, vars
    <3> QED BY <3>1, <3>2, <3>3
  <2> QED BY <2>1, <2>2
<1> QED BY <1>1, <1>2, PTL DEF Spec

\* CancelIsFinal: no run is admitted after a cancellation was reported done,
\* whatever was queued or claimed before (cancel against note_wake_started).
THEOREM CancelledNeverStarts == Spec => CancelIsFinal
<1>1. TypeOK /\ RecordIsTrue /\ StagesAreTrue /\ [Next]_vars
        => [cancelled => begun' = begun]_vars
  <2> SUFFICES ASSUME TypeOK, RecordIsTrue, StagesAreTrue, Next, cancelled
               PROVE  begun' = begun
    OBVIOUS
  <2>1. ledger.state = "revoked" BY DEF RecordIsTrue
  <2>2. CASE Moves
    <3>1. ~\E r \in Runs : Admit(r) BY <2>1, AdmitShape
    <3> QED BY <2>2, <3>1, MovesShape
  <2>3. CASE Time BY <2>3, TimeShape
  <2>4. CASE \E p \in Procs : Add(p) BY <2>4 DEF Add, history
  <2> QED BY <2>2, <2>3, <2>4, NextIs
<1> QED BY <1>1, TypeCorrect, PTL DEF Spec, CancelIsFinal

\* Everything that is accounted for stays so: no occurrence is admitted twice,
\* none without a credit, none passes unanswered (note_wake_started, consume,
\* mark_triggered).  A standing grant needs that no commit is skipped in silence.
THEOREM FiresStayAccounted == ASSUME NoSkips PROVE Spec => []FiresAreAccounted
<1>1. Init => FiresAreAccounted
  <2> SUFFICES ASSUME Init PROVE FiresAreAccounted
    OBVIOUS
  <2>1. TypeOK /\ RecordIsTrue /\ StagesAreTrue BY TypeInit
  <2>2. /\ begun = [o \in Occurrences |-> 0] /\ ledger.last = 0 /\ ledger.used = 0
        /\ ~entry.there /\ entry.count = 0
    <3> DEFINE e == [count |-> 0]
    <3>1. e.count \in 0..MaxFires /\ e.count = 0 BY Constants
    <3>2. entry = Gone(e) BY DEF Init
    <3> HIDE DEF e
    <3>3. ~entry.there /\ entry.count = 0 BY <3>1, <3>2, GoneShape
    <3> QED BY <3>3 DEF Init, NoRecord
  <2>3. BegunIsMarked /\ StartsOnce /\ DeliveriesAreCovered /\ PastIsAnswered
    BY <2>2 DEF BegunIsMarked, StartsOnce, DeliveriesAreCovered, PastIsAnswered
  <2>4. StartsArePaid
    <3>1. {o \in Occurrences : begun[o] > 0 \/ o = ledger.last} = {}
      BY <2>2 DEF Occurrences
    <3> QED BY <3>1, <2>2, FS_EmptySet DEF StartsArePaid
  <2> QED BY <2>1, <2>3, <2>4 DEF FiresAreAccounted
<1>2. FiresAreAccounted /\ [Next]_vars => FiresAreAccounted'
  <2> SUFFICES ASSUME FiresAreAccounted, [Next]_vars PROVE FiresAreAccounted'
    OBVIOUS
  <2>0. /\ TypeOK /\ RecordIsTrue /\ StagesAreTrue /\ BegunIsMarked /\ StartsOnce
        /\ StartsArePaid /\ DeliveriesAreCovered /\ PastIsAnswered
    BY DEF FiresAreAccounted
  <2>1. CASE Next
    <3>1. TypeOK'
      BY <2>0, <2>1, HumanTyped, TickTyped, WorkTyped, TimeTyped, CrashTyped DEF Next, Time
    <3>2. RecordIsTrue' /\ StagesAreTrue' BY <2>0, <2>1, <3>1, RecordStep, StagesStep
    <3>3. BegunIsMarked' BY <2>0, <2>1, BegunStep
    <3>4. StartsOnce' BY <2>0, <2>1, OnceStep
    <3>5. StartsArePaid' BY <2>0, <2>1, <3>1, PaidStep
    <3>6. DeliveriesAreCovered' BY <2>0, <2>1, DeliveriesStep
    <3>7. PastIsAnswered' BY <2>0, <2>1, <3>1, PastStep
    <3> QED BY <3>1, <3>2, <3>3, <3>4, <3>5, <3>6, <3>7 DEF FiresAreAccounted
  <2>2. CASE UNCHANGED vars
    <3>1. TypeOK' BY <2>0, <2>2 DEF TypeOK, vars
    <3>2. RecordIsTrue' /\ StagesAreTrue' BY <2>0, <2>2 DEF RecordIsTrue, StagesAreTrue, vars
    <3>3. BegunIsMarked' /\ StartsOnce' /\ PastIsAnswered'
      BY <2>0, <2>2 DEF BegunIsMarked, StartsOnce, PastIsAnswered, vars, Occ
    <3>4. StartsArePaid' BY <2>0, <2>2 DEF StartsArePaid, vars
    <3>5. DeliveriesAreCovered'
      BY <2>0, <2>2 DEF DeliveriesAreCovered, Covered, InDelivery, vars, Occ
    <3> QED BY <3>1, <3>2, <3>3, <3>4, <3>5 DEF FiresAreAccounted
  <2> QED BY <2>1, <2>2
<1> QED BY <1>1, <1>2, PTL DEF Spec

\* StartsOnce: no occurrence is admitted twice, whoever claims it and wherever a
\* process fails between the ledger, the file and the acknowledgement.
THEOREM NoFireTwice == ASSUME NoSkips PROVE Spec => []StartsOnce
<1>1. FiresAreAccounted => StartsOnce BY DEF FiresAreAccounted
<1> QED BY <1>1, FiresStayAccounted, PTL

\* GoneIsAnswered: a wake that left the file was carried out, notified or cancelled
\* (_advance, mark_triggered).
THEOREM NoFireLost == ASSUME NoSkips PROVE Spec => []GoneIsAnswered
<1>1. FiresAreAccounted => GoneIsAnswered
  BY DEF FiresAreAccounted, PastIsAnswered, GoneIsAnswered
<1> QED BY <1>1, FiresStayAccounted, PTL

\* FiresDoNotOverlap: two fires of one task never run at the same time, while one
\* process runs them and a claim outlasts the delivery (previous_fire_running).
THEOREM OneFireAtATime ==
    ASSUME NoSkips, OneCanRun PROVE Spec => []FiresDoNotOverlap
<1>1. Init => ChildIsKnown BY DEF Init, ChildIsKnown, NoRun
<1>2. FiresAreAccounted /\ ChildIsKnown /\ [Next]_vars => ChildIsKnown'
  <2>1. FiresAreAccounted /\ ChildIsKnown /\ Next => ChildIsKnown'
    BY ChildStep DEF FiresAreAccounted
  <2>2. ChildIsKnown /\ UNCHANGED vars => ChildIsKnown' BY DEF ChildIsKnown, vars
  <2> QED BY <2>1, <2>2
<1>3. ChildIsKnown => FiresDoNotOverlap
  <2> SUFFICES ASSUME ChildIsKnown, Standing, ~overrun, faults = 0
               PROVE  Cardinality({r \in Runs : run[r].at \in {"noted", "running"}}) <= 1
    BY DEF FiresDoNotOverlap
  <2> DEFINE active == {r \in Runs : run[r].at \in {"noted", "running"}}
  <2>1. \A r, s \in active : r = s BY DEF ChildIsKnown
  <2> HIDE DEF active
  <2>2. CASE active = {}
    <3>1. Cardinality(active) = 0 BY <2>2, FS_EmptySet
    <3> QED BY <3>1 DEF active
  <2>3. CASE active # {}
    <3>1. PICK r : active = {r} BY <2>1, <2>3
    <3>2. Cardinality(active) = 1 BY <3>1, FS_Singleton
    <3> QED BY <3>2 DEF active
  <2> QED BY <2>2, <2>3
<1> QED BY <1>1, <1>2, <1>3, FiresStayAccounted, PTL DEF Spec
=============================================================================
