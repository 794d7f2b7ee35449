------------------------- MODULE HumanTurnQueueProofs -------------------------
(***************************************************************************)
(* Theorems about HumanTurnQueue, for any tabs, turns, faults and          *)
(* restarts.                                                               *)
(***************************************************************************)
EXTENDS HumanTurnQueue, SequenceTheorems, FiniteSetTheorems, WellFoundedInduction, TLAPS

\* Whoever holds a turn acts within the minute that its claim is good for; no
\* program runs in the session (see OutcomeGuesses).
InTime == ~Late
NoPrograms == "program" \notin Others

LEMMA Constants ==
    /\ MaxItems \in Nat /\ MaxOthers \in Nat /\ MaxFaults \in Nat /\ MaxCrashes \in Nat
    /\ None \notin Items /\ Others \subseteq {"human", "program"} /\ Fallback \notin Tabs
BY OthersAssumption, HolderAssumption, BoundAssumption DEF Items

-----------------------------------------------------------------------------
\* Least elements

Less == {ss \in Nat \X Nat : ss[1] < ss[2]}

LEMMA LeastExists ==
    ASSUME NEW T \in SUBSET Nat, T # {}
    PROVE  Min(T) \in T /\ \A y \in T : Min(T) <= y
<1>1. IsWellFoundedOn(Less, Nat)
  BY NatLessThanWellFounded DEF OpToRel, Less
<1>2. \A R, S : IsWellFoundedOn(R, S) =>
        \A U : U \subseteq S /\ U # {} =>
           \E x \in U : \A y \in U : ~ (<<y, x>> \in R)
  BY WFMin, Zenon
<1>3. PICK x \in T : \A y \in T : ~ (<<y, x>> \in Less)
  BY <1>1, <1>2
<1>4. ASSUME NEW y \in T PROVE x <= y
  <2>1. x \in Nat /\ y \in Nat OBVIOUS
  <2>2. y < x => <<y, x>> \in Less BY <2>1 DEF Less
  <2>3. ~ (y < x) BY <1>3, <2>2, Zenon
  <2> QED BY <2>1, <2>3
<1> QED BY <1>4 DEF Min

-----------------------------------------------------------------------------
\* The log

LEMMA LogShape ==
    ASSUME TypeOK
    PROVE  /\ Len(log) \in Nat /\ DOMAIN log = 1..Len(log)
           /\ \A p \in DOMAIN log : log[p] \in Events
BY LenProperties, ElementOfSeq DEF TypeOK

LEMMA EventShape ==
    ASSUME NEW e \in Events
    PROVE  /\ e.kind \in {"turn", "interjection", "human", "program", "end"}
           /\ e.kind \in {"turn", "interjection"} <=> e.item \in Items
           /\ e.kind \notin {"turn", "interjection"} <=> e.item = None
           /\ e.kind = "end" => e.reason \in {"completed", "failed"}
           /\ e.kind = "program" => "program" \in Others
BY Constants DEF Events

LEMMA AppendShape ==
    ASSUME TypeOK, NEW e \in Events, log' = Append(log, e)
    PROVE  /\ log' \in Seq(Events) /\ Len(log') = Len(log) + 1
           /\ DOMAIN log' = DOMAIN log \union {Len(log) + 1}
           /\ Len(log) + 1 \notin DOMAIN log
           /\ log'[Len(log) + 1] = e
           /\ \A p \in DOMAIN log : log'[p] = log[p]
<1>1. Len(log) \in Nat /\ DOMAIN log = 1..Len(log) BY LogShape
<1>2. /\ log' \in Seq(Events) /\ Len(log') = Len(log) + 1
      /\ log'[Len(log) + 1] = e
      /\ \A p \in 1..Len(log) : log'[p] = log[p]
  BY AppendProperties DEF TypeOK
<1>3. DOMAIN log' = 1..Len(log) + 1 BY <1>2, LenProperties
<1> QED BY <1>1, <1>2, <1>3

\* What a message adds to the turns that have started and that were delivered.
LEMMA AppendTurns ==
    ASSUME TypeOK, NEW e \in Events, log' = Append(log, e), NEW i
    PROVE  /\ e.kind = "turn" /\ e.item = i => Turns(i)' = Turns(i) \union {Len(log) + 1}
           /\ ~(e.kind = "turn" /\ e.item = i) => Turns(i)' = Turns(i)
           /\ e.item = i => Ingresses(i)' = Ingresses(i) \union {Len(log) + 1}
           /\ e.item # i => Ingresses(i)' = Ingresses(i)
BY AppendShape DEF Turns, Ingresses

\* Turns are among the deliveries, and both are finite.
LEMMA TurnsAreIngresses ==
    ASSUME TypeOK, NEW i
    PROVE  Turns(i) \subseteq Ingresses(i) /\ IsFiniteSet(Turns(i)) /\ IsFiniteSet(Ingresses(i))
<1>1. Turns(i) \subseteq Ingresses(i) /\ Ingresses(i) \subseteq 1..Len(log)
  BY LogShape DEF Turns, Ingresses
<1>2. IsFiniteSet(1..Len(log)) BY LogShape, FS_Interval
<1>3. IsFiniteSet(Ingresses(i)) BY <1>1, <1>2, FS_Subset
<1>4. IsFiniteSet(Turns(i)) BY <1>1, <1>3, FS_Subset
<1> QED BY <1>1, <1>3, <1>4

-----------------------------------------------------------------------------
\* The probe and the reaper

\* _queue_claim_state: "not started" and "completed" are never guesses.
LEMMA ProbeShape ==
    ASSUME TypeOK, NEW i \in Items
    PROVE  /\ Probe(i) = "not_started" => run = NoRun /\ Ingresses(i) = {}
           /\ Probe(i) \in {"completed", "failed"} => run = NoRun
           /\ NoPrograms /\ OverIsOver /\ Probe(i) = "completed" => i \in over
<1>1. \A p \in DOMAIN log : Outcome(p) \in {"ingress_open", "unknown", "completed", "failed"}
  <2> SUFFICES ASSUME NEW p \in DOMAIN log, After(p) # {}
               PROVE  log[Min(After(p))].kind = "end" =>
                        log[Min(After(p))].reason \in {"completed", "failed"}
    BY DEF Outcome
  <2>1. After(p) \in SUBSET Nat /\ After(p) \subseteq DOMAIN log BY LogShape DEF After
  <2>2. Min(After(p)) \in DOMAIN log BY <2>1, LeastExists
  <2> QED BY <2>2, LogShape, EventShape
<1>2. CASE run # NoRun
  <2>1. Probe(i) = "active" BY <1>2 DEF Probe
  <2> QED BY <2>1
<1>3. CASE run = NoRun /\ Ingresses(i) = {}
  <2>1. Probe(i) = "not_started" BY <1>3 DEF Probe
  <2> QED BY <2>1, <1>3
<1>4. CASE run = NoRun /\ Ingresses(i) # {} /\ Cardinality(Ingresses(i)) = 1
  <2>1. PICK p : Ingresses(i) = {p}
    BY <1>4, TurnsAreIngresses, FS_Singleton
  <2>2. p \in DOMAIN log /\ log[p].item = i BY <2>1 DEF Ingresses
  <2>3. Min({p}) = p
    <3>1. {p} \in SUBSET Nat BY <2>2, LogShape
    <3> QED BY <3>1, LeastExists
  <2>4. Probe(i) = Outcome(p) BY <1>4, <2>1, <2>3 DEF Probe
  <2>5. ASSUME NoPrograms, OverIsOver, Outcome(p) = "completed" PROVE i \in over
    <3>1. After(p) # {} /\ log[Min(After(p))].kind = "end" BY <2>5 DEF Outcome
    <3>2. After(p) = {q \in p + 1 .. Len(log) : TRUE}
      <4>1. \A q \in p + 1 .. Len(log) : log[q].kind # "program"
        BY <2>2, <2>5, LogShape, EventShape DEF NoPrograms
      <4> QED BY <4>1 DEF After
    <3>3. After(p) \in SUBSET Nat /\ p + 1 \in After(p) BY <3>1, <3>2, <2>2, LogShape
    <3>4. Min(After(p)) \in After(p) /\ Min(After(p)) <= p + 1 BY <3>3, LeastExists
    <3>5. Min(After(p)) = p + 1 BY <3>2, <3>4, <2>2, LogShape
    <3>6. p + 1 \in DOMAIN log BY <3>3, <3>2, <2>2, LogShape
    <3>7. log[p].item \in over \union {None}
      BY <3>1, <3>5, <3>6, <2>2, <2>5 DEF OverIsOver
    <3> QED BY <3>7, <2>2, Constants
  <2> QED BY <1>1, <2>2, <2>4, <2>5, <1>4
<1>5. CASE run = NoRun /\ Ingresses(i) # {} /\ Cardinality(Ingresses(i)) # 1
  <2>1. Probe(i) = "unknown" BY <1>5 DEF Probe
  <2> QED BY <2>1
<1> QED BY <1>2, <1>3, <1>4, <1>5

Finished == {"completed", "failed"}

\* _reap_stale_claims_locked touches claims that nobody holds and no run has.
LEMMA ReapedShape ==
    ASSUME InTime, TypeOK, NEW S \in StaleSets
    PROVE  /\ Reaped(S) \in Files
           /\ \A i \in Items :
                \/ Reaped(S)[i] = mem[i]
                \/ /\ Is(i, "claimed") /\ ~Held(i) /\ run = NoRun
                   /\ Reaped(S)[i].gen = mem[i].gen
                   /\ \/ Reaped(S)[i].status = "queued" /\ Ingresses(i) = {}
                      \/ Reaped(S)[i].status \in Finished
                   /\ NoPrograms /\ OverIsOver /\ Reaped(S)[i].status = "completed"
                        => i \in over
<1>1. mem \in Files /\ \A i \in Items : mem[i] \in [status : Statuses, gen : 0..gens]
  BY DEF TypeOK, Files
<1>2. ASSUME NEW i \in Items
      PROVE  /\ Reaped(S)[i] \in [status : Statuses, gen : 0..gens]
             /\ \/ Reaped(S)[i] = mem[i]
                \/ /\ Is(i, "claimed") /\ ~Held(i) /\ run = NoRun
                   /\ Reaped(S)[i].gen = mem[i].gen
                   /\ \/ Reaped(S)[i].status = "queued" /\ Ingresses(i) = {}
                      \/ Reaped(S)[i].status \in Finished
                   /\ NoPrograms /\ OverIsOver /\ Reaped(S)[i].status = "completed"
                        => i \in over
  <2>1. CASE i \notin S \/ Probe(i) \notin {"not_started", "completed", "failed"}
    <3>1. Reaped(S)[i] = mem[i] BY <2>1 DEF Reaped
    <3> QED BY <3>1, <1>1
  <2>2. CASE i \in S /\ Probe(i) \in {"not_started", "completed", "failed"}
    <3>1. Is(i, "claimed") /\ ~Held(i)
      BY <2>2 DEF StaleSets, MayBeStale, Abandoned, InTime
    <3>2. \/ Probe(i) = "not_started" /\ Reaped(S)[i] = [mem[i] EXCEPT !.status = "queued"]
          \/ /\ Probe(i) \in {"completed", "failed"}
             /\ Reaped(S)[i] = [mem[i] EXCEPT !.status = Probe(i)]
      BY <2>2 DEF Reaped
    <3> QED BY <3>1, <3>2, <1>1, ProbeShape DEF Statuses, Finished
  <2> QED BY <2>1, <2>2
<1>3. Reaped(S) \in Files BY <1>2 DEF Reaped, Files
<1> QED BY <1>2, <1>3

-----------------------------------------------------------------------------
\* The invariant, without what only holds when no program runs in the session

Honest(h) ==
    LET i == holder[h].item IN
    /\ holder[h].pc = "idle" <=> i = None
    /\ holder[h].pc \in {"claimed", "checked"} => Both(i, "claimed") /\ Turns(i) = {}
    /\ holder[h].pc = "handing" =>
        mem[i] = [status |-> "interject_pending", gen |-> holder[h].gen]
    /\ holder[h].pc \in {"refused", "orphan"} =>
        Is(i, "interject_pending") /\ mem[i].gen # run.gen

Distinct ==
    \A h, k \in Holders : h # k =>
        holder[h].item = None \/ holder[h].item # holder[k].item

InTurn ==
    /\ TypeOK /\ RunsOnce
    /\ HoldersAreHonest /\ RunIsHonest /\ FilesAreHonest /\ DeliveriesAreKnown

LEMMA HonestHolders == HoldersAreHonest <=> (\A h \in Holders : Honest(h)) /\ Distinct
BY DEF HoldersAreHonest, Honest, Distinct

NothingWrong == faults = 0 /\ crashes = 0

\* The status of a turn says who may have it.
LEMMA WhoHasIt ==
    ASSUME InTurn, NEW i \in Items
    PROVE  /\ mem[i].status \in Statuses /\ disk[i].status \in Statuses
           /\ Held(i) => mem[i].status \in {"claimed", "interject_pending"}
           /\ InBox(i) => Is(i, "interject_pending") /\ ~Held(i) /\ mem[i].gen = run.gen
           /\ Carries(i) => Is(i, "claimed") /\ ~Held(i)
           /\ run = NoRun => ~InBox(i) /\ ~Carries(i)
           /\ mem[i].status \notin {"claimed", "completed", "failed"} => Turns(i) = {}
           /\ NothingWrong /\ Ingresses(i) # {} /\ ~InBox(i) =>
                mem[i].status \in {"claimed", "completed", "failed", "interject_received"}
           /\ NothingWrong /\ Ingresses(i) # {} =>
                ~Held(i) /\ ~(run.pc \in {"registered", "not_started"} /\ run.item = i) /\ i \notin run.box
           /\ i > born => Is(i, "absent")
           /\ i \in withdrawn => Is(i, "cancelled")
           /\ Is(i, "interject_pending") => mem[i].gen # 0
<1>1. mem[i].status \in Statuses /\ disk[i].status \in Statuses
  BY DEF InTurn, TypeOK, Files
<1>2. Held(i) => mem[i].status \in {"claimed", "interject_pending"}
  <2> SUFFICES ASSUME NEW h \in Holders, holder[h].item = i
               PROVE  mem[i].status \in {"claimed", "interject_pending"}
    BY DEF Held
  <2>1. holder[h].pc \in {"idle", "claimed", "checked", "handing", "refused", "orphan"}
    BY DEF InTurn, TypeOK
  <2>2. Honest(h) /\ i # None BY HonestHolders, Constants DEF InTurn
  <2> QED BY <2>1, <2>2 DEF Honest, Both, Is
<1>3. InBox(i) => Is(i, "interject_pending") /\ ~Held(i) /\ mem[i].gen = run.gen
  BY DEF InTurn, RunIsHonest, Is
<1>4. Carries(i) => Is(i, "claimed") /\ ~Held(i)
  BY DEF InTurn, RunIsHonest, Both
<1>5. run = NoRun => ~InBox(i) /\ ~Carries(i)
  BY Constants DEF NoRun, InBox, Carries
<1>6. /\ mem[i].status \notin {"claimed", "completed", "failed"} => Turns(i) = {}
      /\ i > born => Is(i, "absent")
      /\ i \in withdrawn => Is(i, "cancelled")
      /\ Is(i, "interject_pending") => mem[i].gen # 0
  BY DEF InTurn, FilesAreHonest, Both
<1>7. /\ NothingWrong /\ Ingresses(i) # {} /\ ~InBox(i) =>
           mem[i].status \in {"claimed", "completed", "failed", "interject_received"}
      /\ NothingWrong /\ Ingresses(i) # {} =>
           ~Held(i) /\ ~(run.pc \in {"registered", "not_started"} /\ run.item = i) /\ i \notin run.box
  BY DEF InTurn, DeliveriesAreKnown, NothingWrong, InBox
<1> QED BY <1>1, <1>2, <1>3, <1>4, <1>5, <1>6, <1>7

-----------------------------------------------------------------------------
\* Steps of the queue, while the log and the runs stand still

Kept(i) == mem'[i] = mem[i] /\ disk'[i] \in {disk[i], mem[i]}

\* A turn that neither a run nor anybody but h has changes its status.
Moved(h, i) ==
    /\ i <= born' /\ disk'[i] \in {disk[i], mem'[i]}
    /\ \A k \in Holders \ {h} : holder[k].item # i
    /\ ~InBox(i) /\ ~Carries(i)
    /\ mem[i].status \in {"absent", "queued", "claimed", "interject_pending"}
    /\ \/ /\ mem'[i].status \in {"queued", "claimed", "cancelled", "interject_pending"}
          /\ Turns(i) = {}
       \/ Is(i, "claimed") /\ mem'[i].status \in Finished
    /\ NothingWrong' /\ Ingresses(i) # {} => mem'[i].status \in {"claimed"} \union Finished
    /\ Is(i, "interject_pending")' => mem'[i].gen # 0

\* What h has in its hands after the step it had, or nobody and no run had it.
Takes(h) ==
    LET i == holder'[h].item IN
    \/ i = None \/ i = holder[h].item
    \/ /\ ~Held(i) /\ ~InBox(i) /\ ~Carries(i)
       /\ NothingWrong => Ingresses(i) = {}

\* What somebody holds and nobody touches is still what they believe it to be.
LEMMA HolderStays ==
    ASSUME TypeOK, NEW k \in Holders, Honest(k), UNCHANGED <<log, run>>, holder'[k] = holder[k],
           \A i \in Items : holder[k].item = i => Kept(i)
    PROVE  Honest(k)'
<1>1. CASE holder[k].item = None
  <2>1. holder[k].pc = "idle" BY <1>1 DEF Honest
  <2> QED BY <1>1, <2>1 DEF Honest
<1>2. CASE holder[k].item # None
  <2>1. PICK i \in Items : i = holder[k].item BY <1>2 DEF TypeOK
  <2>2. Kept(i) BY <2>1
  <2> QED BY <2>1, <2>2 DEF Honest, Kept, Both, Is, Turns
<1> QED BY <1>1, <1>2

LEMMA FilesMove ==
    ASSUME InTurn, TypeOK', NEW h \in Holders,
           UNCHANGED <<log, run, gens, crashes, over, denied>>, born' >= born, faults' = 0 => faults = 0,
           \A k \in Holders \ {h} : holder'[k] = holder[k],
           Takes(h), Honest(h)',
           \A i \in Items : Kept(i) \/ Moved(h, i),
           \A i \in withdrawn' : i \in withdrawn \/ Both(i, "cancelled")'
    PROVE  InTurn'
<1> USE DEF InTurn
<1>1. RunsOnce' BY DEF RunsOnce, Turns
<1>2. ASSUME NEW i \in Items
      PROVE  /\ Turns(i)' = Turns(i) /\ Ingresses(i)' = Ingresses(i)
             /\ InBox(i)' = InBox(i) /\ Carries(i)' = Carries(i)
             /\ NothingWrong' => NothingWrong
             /\ mem[i].status \in Statuses /\ mem'[i].status \in Statuses
  BY DEF Turns, Ingresses, InBox, Carries, NothingWrong, TypeOK, Files
<1>3. ASSUME NEW k \in Holders \ {h} PROVE Honest(k)'
  <2>1. Honest(k) BY HonestHolders
  <2>2. \A i \in Items : holder[k].item = i => Kept(i) BY DEF Moved
  <2> QED BY <2>1, <2>2, HolderStays
<1>4. Distinct'
  <2>1. Distinct BY HonestHolders
  <2>2. ASSUME NEW k \in Holders \ {h}
        PROVE  holder'[h].item = None \/ holder'[h].item # holder'[k].item
    BY <2>1 DEF Takes, Held, Distinct
  <2> QED BY <2>1, <2>2 DEF Distinct
<1>5. HoldersAreHonest'
  <2>1. \A k \in Holders : Honest(k)' BY <1>3
  <2> QED BY <2>1, <1>4 DEF HoldersAreHonest, Honest, Distinct
<1>6. ASSUME NEW i \in Items, Held(i)', ~Held(i)
      PROVE  ~InBox(i) /\ ~Carries(i) /\ (NothingWrong => Ingresses(i) = {})
  BY <1>6, Constants DEF Held, Takes
<1>7. RunIsHonest'
  <2>1. ASSUME NEW i \in Items, InBox(i)
        PROVE  mem'[i] = [status |-> "interject_pending", gen |-> run.gen] /\ ~Held(i)'
    BY <2>1, <1>6 DEF RunIsHonest, Kept, Moved
  <2>2. ASSUME NEW i \in Items, Carries(i)
        PROVE  /\ Both(i, "claimed")' /\ ~Held(i)'
               /\ run.pc \in {"registered", "not_started"} => Turns(i)' = {}
    <3>1. /\ Both(i, "claimed") /\ ~Held(i)
          /\ run.pc \in {"registered", "not_started"} => Turns(i) = {}
      BY <2>2 DEF RunIsHonest
    <3>2. Kept(i) BY <2>2 DEF Moved
    <3> QED BY <2>2, <3>1, <3>2, <1>2, <1>6 DEF Kept, Both, Is
  <2>3. /\ run.pc = "none" <=> run = NoRun
        /\ run # NoRun => run.gen # 0
        /\ run.pc = "acking" => run.at \in Items \ run.box
        /\ run.pc = "registered" => run.item \in Items
        /\ run.pc \in {"running", "acking"} =>
             \E p \in Starts : log[p].item = run.item /\ \A q \in Starts : q <= p
        /\ run.pc = "completed" => run.item \in over \union denied \union {None}
    BY DEF RunIsHonest
  <2>4. Starts' = Starts BY DEF Starts
  <2> QED BY <2>1, <2>2, <2>3, <2>4, <1>2 DEF RunIsHonest
<1>8. FilesAreHonest'
  <2> SUFFICES ASSUME NEW i \in Items
               PROVE  /\ i > born' => Both(i, "absent")'
                      /\ Turns(i) # {} =>
                           {mem'[i].status, disk'[i].status} \subseteq {"claimed", "completed", "failed"}
                      /\ i \in withdrawn' => Both(i, "cancelled")'
                      /\ Is(i, "interject_pending")' => mem'[i].gen # 0
    BY <1>2 DEF FilesAreHonest
  <2>1. /\ i > born => Both(i, "absent")
        /\ Turns(i) # {} =>
             {mem[i].status, disk[i].status} \subseteq {"claimed", "completed", "failed"}
        /\ i \in withdrawn => Both(i, "cancelled")
        /\ Is(i, "interject_pending") => mem[i].gen # 0
    BY DEF FilesAreHonest
  <2>2. i > born' => i > born /\ ~(i <= born') BY DEF TypeOK, Items
  <2> QED BY <2>1, <2>2 DEF Kept, Moved, Both, Is, Finished
<1>9. DeliveriesAreKnown'
  <2> SUFFICES ASSUME NEW i \in Items, NothingWrong', Ingresses(i) # {}
               PROVE  /\ \/ mem'[i].status \in {"claimed", "completed", "failed", "interject_received"}
                         \/ run.pc = "acking" /\ run.at = i
                      /\ ~Held(i)' /\ i \notin run.box
                      /\ ~(run.pc \in {"registered", "not_started"} /\ run.item = i)
    BY <1>2 DEF DeliveriesAreKnown, NothingWrong
  <2>1. /\ \/ mem[i].status \in {"claimed", "completed", "failed", "interject_received"}
           \/ run.pc = "acking" /\ run.at = i
        /\ ~Held(i) /\ i \notin run.box
        /\ ~(run.pc \in {"registered", "not_started"} /\ run.item = i)
    BY <1>2 DEF DeliveriesAreKnown, NothingWrong
  <2>2. ~Held(i)' BY <1>2, <1>6, <2>1
  <2> QED BY <2>1, <2>2 DEF Kept, Moved, Finished
<1> QED BY <1>1, <1>5, <1>7, <1>8, <1>9

-----------------------------------------------------------------------------
\* Types

LEMMA SetShape ==
    ASSUME NEW m \in Files, NEW i \in Items, NEW status \in Statuses
    PROVE  /\ Set(m, i, status) \in Files
           /\ Set(m, i, status)[i].status = status /\ Set(m, i, status)[i].gen = m[i].gen
           /\ \A j \in Items \ {i} : Set(m, i, status)[j] = m[j]
<1>1. /\ m[i] \in [status : Statuses, gen : 0..gens]
      /\ [m[i] EXCEPT !.status = status] \in [status : Statuses, gen : 0..gens]
      /\ [m[i] EXCEPT !.status = status].status = status
      /\ [m[i] EXCEPT !.status = status].gen = m[i].gen
  BY DEF Files
<1>2. /\ Set(m, i, status)[i] = [m[i] EXCEPT !.status = status]
      /\ \A j \in Items \ {i} : Set(m, i, status)[j] = m[j]
      /\ Set(m, i, status) = [j \in Items |-> Set(m, i, status)[j]]
  BY DEF Set, Files
<1>3. Set(m, i, status) \in Files BY <1>1, <1>2 DEF Files
<1> QED BY <1>1, <1>2, <1>3

\* What a save leaves in memory and in the file, whether it raises or not.
Saved == disk' \in {disk, mem'} /\ (NoFault \/ Fault)

LEMMA SaveShape ==
    ASSUME TypeOK, mem' \in Files, Saved
    PROVE  /\ disk' \in Files /\ \A i \in Items : disk'[i] \in {disk[i], mem'[i]}
           /\ faults' \in 0..MaxFaults /\ (faults' = 0 => faults = 0)
BY Constants DEF Saved, NoFault, Fault, TypeOK

HoldersTyped ==
    holder \in [Holders -> [pc : {"idle", "claimed", "checked", "handing", "refused", "orphan"},
                            item : Items \union {None}, gen : 0..gens]]

LEMMA ItemsTyped ==
    ASSUME TypeOK
    PROVE  /\ mem \in Files /\ disk \in Files /\ HoldersTyped
           /\ \A i \in Items : mem[i] \in [status : Statuses, gen : 0..gens]
           /\ \A i \in Items : disk[i] \in [status : Statuses, gen : 0..gens]
           /\ \A h \in Holders : /\ holder[h].item \in Items \union {None}
                                 /\ holder[h].gen \in 0..gens
           /\ gens \in Nat /\ Items \subseteq Nat /\ born \in 0..MaxItems
           /\ accepted \subseteq Items /\ withdrawn \subseteq Items /\ over \subseteq Items
           /\ denied \subseteq Items
<1>1. Items \subseteq Nat BY Constants DEF Items
<1> QED BY <1>1 DEF TypeOK, Files, HoldersTyped

\* The oldest queued turn is a queued turn.
LEMMA OldestIsOne ==
    ASSUME NEW T \in SUBSET Items, T # {}
    PROVE  Min(T) \in T
BY LeastExists DEF Items

\* The rest of the state, when only the files and what is held changed.
Same == UNCHANGED <<log, run, gens, others, crashes>>

LEMMA SameTypes ==
    ASSUME TypeOK, Same, mem' \in Files, disk' \in Files, born' \in 0..MaxItems,
           faults' \in 0..MaxFaults, HoldersTyped',
           accepted' \subseteq Items, withdrawn' \subseteq Items, over' \subseteq Items,
           denied' \subseteq Items
    PROVE  TypeOK'
BY DEF TypeOK, Same, Files, HoldersTyped

LEMMA IdleTyped ==
    ASSUME TypeOK, NEW h \in Holders
    PROVE  /\ gens' = gens /\ holder' = [holder EXCEPT ![h] = Idle] => HoldersTyped'
           /\ holder[h] = Idle => holder[h].item = None /\ holder[h].pc = "idle"
<1>1. Idle \in [pc : {"idle", "claimed", "checked", "handing", "refused", "orphan"},
                item : Items \union {None}, gen : 0..gens]
  BY DEF TypeOK, Idle
<1>2. holder[h] = Idle => holder[h].item = None /\ holder[h].pc = "idle" BY DEF Idle
<1> QED BY <1>1, <1>2 DEF TypeOK, HoldersTyped

\* Nobody acts: the queue settles what nobody holds.
LEMMA QueueMoves ==
    ASSUME InTurn, TypeOK', Same, UNCHANGED <<holder, over, denied>>,
           born' >= born, faults' = 0 => faults = 0,
           \A i \in Items : Kept(i) \/ (Moved(Fallback, i) /\ ~Held(i)),
           \A i \in withdrawn' : i \in withdrawn \/ Both(i, "cancelled")'
    PROVE  InTurn'
<1>1. Fallback \in Holders /\ TypeOK BY DEF Holders, InTurn
<1>2. Honest(Fallback) BY <1>1, HonestHolders DEF InTurn
<1>3. \A i \in Items : holder[Fallback].item = i => Kept(i)
  BY <1>1 DEF Held
<1>4. UNCHANGED <<log, run, gens, crashes, over, denied>> /\ \A k \in Holders : holder'[k] = holder[k]
  BY DEF Same
<1>5. Honest(Fallback)' BY <1>1, <1>2, <1>3, <1>4, HolderStays
<1>6. Takes(Fallback) BY <1>4, <1>1 DEF Takes
<1> QED BY <1>1, <1>4, <1>5, <1>6, FilesMove

LEMMA SaveSets ==
    ASSUME TypeOK, NEW i \in Items, NEW status \in Statuses,
           mem' = Set(mem, i, status), Saved
    PROVE  /\ mem' \in Files /\ disk' \in Files
           /\ mem'[i].status = status /\ mem'[i].gen = mem[i].gen
           /\ disk'[i] \in {disk[i], mem'[i]}
           /\ \A j \in Items \ {i} : Kept(j)
           /\ faults' \in 0..MaxFaults /\ (faults' = 0 => faults = 0)
<1>1. mem \in Files BY ItemsTyped
<1>2. /\ mem' \in Files /\ mem'[i].status = status /\ mem'[i].gen = mem[i].gen
      /\ \A j \in Items \ {i} : mem'[j] = mem[j]
  BY <1>1, SetShape
<1>3. /\ disk' \in Files /\ \A j \in Items : disk'[j] \in {disk[j], mem'[j]}
      /\ faults' \in 0..MaxFaults /\ (faults' = 0 => faults = 0)
  BY <1>2, SaveShape
<1> QED BY <1>2, <1>3 DEF Kept

-----------------------------------------------------------------------------
\* The steps of the queue

LEMMA EnqueueStep ==
    ASSUME InTime, InTurn, Enqueue
    PROVE  InTurn'
<1>1. /\ TypeOK /\ born + 1 \in Items /\ born' = born + 1 /\ born \in Nat
      /\ Same /\ UNCHANGED <<holder, withdrawn, over, denied>>
  BY Constants DEF InTurn, TypeOK, Enqueue, Items, Same
<1>2. PICK i \in Items : i = born + 1 BY <1>1
<1>3. Is(i, "absent") /\ ~Held(i) BY <1>1, <1>2, WhoHasIt DEF Is
<1>4. mem' = Set(mem, i, "queued") /\ Saved
  BY <1>2 DEF Enqueue, Saves, SaveRaises, Saved
<1>5. "queued" \in Statuses BY DEF Statuses
<1>6. /\ mem' \in Files /\ disk' \in Files /\ mem'[i].status = "queued"
      /\ disk'[i] \in {disk[i], mem'[i]} /\ \A j \in Items \ {i} : Kept(j)
      /\ faults' \in 0..MaxFaults /\ (faults' = 0 => faults = 0)
  BY <1>1, <1>4, <1>5, SaveSets
<1>7. TypeOK'
  <2>1. accepted' \subseteq Items BY <1>1 DEF Enqueue, TypeOK
  <2>2. born' \in 0..MaxItems BY <1>1, Constants DEF Items
  <2>3. HoldersTyped' BY <1>1, ItemsTyped DEF HoldersTyped, Same
  <2> QED BY <1>1, <1>6, <2>1, <2>2, <2>3, ItemsTyped, SameTypes
<1>8. Moved(Fallback, i)
  <2>1. \A k \in Holders : holder[k].item # i BY <1>3 DEF Held
  <2>2. ~InBox(i) /\ ~Carries(i) /\ Turns(i) = {} BY <1>3, WhoHasIt DEF Is
  <2>3. NothingWrong' => Ingresses(i) = {}
    BY <1>1, <1>3, <1>6, WhoHasIt DEF Is, NothingWrong, Same
  <2>4. i <= born' BY <1>1, <1>2
  <2> QED BY <1>3, <1>6, <2>1, <2>2, <2>3, <2>4 DEF Moved, Is
<1>9. born' >= born BY <1>1
<1> QED BY <1>1, <1>3, <1>6, <1>7, <1>8, <1>9, QueueMoves

LEMMA CancelStep ==
    ASSUME InTime, InTurn, NEW i \in Items, Cancel(i)
    PROVE  InTurn'
<1>1. /\ TypeOK /\ born' = born /\ born \in Nat /\ Is(i, "queued")
      /\ Same /\ UNCHANGED <<holder, over, denied, accepted>>
  BY DEF InTurn, TypeOK, Cancel, Cancellable, Same, counters
<1>2. ~Held(i) /\ ~(i > born) BY <1>1, WhoHasIt DEF Is
<1>3. mem' = Set(mem, i, "cancelled") /\ Saved
  BY DEF Cancel, Saves, SaveRaises, Saved
<1>4. "cancelled" \in Statuses BY DEF Statuses
<1>5. /\ mem' \in Files /\ disk' \in Files /\ mem'[i].status = "cancelled"
      /\ disk'[i] \in {disk[i], mem'[i]} /\ \A j \in Items \ {i} : Kept(j)
      /\ faults' \in 0..MaxFaults /\ (faults' = 0 => faults = 0)
  BY <1>1, <1>3, <1>4, SaveSets
<1>6. TypeOK'
  <2>1. withdrawn' \subseteq Items BY <1>1 DEF Cancel, TypeOK
  <2>2. HoldersTyped' BY <1>1, ItemsTyped DEF HoldersTyped, Same
  <2> QED BY <1>1, <1>5, <2>1, <2>2, ItemsTyped, SameTypes
<1>7. Moved(Fallback, i)
  <2>1. \A k \in Holders : holder[k].item # i BY <1>2 DEF Held
  <2>2. ~InBox(i) /\ ~Carries(i) /\ Turns(i) = {} BY <1>1, WhoHasIt DEF Is
  <2>3. NothingWrong' => Ingresses(i) = {}
    BY <1>1, <1>5, <2>2, WhoHasIt DEF Is, NothingWrong, Same
  <2>4. i <= born' BY <1>1, <1>2 DEF Items
  <2> QED BY <1>1, <1>5, <2>1, <2>2, <2>3, <2>4 DEF Moved, Is
<1>8. \A j \in withdrawn' : j \in withdrawn \/ Both(j, "cancelled")'
  <2>1. CASE Saves(Set(mem, i, "cancelled")) /\ withdrawn' = withdrawn \union {i}
    <3>1. disk' = mem' BY <2>1 DEF Saves
    <3> QED BY <1>5, <2>1, <3>1 DEF Both, Is
  <2>2. CASE withdrawn' = withdrawn BY <2>2
  <2> QED BY <2>1, <2>2 DEF Cancel
<1>9. born' >= born BY <1>1
<1> QED BY <1>1, <1>2, <1>5, <1>6, <1>7, <1>8, <1>9, QueueMoves

\* What the reaper does to one turn, whoever acts afterwards.
LEMMA ReapMoves ==
    ASSUME InTime, InTurn, NEW S \in StaleSets, NEW h \in Holders, NEW i \in Items,
           mem'[i] = Reaped(S)[i], disk'[i] \in {disk[i], mem'[i]}, born' = born,
           UNCHANGED crashes, faults' = 0 => faults = 0
    PROVE  Kept(i) \/ (Moved(h, i) /\ ~Held(i))
<1>1. TypeOK /\ born \in Nat BY DEF InTurn, TypeOK
<1>2. CASE Reaped(S)[i] = mem[i] BY <1>2 DEF Kept
<1>3. CASE /\ Is(i, "claimed") /\ ~Held(i) /\ run = NoRun
           /\ \/ Reaped(S)[i].status = "queued" /\ Ingresses(i) = {}
              \/ Reaped(S)[i].status \in Finished
  <2>1. \A k \in Holders : holder[k].item # i BY <1>3 DEF Held
  <2>2. ~InBox(i) /\ ~Carries(i) /\ ~(i > born) BY <1>3, WhoHasIt DEF Is
  <2>3. i <= born' BY <1>1, <2>2 DEF Items
  <2>4. Ingresses(i) = {} => Turns(i) = {} BY <1>1, TurnsAreIngresses
  <2> QED BY <1>3, <2>1, <2>2, <2>3, <2>4 DEF Moved, Is, Finished
<1> QED BY <1>1, <1>2, <1>3, ReapedShape

\* list_active.
LEMMA ListActiveStep ==
    ASSUME InTime, InTurn, ListActive
    PROVE  InTurn'
<1>1. TypeOK /\ Same /\ UNCHANGED <<holder, over, denied, withdrawn, accepted, born, crashes>>
  BY DEF InTurn, ListActive, Same, counters, history
<1>2. PICK S \in StaleSets : mem' = Reaped(S) /\ Saved
  BY DEF ListActive, Saves, SaveRaises, Saved
<1>3. mem' \in Files BY <1>1, <1>2, ReapedShape
<1>4. /\ disk' \in Files /\ \A i \in Items : disk'[i] \in {disk[i], mem'[i]}
      /\ faults' \in 0..MaxFaults /\ (faults' = 0 => faults = 0)
  BY <1>1, <1>2, <1>3, SaveShape
<1>5. TypeOK'
  <2>1. HoldersTyped' BY <1>1, ItemsTyped DEF HoldersTyped, Same
  <2> QED BY <1>1, <1>3, <1>4, <2>1, ItemsTyped, SameTypes
<1>6. \A i \in Items : Kept(i) \/ (Moved(Fallback, i) /\ ~Held(i))
  BY <1>1, <1>2, <1>4, ReapMoves DEF Holders
<1>7. born' >= born BY <1>1 DEF TypeOK
<1> QED BY <1>1, <1>4, <1>5, <1>6, <1>7, QueueMoves

\* dispatch_claim, for a tab or for the fallback.
LEMMA DispatchClaimStep ==
    ASSUME InTime, InTurn, NEW h \in Holders, DispatchClaim(h)
    PROVE  InTurn'
<1>1. /\ TypeOK /\ Same /\ UNCHANGED <<over, denied, withdrawn, accepted, born, crashes, log, run, gens>>
      /\ holder[h] = Idle /\ born \in Nat
  BY DEF InTurn, TypeOK, DispatchClaim, Same, counters, history
<1> DEFINE Queued(S) == {i \in Items : Reaped(S)[i].status = "queued"}
<1>2. PICK S \in StaleSets :
        /\ Queued(S) # {} /\ Saved
        /\ mem' = Set(Reaped(S), Min(Queued(S)), "claimed")
        /\ \/ /\ disk' = mem'
              /\ holder' = [holder EXCEPT ![h] =
                    [pc |-> "claimed", item |-> Min(Queued(S)), gen |-> 0]]
           \/ holder' = holder
  BY DEF DispatchClaim, Saves, SaveRaises, Saved
<1>3. PICK i \in Items : i = Min(Queued(S)) /\ Reaped(S)[i].status = "queued"
  BY <1>2, OldestIsOne
<1>4. Reaped(S) \in Files /\ "claimed" \in Statuses BY <1>1, ReapedShape DEF Statuses
<1>5. /\ mem' \in Files /\ mem'[i].status = "claimed"
      /\ \A j \in Items \ {i} : mem'[j] = Reaped(S)[j]
  <2>1. mem' = Set(Reaped(S), i, "claimed") BY <1>2, <1>3
  <2> QED BY <2>1, <1>4, SetShape
<1>6. /\ disk' \in Files /\ \A j \in Items : disk'[j] \in {disk[j], mem'[j]}
      /\ faults' \in 0..MaxFaults /\ (faults' = 0 => faults = 0)
  BY <1>1, <1>2, <1>5, SaveShape
<1>7. /\ ~Held(i) /\ ~InBox(i) /\ ~Carries(i) /\ Turns(i) = {} /\ ~(i > born)
      /\ mem[i].status \in {"queued", "claimed"}
      /\ NothingWrong => Ingresses(i) = {}
  <2>1. CASE Reaped(S)[i] = mem[i] BY <1>3, <2>1, WhoHasIt DEF Is
  <2>2. CASE Is(i, "claimed") /\ ~Held(i) /\ run = NoRun /\ Ingresses(i) = {}
    BY <1>1, <2>2, WhoHasIt, TurnsAreIngresses DEF Is
  <2> QED BY <1>1, <1>3, <2>1, <2>2, ReapedShape DEF Finished
<1>8. Moved(h, i)
  <2>1. \A k \in Holders : holder[k].item # i BY <1>7 DEF Held
  <2>2. i <= born' BY <1>1, <1>7 DEF Items
  <2>3. NothingWrong' => Ingresses(i) = {} BY <1>1, <1>6, <1>7 DEF NothingWrong
  <2> QED BY <1>5, <1>6, <1>7, <2>1, <2>2, <2>3 DEF Moved, Is
<1>9. \A j \in Items : Kept(j) \/ Moved(h, j)
  BY <1>1, <1>5, <1>6, <1>8, ReapMoves
<1>10. HoldersTyped' /\ Takes(h) /\ Honest(h)' /\ \A k \in Holders \ {h} : holder'[k] = holder[k]
  <2>1. HoldersTyped /\ gens \in Nat BY <1>1, ItemsTyped
  <2>2. CASE disk' = mem' /\ holder' = [holder EXCEPT ![h] =
                  [pc |-> "claimed", item |-> i, gen |-> 0]]
    <3> HIDE DEF Queued
    <3>2. /\ holder'[h] = [pc |-> "claimed", item |-> i, gen |-> 0] /\ HoldersTyped'
          /\ \A k \in Holders \ {h} : holder'[k] = holder[k]
      BY <1>1, <2>1, <2>2 DEF HoldersTyped
    <3>3. Takes(h) BY <1>7, <3>2 DEF Takes
    <3>4. Turns(i)' = {} BY <1>1, <1>7 DEF Turns
    <3>5. holder'[h].pc = "claimed" /\ holder'[h].item = i BY <3>2
    <3>6. disk'[i].status = "claimed" /\ mem'[i].status = "claimed" BY <1>5, <2>2
    <3>8. Honest(h)' BY <3>4, <3>5, <3>6, Constants DEF Honest, Both, Is
    <3> QED BY <3>2, <3>3, <3>8
  <2>3. CASE holder' = holder
    <3>1. Takes(h) BY <2>3 DEF Takes
    <3>2. holder'[h] = Idle /\ Honest(h)' BY <1>1, <2>3 DEF Honest, Idle
    <3> QED BY <1>1, <2>1, <2>3, <3>1, <3>2 DEF HoldersTyped
  <2> QED BY <1>2, <1>3, <2>2, <2>3
<1>11. TypeOK' BY <1>1, <1>5, <1>6, <1>10, ItemsTyped, SameTypes
<1>12. born' >= born BY <1>1
<1> QED BY <1>1, <1>6, <1>9, <1>10, <1>11, <1>12, FilesMove

\* Somebody lets go of what they hold.
LEMMA LetsGo ==
    ASSUME InTurn, NEW h \in Holders, Same, UNCHANGED <<born, accepted, withdrawn, over, denied>>,
           mem' \in Files, Saved, holder' = [holder EXCEPT ![h] = Idle],
           \A i \in Items : Kept(i) \/ Moved(h, i)
    PROVE  InTurn'
<1>1. /\ TypeOK /\ HoldersTyped /\ born \in Nat /\ disk' \in Files
      /\ faults' \in 0..MaxFaults /\ (faults' = 0 => faults = 0)
  BY SaveShape, ItemsTyped DEF InTurn, TypeOK
<1>2. HoldersTyped' BY <1>1, IdleTyped DEF Same
<1>3. TypeOK' BY <1>1, <1>2, ItemsTyped, SameTypes
<1>4. /\ holder'[h] = Idle /\ \A k \in Holders \ {h} : holder'[k] = holder[k]
  BY <1>1 DEF HoldersTyped
<1>5. Takes(h) /\ Honest(h)' BY <1>4 DEF Takes, Honest, Idle
<1>6. UNCHANGED <<log, run, gens, crashes, over, denied>> /\ born' >= born BY <1>1 DEF Same
<1> QED BY <1>1, <1>3, <1>4, <1>5, <1>6, FilesMove

\* What a holder has in its hands it has alone.
LEMMA Alone ==
    ASSUME InTurn, NEW h \in Holders, holder[h].pc # "idle"
    PROVE  /\ holder[h].item \in Items /\ Held(holder[h].item) /\ Honest(h)
           /\ \A k \in Holders \ {h} : holder[k].item # holder[h].item
           /\ holder[h].item <= born /\ ~InBox(holder[h].item)
           /\ Turns(holder[h].item) = {} /\ (NothingWrong => Ingresses(holder[h].item) = {})
           /\ holder[h].pc \in {"claimed", "checked", "handing", "refused", "orphan"}
           /\ ~Carries(holder[h].item)
<1>1. TypeOK /\ Honest(h) /\ Distinct BY HonestHolders DEF InTurn
<1>2. PICK i \in Items : i = holder[h].item BY <1>1, ItemsTyped DEF Honest
<1>3. Held(i) BY <1>2 DEF Held
<1>4. holder[h].pc \in {"claimed", "checked", "handing", "refused", "orphan"}
  BY <1>1 DEF TypeOK
<1>5. \A k \in Holders \ {h} : holder[k].item # i BY <1>1, <1>2, Constants DEF Distinct
<1>6. ~InBox(i) BY <1>3, WhoHasIt
<1>7. mem[i].status \in {"claimed", "interject_pending"} /\ ~(i > born)
  BY <1>3, WhoHasIt DEF Is
<1>8. Turns(i) = {}
  <2>1. CASE Is(i, "interject_pending") BY <2>1, WhoHasIt DEF Is
  <2>2. CASE Is(i, "claimed")
    <3>1. holder[h].pc \in {"claimed", "checked"} BY <1>1, <1>2, <1>4, <2>2 DEF Honest, Is
    <3> QED BY <1>1, <1>2, <3>1 DEF Honest
  <2> QED BY <1>7, <2>1, <2>2 DEF Is
<1>9. ~Carries(i) BY <1>3, WhoHasIt
<1>10. NothingWrong => Ingresses(i) = {} BY <1>3, WhoHasIt
<1>11. i <= born BY <1>1, <1>7 DEF TypeOK, Items
<1> QED BY <1>1, <1>2, <1>3, <1>4, <1>5, <1>6, <1>8, <1>9, <1>10, <1>11

\* The turn goes back to the queue, or is what it was.
LEMMA HandsBack ==
    ASSUME InTurn, NEW h \in Holders, holder[h].pc # "idle", Same,
           UNCHANGED <<born, accepted, withdrawn, over, denied>>, Saved,
           mem' = mem \/ mem' = Set(mem, holder[h].item, "queued"),
           holder' = [holder EXCEPT ![h] = Idle]
    PROVE  InTurn'
<1>1. TypeOK /\ mem \in Files /\ "queued" \in Statuses
  BY ItemsTyped DEF InTurn, Statuses
<1>2. CASE mem' = mem
  <2>1. \A i \in Items : Kept(i) BY <1>1, <1>2, SaveShape DEF Kept
  <2> QED BY <1>1, <1>2, <2>1, LetsGo
<1>3. CASE mem' = Set(mem, holder[h].item, "queued")
  <2>1. PICK i \in Items : i = holder[h].item BY Alone
  <2>2. /\ mem' \in Files /\ mem'[i].status = "queued"
        /\ disk'[i] \in {disk[i], mem'[i]} /\ \A j \in Items \ {i} : Kept(j)
        /\ (faults' = 0 => faults = 0)
    <3>1. mem' = Set(mem, i, "queued") BY <1>3, <2>1
    <3> QED BY <1>1, <3>1, SaveSets
  <2>3. /\ \A k \in Holders \ {h} : holder[k].item # i
        /\ i <= born /\ ~InBox(i) /\ ~Carries(i) /\ Turns(i) = {}
        /\ (NothingWrong => Ingresses(i) = {}) /\ Held(i)
    BY <2>1, Alone
  <2>4. mem[i].status \in {"claimed", "interject_pending"} BY <2>3, WhoHasIt
  <2>5. NothingWrong' => NothingWrong BY <2>2 DEF NothingWrong, Same
  <2>6. Moved(h, i) BY <2>2, <2>3, <2>4, <2>5 DEF Moved, Is
  <2> QED BY <2>2, <2>6, LetsGo
<1> QED BY <1>2, <1>3

LEMMA BarrierReleaseStep ==
    ASSUME InTurn, NEW t \in Tabs, BarrierRelease(t)
    PROVE  InTurn'
<1>1. t \in Holders /\ holder[t].pc # "idle" BY DEF BarrierRelease, Holders
<1>2. Same /\ UNCHANGED <<born, accepted, withdrawn, over, denied>> /\ Saved
  BY DEF BarrierRelease, Same, Saved, counters, history
<1>3. mem' = mem \/ mem' = Set(mem, holder[t].item, "queued")
  BY DEF BarrierRelease, Released
<1>4. holder' = [holder EXCEPT ![t] = Idle] BY DEF BarrierRelease
<1> QED BY <1>1, <1>2, <1>3, <1>4, HandsBack

LEMMA TabDiesStep ==
    ASSUME InTurn, NEW t \in Tabs, TabDies(t)
    PROVE  InTurn'
<1>1. t \in Holders /\ holder[t].pc # "idle" BY DEF TabDies, Holders
<1>2. Same /\ UNCHANGED <<born, accepted, withdrawn, over, denied, mem>> /\ Saved
  BY DEF TabDies, Same, Saved, counters, history
<1>3. holder' = [holder EXCEPT ![t] = Idle] BY DEF TabDies
<1> QED BY <1>1, <1>2, <1>3, HandsBack

\* release_interject.
LEMMA TakeBackStep ==
    ASSUME InTurn, NEW h \in Holders, holder[h].pc # "idle", TakeBack(h)
    PROVE  InTurn'
<1>1. Same /\ UNCHANGED <<born, accepted, withdrawn, over, denied>> /\ Saved
  BY DEF TakeBack, Saves, SaveRaises, Same, Saved, counters, history
<1>2. mem' = mem \/ mem' = Set(mem, holder[h].item, "queued")
  BY DEF TakeBack, Saves, SaveRaises
<1>3. holder' = [holder EXCEPT ![h] = Idle] BY DEF TakeBack
<1> QED BY <1>1, <1>2, <1>3, HandsBack

\* A start that is refused gives the turn back.
LEMMA FallbackRefusedStep ==
    ASSUME InTurn, FallbackStarts, run # NoRun
    PROVE  InTurn'
<1>1. Fallback \in Holders /\ holder[Fallback].pc # "idle" BY DEF FallbackStarts, Holders
<1>2. Same /\ UNCHANGED <<born, accepted, withdrawn, over, denied>> /\ Saved
  BY DEF FallbackStarts, Saves, SaveRaises, Same, Saved, history
<1>3. mem' = mem \/ mem' = Set(mem, holder[Fallback].item, "queued")
  BY DEF FallbackStarts, Saves, SaveRaises, Released
<1>4. holder' = [holder EXCEPT ![Fallback] = Idle] BY DEF FallbackStarts
<1> QED BY <1>1, <1>2, <1>3, <1>4, HandsBack

\* chat_stream's check of the claim.
LEMMA CheckClaimStep ==
    ASSUME InTime, InTurn, NEW t \in Tabs, CheckClaim(t)
    PROVE  InTurn'
<1>1. /\ TypeOK /\ HoldersTyped /\ Same /\ UNCHANGED <<over, denied, withdrawn, accepted, born, crashes>>
      /\ holder[t].pc = "claimed" /\ t \in Holders /\ born \in Nat
  BY ItemsTyped DEF InTurn, TypeOK, CheckClaim, Same, counters, history, Holders
<1>2. PICK S \in StaleSets :
        /\ mem' = Reaped(S) /\ Saved
        /\ \/ holder' = [holder EXCEPT ![t] =
                IF Reaped(S)[holder[t].item].status = "claimed"
                THEN [@ EXCEPT !.pc = "checked"] ELSE Idle]
           \/ holder' = [holder EXCEPT ![t] = Idle]
  BY DEF CheckClaim, Saves, SaveRaises, Saved, items, NoFault
<1>3. /\ mem' \in Files /\ disk' \in Files /\ \A i \in Items : disk'[i] \in {disk[i], mem'[i]}
      /\ faults' \in 0..MaxFaults /\ (faults' = 0 => faults = 0)
  <2>1. mem' \in Files BY <1>1, <1>2, ReapedShape
  <2> QED BY <1>1, <1>2, <2>1, SaveShape
<1>4. \A i \in Items : Kept(i) \/ (Moved(t, i) /\ ~Held(i))
  BY <1>1, <1>2, <1>3, ReapMoves
<1>5. CASE holder' = [holder EXCEPT ![t] = Idle]
  BY <1>1, <1>2, <1>3, <1>4, <1>5, LetsGo
<1>6. CASE holder' = [holder EXCEPT ![t] = [holder[t] EXCEPT !.pc = "checked"]]
  <2>1. PICK i \in Items : i = holder[t].item BY <1>1, Alone
  <2>2. Held(i) /\ Honest(t) BY <1>1, <2>1, Alone
  <2>3. /\ HoldersTyped' /\ holder'[t].pc = "checked" /\ holder'[t].item = i
        /\ \A k \in Holders \ {t} : holder'[k] = holder[k]
    BY <1>1, <1>6, <2>1 DEF HoldersTyped, Same
  <2>4. Kept(i) BY <1>4, <2>2
  <2>5. Both(i, "claimed") /\ Turns(i) = {} BY <1>1, <2>1, <2>2 DEF Honest
  <2>6. Both(i, "claimed")' BY <2>4, <2>5 DEF Kept, Both, Is
  <2>7. Turns(i)' = {} BY <1>1, <2>5 DEF Same, Turns
  <2>8. Honest(t)' BY <2>3, <2>6, <2>7, Constants DEF Honest
  <2>9. Takes(t) BY <2>1, <2>3 DEF Takes
  <2>10. TypeOK' BY <1>1, <1>3, <2>3, ItemsTyped, SameTypes
  <2>11. UNCHANGED <<log, run, gens, crashes, over, denied>> /\ born' >= born BY <1>1 DEF Same
  <2> QED BY <1>1, <1>3, <1>4, <2>3, <2>8, <2>9, <2>10, <2>11, FilesMove
<1>7. holder' = [holder EXCEPT ![t] = [holder[t] EXCEPT !.pc = "checked"]]
         \/ holder' = [holder EXCEPT ![t] = Idle]
  BY <1>2
<1> QED BY <1>5, <1>6, <1>7

\* claim_interject.
LEMMA InterjectClaimStep ==
    ASSUME InTurn, NEW t \in Tabs, NEW i \in Items, InterjectClaim(t, i)
    PROVE  InTurn'
<1>1. /\ TypeOK /\ HoldersTyped /\ Same /\ UNCHANGED <<over, denied, withdrawn, accepted, born, crashes>>
      /\ holder[t] = Idle /\ Is(i, "queued") /\ t \in Holders /\ born \in Nat
  BY ItemsTyped DEF InTurn, TypeOK, InterjectClaim, Same, counters, history, Holders
<1> DEFINE handed == [status |-> "interject_pending", gen |-> run.gen]
<1>2. /\ mem' = [mem EXCEPT ![i] = handed] /\ Saved
      /\ \/ /\ disk' = mem'
            /\ holder' = [holder EXCEPT ![t] = [pc |-> "handing", item |-> i, gen |-> run.gen]]
         \/ holder' = holder
  BY DEF InterjectClaim, Saves, SaveRaises, Saved
<1>3. /\ handed \in [status : Statuses, gen : 0..gens]
      /\ handed.status = "interject_pending" /\ handed.gen # 0
  BY <1>1 DEF TypeOK, Statuses, InTurn, RunIsHonest, InterjectClaim
<1> HIDE DEF handed
<1>4. /\ mem' \in Files /\ mem'[i] = handed /\ \A j \in Items \ {i} : mem'[j] = mem[j]
  BY <1>1, <1>2, <1>3, ItemsTyped DEF Files
<1>5. /\ disk' \in Files /\ \A j \in Items : disk'[j] \in {disk[j], mem'[j]}
      /\ faults' \in 0..MaxFaults /\ (faults' = 0 => faults = 0)
  BY <1>1, <1>2, <1>4, SaveShape
<1>6. /\ ~Held(i) /\ ~InBox(i) /\ ~Carries(i) /\ Turns(i) = {} /\ ~(i > born)
      /\ NothingWrong => Ingresses(i) = {}
  BY <1>1, WhoHasIt DEF Is
<1>7. Moved(t, i)
  <2>1. \A k \in Holders : holder[k].item # i BY <1>6 DEF Held
  <2>2. i <= born' BY <1>1, <1>6 DEF Items
  <2>3. NothingWrong' => Ingresses(i) = {} BY <1>1, <1>5, <1>6 DEF NothingWrong
  <2> QED BY <1>1, <1>3, <1>4, <1>5, <1>6, <2>1, <2>2, <2>3 DEF Moved, Is
<1>8. \A j \in Items \ {i} : Kept(j) BY <1>4, <1>5 DEF Kept
<1>9. HoldersTyped' /\ Takes(t) /\ Honest(t)' /\ \A k \in Holders \ {t} : holder'[k] = holder[k]
  <2>1. CASE holder' = [holder EXCEPT ![t] = [pc |-> "handing", item |-> i, gen |-> run.gen]]
    <3>1. run.gen \in 0..gens BY <1>1 DEF TypeOK
    <3>2. /\ holder'[t] = [pc |-> "handing", item |-> i, gen |-> run.gen] /\ HoldersTyped'
          /\ \A k \in Holders \ {t} : holder'[k] = holder[k]
      BY <1>1, <2>1, <3>1 DEF HoldersTyped, Same
    <3>3. Takes(t) BY <1>6, <3>2 DEF Takes
    <3>4. /\ holder'[t].pc = "handing" /\ holder'[t].item = i
          /\ mem'[i] = [status |-> "interject_pending", gen |-> holder'[t].gen]
      BY <1>4, <3>2 DEF handed
    <3>5. Honest(t)' BY <3>4, Constants DEF Honest
    <3> QED BY <3>2, <3>3, <3>5
  <2>2. CASE holder' = holder
    <3>1. Takes(t) BY <2>2 DEF Takes
    <3>2. holder'[t] = Idle /\ Honest(t)' BY <1>1, <2>2 DEF Honest, Idle
    <3> QED BY <1>1, <2>2, <3>1, <3>2 DEF HoldersTyped, Same
  <2> QED BY <1>2, <2>1, <2>2
<1>10. TypeOK' BY <1>1, <1>4, <1>5, <1>9, ItemsTyped, SameTypes
<1>11. UNCHANGED <<log, run, gens, crashes, over, denied>> /\ born' >= born BY <1>1 DEF Same
<1> QED BY <1>1, <1>5, <1>7, <1>8, <1>9, <1>10, <1>11, FilesMove

\* reap_orphan_interjects.
LEMMA OrphanSeenStep ==
    ASSUME InTime, InTurn, NEW i \in Items, OrphanSeen(i)
    PROVE  InTurn'
<1>1. /\ TypeOK /\ HoldersTyped /\ Same
      /\ UNCHANGED <<mem, disk, faults, over, denied, withdrawn, accepted, born, crashes>>
      /\ Is(i, "interject_pending") /\ mem[i].gen # run.gen /\ ~Held(i)
      /\ holder' = [holder EXCEPT ![Fallback] = [pc |-> "orphan", item |-> i, gen |-> 0]]
      /\ Fallback \in Holders /\ born \in Nat
  BY ItemsTyped DEF InTurn, TypeOK, OrphanSeen, Abandoned, InTime, Same, counters, history,
                    items, Holders
<1>2. ~InBox(i) /\ ~Carries(i) /\ (NothingWrong => Ingresses(i) = {})
  BY <1>1, WhoHasIt DEF Is
<1>3. /\ holder'[Fallback] = [pc |-> "orphan", item |-> i, gen |-> 0] /\ HoldersTyped'
      /\ \A k \in Holders \ {Fallback} : holder'[k] = holder[k]
  BY <1>1, ItemsTyped DEF HoldersTyped, Same
<1>4. Takes(Fallback) BY <1>1, <1>2, <1>3 DEF Takes
<1>5. holder'[Fallback].pc = "orphan" /\ holder'[Fallback].item = i BY <1>3
<1>6. Is(i, "interject_pending")' /\ mem'[i].gen # run'.gen BY <1>1 DEF Is, Same
<1>7. Honest(Fallback)' BY <1>5, <1>6, Constants DEF Honest
<1>8. \A j \in Items : Kept(j) BY <1>1 DEF Kept
<1>9. TypeOK' BY <1>1, <1>3, ItemsTyped, SameTypes DEF TypeOK
<1>10. UNCHANGED <<log, run, gens, crashes, over, denied>> /\ born' >= born /\ (faults' = 0 => faults = 0)
  BY <1>1 DEF Same
<1> QED BY <1>1, <1>3, <1>4, <1>7, <1>8, <1>9, <1>10, FilesMove

-----------------------------------------------------------------------------
\* The steps of the runs

RunTyped ==
    run \in [gen : 0..gens, item : Items \union {None}, by : Holders \union {None},
             pc : {"none", "registered", "running", "acking", "completed", "failed",
                   "not_started", "told"},
             box : SUBSET Items, at : Items \union {None}]

\* The files and the budget stand still.
FilesStand == UNCHANGED <<mem, disk, born, crashes, accepted, withdrawn>>

\* A running run started last, and its message is the last that started one.
StillOn ==
    run.pc \in {"running", "acking"} =>
        \E p \in Starts : log[p].item = run.item /\ \A q \in Starts : q <= p

LEMMA RunTypes ==
    ASSUME TypeOK, FilesStand, RunTyped', HoldersTyped', log' \in Seq(Events),
           gens' \in Nat, gens' >= gens, others' \in 0..MaxOthers, faults' \in 0..MaxFaults,
           over' \subseteq Items, denied' \subseteq Items
    PROVE  TypeOK'
<1>1. mem' \in Files' /\ disk' \in Files'
  <2>1. 0..gens \subseteq 0..gens' BY DEF TypeOK
  <2> QED BY <2>1 DEF TypeOK, FilesStand, Files
<1> QED BY <1>1 DEF TypeOK, FilesStand, HoldersTyped, RunTyped

\* runner.start for a turn that its holder has claimed.
LEMMA StartStep ==
    ASSUME InTurn, NEW h \in Holders, holder[h].pc \in {"claimed", "checked"}, run = NoRun,
           FilesStand, UNCHANGED <<log, others, faults, over, denied>>,
           holder' = [holder EXCEPT ![h] = Idle], Register(holder[h].item, h)
    PROVE  InTurn'
<1>1. /\ TypeOK /\ HoldersTyped /\ gens \in Nat /\ holder[h].pc # "idle" /\ Distinct
      /\ \A k \in Holders : Honest(k)
  BY ItemsTyped, HonestHolders DEF InTurn
<1>2. PICK i \in Items : i = holder[h].item BY <1>1, Alone
<1>3. Both(i, "claimed") /\ Turns(i) = {} /\ (NothingWrong => Ingresses(i) = {}) /\ Held(i)
  BY <1>1, <1>2, Alone DEF Honest
<1>4. run' = [gen |-> gens + 1, item |-> i, by |-> h, pc |-> "registered", box |-> {}, at |-> None]
  BY <1>2 DEF Register, NoRun
<1>5. /\ run'.gen = gens + 1 /\ run'.item = i /\ run'.pc = "registered" /\ run'.box = {}
      /\ run'.at = None /\ gens' = gens + 1
  <2>1. gens' = gens + 1 BY DEF Register
  <2> QED BY <1>4, <2>1
<1>6. /\ holder'[h] = Idle /\ \A k \in Holders \ {h} : holder'[k] = holder[k]
      /\ HoldersTyped'
  BY <1>1, <1>5 DEF HoldersTyped, Idle
<1>7. TypeOK'
  <2>1. RunTyped' BY <1>1, <1>4, <1>5 DEF RunTyped
  <2> QED BY <1>1, <1>5, <1>6, <2>1, RunTypes DEF TypeOK
<1>8. \A j \in Items : Turns(j)' = Turns(j) /\ Ingresses(j)' = Ingresses(j)
  BY DEF Turns, Ingresses
<1>9. ASSUME NEW k \in Holders \ {h} PROVE Honest(k)'
  <2>1. holder'[k] = holder[k] /\ Honest(k) BY <1>1, <1>6
  <2>3. holder[k].item \in Items => mem[holder[k].item].gen # gens + 1
    BY <1>1, ItemsTyped
  <2>4. holder[k].item \in Items \/ holder[k].pc = "idle" BY <1>1, <2>1, ItemsTyped DEF Honest
  <2> QED BY <1>5, <1>8, <2>1, <2>3, <2>4, Constants DEF Honest, FilesStand, Both, Is
<1>10. Honest(h)' BY <1>6 DEF Honest, Idle
<1>11. HoldersAreHonest'
  <2>1. Distinct' BY <1>1, <1>6 DEF Distinct, Idle
  <2> QED BY <1>9, <1>10, <2>1 DEF HoldersAreHonest, Honest, Distinct
<1>12. RunIsHonest'
  <2>1. \A j \in Items : ~InBox(j)' BY <1>5 DEF InBox
  <2>2. run' # NoRun BY <1>5 DEF NoRun
  <2>3. /\ Both(i, "claimed")' /\ Turns(i)' = {} /\ \A j \in Items : Carries(j)' => j = i
    BY <1>3, <1>5, <1>8 DEF FilesStand, Both, Is, Carries
  <2>4. ~Held(i)' BY <1>1, <1>2, <1>6, Constants DEF Held, Distinct, Idle
  <2> QED BY <1>1, <1>5, <2>1, <2>2, <2>3, <2>4 DEF RunIsHonest
<1>13. RunsOnce' /\ FilesAreHonest'
  BY <1>8 DEF InTurn, RunsOnce, FilesAreHonest, FilesStand, Both, Is
<1>14. DeliveriesAreKnown'
  <2> SUFFICES ASSUME NEW j \in Items, NothingWrong', Ingresses(j)' # {}
               PROVE  /\ \/ mem'[j].status \in {"claimed", "completed", "failed", "interject_received"}
                         \/ run'.pc = "acking" /\ run'.at = j
                      /\ ~Held(j)' /\ j \notin run'.box
                      /\ ~(run'.pc \in {"registered", "not_started"} /\ run'.item = j)
    BY DEF DeliveriesAreKnown, NothingWrong
  <2>1. NothingWrong /\ Ingresses(j) # {} BY <1>8 DEF NothingWrong, FilesStand
  <2>2. j # i BY <1>3, <2>1
  <2>3. ~InBox(j) /\ ~Held(j) BY <2>1, WhoHasIt
  <2>4. mem[j].status \in {"claimed", "completed", "failed", "interject_received"}
    BY <2>1, <2>3, WhoHasIt
  <2>5. ~Held(j)'
    <3>1. holder'[h].item = None BY <1>6 DEF Idle
    <3> QED BY <1>6, <2>3, <3>1, Constants DEF Held
  <2> QED BY <1>5, <2>2, <2>4, <2>5 DEF FilesStand
<1> QED BY <1>7, <1>11, <1>12, <1>13, <1>14 DEF InTurn

LEMMA TabStartsStep ==
    ASSUME InTurn, NEW t \in Tabs, TabStarts(t)
    PROVE  InTurn'
<1>1. /\ t \in Holders /\ holder[t].pc = "checked" /\ holder' = [holder EXCEPT ![t] = Idle]
  BY DEF TabStarts, Holders
<1>2. CASE run = NoRun
  <2>1. FilesStand /\ UNCHANGED <<log, others, faults, over, denied>> /\ Register(holder[t].item, t)
    BY <1>2 DEF TabStarts, FilesStand, items, history
  <2> QED BY <1>1, <1>2, <2>1, StartStep
<1>3. CASE run # NoRun
  <2>1. Same /\ UNCHANGED <<born, accepted, withdrawn, over, denied, mem>> /\ Saved
    BY <1>3 DEF TabStarts, Same, Saved, NoFault, items, history
  <2> QED BY <1>1, <2>1, HandsBack
<1> QED BY <1>2, <1>3

LEMMA FallbackStartsStep ==
    ASSUME InTurn, FallbackStarts
    PROVE  InTurn'
<1>1. CASE run = NoRun
  <2>1. /\ Fallback \in Holders /\ holder[Fallback].pc = "claimed"
        /\ holder' = [holder EXCEPT ![Fallback] = Idle]
    BY DEF FallbackStarts, Holders
  <2>2. FilesStand /\ UNCHANGED <<log, others, faults, over, denied>> /\ Register(holder[Fallback].item, Fallback)
    BY <1>1 DEF FallbackStarts, FilesStand, items, history
  <2> QED BY <1>1, <2>1, <2>2, StartStep
<1> QED BY <1>1, FallbackRefusedStep

\* enqueue_interjection.
LEMMA InterjectHandStep ==
    ASSUME InTurn, NEW t \in Tabs, InterjectHand(t)
    PROVE  InTurn'
<1>1. /\ TypeOK /\ HoldersTyped /\ gens \in Nat /\ holder[t].pc = "handing" /\ Distinct
      /\ \A k \in Holders : Honest(k)
      /\ t \in Holders /\ holder[t].pc # "idle" /\ RunIsHonest
  BY ItemsTyped, HonestHolders DEF InTurn, InterjectHand, Holders
<1>2. PICK i \in Items : i = holder[t].item BY <1>1, Alone
<1>3. /\ mem[i] = [status |-> "interject_pending", gen |-> holder[t].gen]
      /\ Is(i, "interject_pending") /\ mem[i].gen = holder[t].gen
      /\ ~InBox(i) /\ Turns(i) = {} /\ (NothingWrong => Ingresses(i) = {})
  BY <1>1, <1>2, Alone DEF Honest, Is
<1>4. /\ FilesStand /\ UNCHANGED <<faults, over, denied, gens, log, others>>
      /\ \A j \in Items : Turns(j)' = Turns(j) /\ Ingresses(j)' = Ingresses(j)
  BY DEF InterjectHand, items, counters, history, FilesStand, Turns, Ingresses
<1>5. CASE run.gen = holder[t].gen
  <2>1. /\ run' = [run EXCEPT !.box = @ \union {i}] /\ holder' = [holder EXCEPT ![t] = Idle]
    BY <1>2, <1>5 DEF InterjectHand
  <2>2. /\ RunTyped' /\ run'.gen = run.gen /\ run'.item = run.item /\ run'.pc = run.pc
        /\ run'.box = run.box \union {i} /\ run'.at = run.at /\ run'.by = run.by
    BY <1>1, <1>4, <2>1 DEF TypeOK, RunTyped
  <2>3. /\ holder'[t] = Idle /\ holder'[t].item = None /\ HoldersTyped'
        /\ \A k \in Holders \ {t} : holder'[k] = holder[k]
    BY <1>1, <1>4, <2>1 DEF HoldersTyped, Idle
  <2>4. TypeOK' BY <1>1, <1>4, <2>2, <2>3, RunTypes DEF TypeOK
  <2>5. ~Held(i)' /\ \A j \in Items : Held(j)' => Held(j)
    BY <1>1, <1>2, <2>3, Constants DEF Held, Distinct
  <2>6. HoldersAreHonest'
    <3>1. ASSUME NEW k \in Holders \ {t} PROVE Honest(k)'
      <4>1. holder'[k] = holder[k] /\ Honest(k) BY <1>1, <2>3
      <4> QED BY <1>4, <2>2, <4>1 DEF Honest, FilesStand, Both, Is, Turns
    <3>2. Honest(t)' BY <2>3 DEF Honest, Idle
    <3>3. Distinct' BY <1>1, <2>3 DEF Distinct, Idle
    <3> QED BY <3>1, <3>2, <3>3 DEF HoldersAreHonest, Honest, Distinct
  <2>7. RunIsHonest'
    <3>1. run.gen # 0 /\ run # NoRun
      <4>1. mem[i].gen # 0 BY <1>3, WhoHasIt
      <4> QED BY <1>3, <1>5, <4>1 DEF NoRun
    <3>2. run.pc # "none" /\ run' # NoRun BY <1>1, <2>2, <3>1 DEF RunIsHonest, NoRun
    <3>3. \A j \in Items : InBox(j)' => InBox(j) \/ j = i BY <2>2 DEF InBox
    <3>4. ASSUME NEW j \in Items, InBox(j)'
          PROVE  mem'[j] = [status |-> "interject_pending", gen |-> run'.gen] /\ ~Held(j)'
      <4>1. CASE j = i BY <1>3, <1>4, <1>5, <2>2, <2>5, <4>1 DEF FilesStand
      <4>2. CASE InBox(j) BY <1>1, <1>4, <2>2, <2>5, <4>2 DEF FilesStand, RunIsHonest
      <4> QED BY <3>3, <3>4, <4>1, <4>2
    <3>5. run.pc = "acking" => run.at \in Items \ run'.box
      <4>1. run.pc = "acking" => run.at # i BY <1>3 DEF InBox
      <4> QED BY <1>1, <2>2, <4>1 DEF RunIsHonest
    <3>6. Starts' = Starts BY <1>4 DEF Starts
    <3>7. ASSUME NEW j \in Items, Carries(j)'
          PROVE  /\ Both(j, "claimed")' /\ ~Held(j)'
                 /\ run.pc \in {"registered", "not_started"} => Turns(j)' = {}
      <4>1. Carries(j) BY <2>2, <3>7 DEF Carries
      <4> QED BY <1>1, <1>4, <2>5, <4>1 DEF RunIsHonest, FilesStand, Both, Is
    <3>8. run'.pc # "none" /\ run'.gen # 0 BY <2>2, <3>1, <3>2
    <3>9. run'.pc = "acking" => run'.at \in Items \ run'.box BY <2>2, <3>5
    <3>12. /\ run'.item = run.item /\ run'.pc = run.pc /\ log' = log /\ UNCHANGED <<over, denied>>
           /\ run'.pc = "registered" => run'.item \in Items
      BY <1>1, <1>4, <2>2 DEF RunIsHonest
    <3>10. StillOn'
      <4>1. StillOn BY <1>1 DEF RunIsHonest, StillOn
      <4> QED BY <3>6, <3>12, <4>1 DEF StillOn
    <3>11. run'.pc = "completed" => run'.item \in over' \union denied' \union {None}
      BY <1>1, <3>12 DEF RunIsHonest
    <3> QED BY <3>2, <3>4, <3>7, <3>8, <3>9, <3>10, <3>11, <3>12 DEF RunIsHonest, StillOn
  <2>8. RunsOnce' /\ FilesAreHonest'
    BY <1>4 DEF InTurn, RunsOnce, FilesAreHonest, FilesStand, Both, Is
  <2>9. DeliveriesAreKnown'
    <3> SUFFICES ASSUME NEW j \in Items, NothingWrong', Ingresses(j)' # {}
                 PROVE  /\ \/ mem'[j].status \in {"claimed", "completed", "failed", "interject_received"}
                           \/ run'.pc = "acking" /\ run'.at = j
                        /\ ~Held(j)' /\ j \notin run'.box
                        /\ ~(run'.pc \in {"registered", "not_started"} /\ run'.item = j)
      BY DEF DeliveriesAreKnown, NothingWrong
    <3>1. NothingWrong /\ Ingresses(j) # {} BY <1>4 DEF NothingWrong, FilesStand
    <3>2. j # i BY <1>3, <3>1
    <3> QED BY <1>4, <2>2, <2>5, <3>1, <3>2 DEF InTurn, DeliveriesAreKnown, NothingWrong, FilesStand
  <2> QED BY <2>4, <2>6, <2>7, <2>8, <2>9 DEF InTurn
<1>6. CASE run.gen # holder[t].gen
  <2>1. holder' = [holder EXCEPT ![t].pc = "refused"] /\ run' = run
    BY <1>6 DEF InterjectHand
  <2>2. /\ holder'[t].pc = "refused" /\ holder'[t].item = i /\ HoldersTyped'
        /\ \A k \in Holders \ {t} : holder'[k] = holder[k]
    BY <1>1, <1>2, <1>4, <2>1 DEF HoldersTyped
  <2>3. Is(i, "interject_pending")' /\ mem'[i].gen # run'.gen
    BY <1>3, <1>4, <1>6, <2>1 DEF FilesStand, Is
  <2>4. Honest(t)' BY <2>2, <2>3, Constants DEF Honest
  <2>5. Takes(t) BY <1>2, <2>2 DEF Takes
  <2>6. TypeOK'
    <3>1. Same BY <1>4, <2>1 DEF Same, FilesStand
    <3> QED BY <1>1, <1>4, <2>2, <3>1, ItemsTyped, SameTypes DEF FilesStand, TypeOK
  <2>7. /\ UNCHANGED <<log, run, gens, crashes, over, denied>> /\ born' >= born
        /\ (faults' = 0 => faults = 0) /\ withdrawn' = withdrawn
    BY <1>1, <1>4, <2>1 DEF FilesStand, TypeOK
  <2>8. \A j \in Items : Kept(j) BY <1>4 DEF Kept, FilesStand
  <2> QED BY <1>1, <2>2, <2>4, <2>5, <2>6, <2>7, <2>8, FilesMove
<1> QED BY <1>5, <1>6

\* A run that is under way goes on, ends, or is gone; it starts no turn.
GoesOn ==
    \/ run' = NoRun /\ run.pc # "acking"
    \/ /\ run'.gen = run.gen /\ run'.item = run.item /\ run' # NoRun /\ run # NoRun
       /\ run.pc # "told"
       /\ run'.pc \in {"running", "acking", "completed", "failed", "told", "not_started"}
       /\ run'.pc = "not_started" => run.pc = "registered"
       /\ run'.pc \in {"running", "acking"} => run.pc \in {"running", "acking"}
       /\ run'.pc = "acking" => run'.at \in Items \ run'.box
       /\ run'.pc = "completed" => run'.item \in over' \union denied' \union {None}

\* What the run makes of a turn that it carries or was handed.
Settles(i) ==
    /\ ~Held(i) /\ disk'[i] \in {disk[i], mem'[i]} /\ ~Carries(i)'
    /\ \/ Is(i, "claimed") /\ mem'[i].status \in Finished
       \/ /\ Is(i, "claimed") /\ mem'[i].status = "queued"
          /\ Turns(i) = {} /\ (NothingWrong' => Ingresses(i) = {})
       \/ InBox(i) /\ mem'[i].status = "interject_received"
       \/ InBox(i) /\ mem'[i].status = "interject_denied" /\ ~NothingWrong'

\* A message is logged while the run takes it from its mailbox.
Delivers(e) ==
    /\ e.kind \in {"interjection", "end"}
    /\ e.kind = "interjection" =>
         /\ InBox(e.item)
         /\ NothingWrong' => run'.pc = "acking" /\ run'.at = e.item /\ e.item \notin run'.box

LEMMA RunMoves ==
    ASSUME InTurn, TypeOK', UNCHANGED <<holder, born, crashes, withdrawn>>,
           over \subseteq over', denied \subseteq denied', faults' = 0 => faults = 0, GoesOn,
           log' = log \/ \E e \in Events : log' = Append(log, e) /\ Delivers(e),
           \A i \in Items : InBox(i)' => InBox(i) /\ mem'[i] = mem[i],
           \A i \in Items : Kept(i) \/ Settles(i),
           run.pc = "acking" /\ NothingWrong' => mem'[run.at].status = "interject_received"
    PROVE  InTurn'
<1> USE DEF InTurn
<1>1. ASSUME NEW i \in Items
      PROVE  /\ Turns(i)' = Turns(i) /\ Held(i)' = Held(i)
             /\ \/ Ingresses(i)' = Ingresses(i)
                \/ /\ InBox(i)
                   /\ NothingWrong' => run'.pc = "acking" /\ run'.at = i /\ i \notin run'.box
             /\ NothingWrong' => NothingWrong
  <2>1. Held(i)' = Held(i) /\ (NothingWrong' => NothingWrong) BY DEF Held, NothingWrong
  <2>2. CASE log' = log BY <2>1, <2>2 DEF Turns, Ingresses
  <2>3. CASE \E e \in Events : log' = Append(log, e) /\ Delivers(e)
    <3>1. PICK e \in Events : log' = Append(log, e) /\ Delivers(e) BY <2>3
    <3>2. Turns(i)' = Turns(i) BY <3>1, AppendTurns DEF Delivers
    <3>3. e.item # i => Ingresses(i)' = Ingresses(i) BY <3>1, AppendTurns
    <3>4. e.item = i => e.kind = "interjection" BY <3>1, EventShape DEF Delivers
    <3> QED BY <2>1, <3>1, <3>2, <3>3, <3>4 DEF Delivers
  <2> QED BY <2>2, <2>3
<1>2. RunsOnce' BY <1>1 DEF RunsOnce
<1>3. HoldersAreHonest'
  <2>1. ASSUME NEW k \in Holders PROVE Honest(k)'
    <3>1. Honest(k) BY HonestHolders
    <3>2. CASE holder[k].item = None
      BY <3>1, <3>2 DEF Honest
    <3>3. CASE holder[k].item # None
      <4>1. PICK i \in Items : i = holder[k].item BY <3>3 DEF TypeOK
      <4>2. Kept(i) BY <4>1 DEF Settles, Held
      <4>3. Is(i, "interject_pending") => mem[i].gen # 0 BY DEF FilesAreHonest
      <4>4. run'.gen \in {run.gen, 0} BY DEF GoesOn, NoRun
      <4> QED BY <1>1, <3>1, <4>1, <4>2, <4>3, <4>4 DEF Honest, Kept, Both, Is
    <3> QED BY <3>2, <3>3
  <2> QED BY <2>1, HonestHolders DEF HoldersAreHonest, Honest, Distinct
<1>4. Starts' = Starts /\ \A p \in Starts : log'[p] = log[p]
  <2>1. CASE log' = log BY <2>1 DEF Starts
  <2>2. CASE \E e \in Events : log' = Append(log, e) /\ Delivers(e)
    <3>1. PICK e \in Events : log' = Append(log, e) /\ Delivers(e) BY <2>2
    <3> QED BY <3>1, AppendShape DEF Starts, Delivers
  <2> QED BY <2>1, <2>2
<1>5. RunIsHonest'
  <2>1. ASSUME NEW i \in Items, InBox(i)'
        PROVE  mem'[i] = [status |-> "interject_pending", gen |-> run'.gen] /\ ~Held(i)'
    <3>1. InBox(i) /\ mem'[i] = mem[i] BY <2>1
    <3>2. run'.gen = run.gen BY <2>1, Constants DEF GoesOn, InBox, NoRun
    <3> QED BY <1>1, <3>1, <3>2 DEF RunIsHonest
  <2>2. ASSUME NEW i \in Items, Carries(i)'
        PROVE  /\ Both(i, "claimed")' /\ ~Held(i)'
               /\ run'.pc \in {"registered", "not_started"} => Turns(i)' = {}
    <3>1. run' # NoRun BY <2>2, Constants DEF Carries, NoRun
    <3>2. Carries(i) /\ (run'.pc \in {"registered", "not_started"} => run.pc = "registered")
      BY <2>2, <3>1 DEF GoesOn, Carries
    <3>3. Kept(i) BY <2>2 DEF Settles
    <3> QED BY <1>1, <3>2, <3>3 DEF RunIsHonest, Kept, Both, Is
  <2>3. /\ run'.pc = "none" <=> run' = NoRun
        /\ run' # NoRun => run'.gen # 0
        /\ run'.pc = "acking" => run'.at \in Items \ run'.box
        /\ run'.pc # "registered"
        /\ run'.pc = "completed" => run'.item \in over' \union denied' \union {None}
    BY DEF GoesOn, NoRun, RunIsHonest
  <2>4. StillOn'
    <3>1. StillOn BY DEF RunIsHonest, StillOn
    <3>2. ASSUME run'.pc \in {"running", "acking"}
          PROVE  run.pc \in {"running", "acking"} /\ run'.item = run.item
      BY <3>2 DEF GoesOn, NoRun
    <3> QED BY <1>4, <3>1, <3>2 DEF StillOn
  <2> QED BY <2>1, <2>2, <2>3, <2>4 DEF RunIsHonest, StillOn
<1>6. FilesAreHonest'
  <2> SUFFICES ASSUME NEW i \in Items
               PROVE  /\ i > born => Both(i, "absent")'
                      /\ Turns(i) # {} =>
                           {mem'[i].status, disk'[i].status} \subseteq {"claimed", "completed", "failed"}
                      /\ i \in withdrawn => Both(i, "cancelled")'
                      /\ Is(i, "interject_pending")' => mem'[i].gen # 0
    BY <1>1 DEF FilesAreHonest
  <2>1. /\ i > born => Both(i, "absent")
        /\ Turns(i) # {} =>
             {mem[i].status, disk[i].status} \subseteq {"claimed", "completed", "failed"}
        /\ i \in withdrawn => Both(i, "cancelled")
        /\ Is(i, "interject_pending") => mem[i].gen # 0
    BY DEF FilesAreHonest
  <2>2. InBox(i) => Is(i, "interject_pending") BY WhoHasIt
  <2>3. CASE Kept(i) BY <2>1, <2>3 DEF Kept, Both, Is
  <2>4. CASE Settles(i) BY <2>1, <2>2, <2>4 DEF Settles, Both, Is, Finished
  <2> QED BY <2>3, <2>4
<1>7. DeliveriesAreKnown'
  <2> SUFFICES ASSUME NEW i \in Items, NothingWrong', Ingresses(i)' # {}
               PROVE  /\ \/ mem'[i].status \in {"claimed", "completed", "failed", "interject_received"}
                         \/ run'.pc = "acking" /\ run'.at = i
                      /\ ~Held(i)' /\ i \notin run'.box
                      /\ ~(run'.pc \in {"registered", "not_started"} /\ run'.item = i)
    BY DEF DeliveriesAreKnown, NothingWrong
  <2>1. run'.pc \in {"registered", "not_started"} => run.pc = "registered" /\ run'.item = run.item
    BY DEF GoesOn, NoRun
  <2>2. CASE InBox(i) /\ run'.pc = "acking" /\ run'.at = i /\ i \notin run'.box
    BY <1>1, <2>1, <2>2, WhoHasIt
  <2>3. CASE Ingresses(i) # {}
    <3>1. /\ \/ mem[i].status \in {"claimed", "completed", "failed", "interject_received"}
             \/ run.pc = "acking" /\ run.at = i
          /\ ~Held(i) /\ i \notin run.box
          /\ ~(run.pc = "registered" /\ run.item = i)
      BY <1>1, <2>3 DEF DeliveriesAreKnown, NothingWrong
    <3>2. InBox(i) => run.pc = "acking" /\ run.at = i BY <3>1 DEF InBox
    <3>3. InBox(i) => mem'[i].status = "interject_received" BY <3>2
    <3>4. i \notin run'.box
      <4>1. ASSUME i \in run'.box PROVE FALSE
        <5>1. InBox(i)' BY <4>1 DEF InBox
        <5>2. InBox(i) /\ mem'[i] = mem[i] BY <5>1
        <5> QED BY <3>3, <5>2, WhoHasIt DEF Is
      <4> QED BY <4>1
    <3>5. mem'[i].status \in {"claimed", "completed", "failed", "interject_received"}
      <4>1. CASE Kept(i) BY <3>1, <3>3, <4>1 DEF Kept, InBox
      <4>2. CASE Settles(i) BY <2>3, <4>2 DEF Settles, Finished
      <4> QED BY <4>1, <4>2
    <3> QED BY <1>1, <2>1, <3>1, <3>4, <3>5
  <2> QED BY <1>1, <2>2, <2>3
<1> QED BY <1>2, <1>3, <1>5, <1>6, <1>7

LEMMA EventTyped ==
    ASSUME NEW i \in Items, NEW reason \in {"completed", "failed"}, NEW kind \in Others
    PROVE  /\ Event("turn", i, None) \in Events /\ Event("interjection", i, None) \in Events
           /\ Event("end", None, reason) \in Events /\ Event(kind, None, None) \in Events
           /\ Event("turn", i, None).kind = "turn" /\ Event("turn", i, None).item = i
           /\ Event("interjection", i, None).kind = "interjection"
           /\ Event("interjection", i, None).item = i
           /\ Event("end", None, reason).kind = "end" /\ Event("end", None, reason).item = None
           /\ Event(kind, None, None).kind = kind /\ Event(kind, None, None).item = None
BY DEF Event, Events

\* The messages that a run has taken in start with its own.
LEMMA TakenShape ==
    ASSUME InTurn, run.pc = "running"
    PROVE  /\ Taken \subseteq Items /\ run.item \in Taken \union {None}
           /\ Len(log) \in DOMAIN log /\ log[Len(log)].item \in Taken \union {None}
<1>1. TypeOK /\ Len(log) \in Nat /\ DOMAIN log = 1..Len(log)
      /\ \A p \in DOMAIN log : log[p] \in Events
  BY LogShape DEF InTurn
<1>2. PICK p \in Starts : log[p].item = run.item /\ \A q \in Starts : q <= p
  BY DEF InTurn, RunIsHonest
<1>3. p \in 1..Len(log) /\ Starts \subseteq 1..Len(log) BY <1>1 DEF Starts
<1>4. LastEnd = {0} \union Starts
  BY <1>1, EventShape DEF LastEnd, Starts
<1>5. Max(LastEnd) = p
  <2>1. p \in LastEnd /\ \A q \in LastEnd : q \in Nat /\ q <= p BY <1>2, <1>3, <1>4
  <2> QED BY <2>1 DEF Max
<1>6. Taken = {log[q].item : q \in p .. Len(log)} \ {None} BY <1>5 DEF Taken
<1>7. p .. Len(log) \subseteq DOMAIN log /\ p \in p .. Len(log) /\ Len(log) \in p .. Len(log)
  BY <1>1, <1>3
<1>8. \A q \in DOMAIN log : log[q].item \in Items \union {None} BY <1>1, EventShape
<1> QED BY <1>2, <1>6, <1>7, <1>8

\* What a run's step leaves alone.
LEMMA RunStepTypes ==
    ASSUME TypeOK, holder' = holder, UNCHANGED <<born, gens, others, crashes, accepted, withdrawn>>,
           mem' \in Files, disk' \in Files, RunTyped', log' \in Seq(Events),
           faults' \in 0..MaxFaults, over' \subseteq Items, denied' \subseteq Items
    PROVE  TypeOK'
BY DEF TypeOK, RunTyped, Files

\* Taking a row from the mailbox and acknowledging it.
LEMMA RunAcks ==
    ASSUME RunTyped, NEW box \in SUBSET Items, NEW at \in Items \union {None},
           NEW pc \in {"running", "acking"}
    PROVE  LET r == [run EXCEPT !.box = box, !.pc = pc, !.at = at] IN
           /\ r \in [gen : 0..gens, item : Items \union {None}, by : Holders \union {None},
                     pc : {"none", "registered", "running", "acking", "completed", "failed",
                           "not_started", "told"},
                     box : SUBSET Items, at : Items \union {None}]
           /\ r.gen = run.gen /\ r.item = run.item /\ r.pc = pc /\ r.box = box /\ r.at = at
BY DEF RunTyped

\* _consume_live_interjections.
LEMMA ConsumeStep ==
    ASSUME InTurn, NEW i \in Items, Consume(i)
    PROVE  InTurn'
<1>1. /\ TypeOK /\ RunTyped /\ RunIsHonest /\ run.pc = "running" /\ i \in run.box
      /\ UNCHANGED <<mem, disk, holder, born, gens, others, crashes, accepted, withdrawn, over, denied>>
  BY DEF InTurn, Consume, TypeOK, RunTyped, counters, history
<1>2. /\ faults' \in 0..MaxFaults /\ (faults' = 0 => faults = 0)
      /\ Fault => ~NothingWrong'
  BY <1>1, Constants DEF Consume, Fault, NoFault, TypeOK, NothingWrong
<1>3. log' = log \/ (log' = Append(log, Event("interjection", i, None)))
  BY DEF Consume, Logs
<1>4. \/ /\ run' = [run EXCEPT !.box = @ \ {i}, !.pc = "acking", !.at = i]
      \/ run' = [run EXCEPT !.pc = "failed"] /\ Fault
  BY DEF Consume
<1>5. /\ RunTyped' /\ run'.gen = run.gen /\ run'.item = run.item /\ run # NoRun
      /\ \/ run'.pc = "acking" /\ run'.at = i /\ run'.box = run.box \ {i}
         \/ run'.pc = "failed" /\ run'.box = run.box /\ ~NothingWrong'
  <2>1. run # NoRun BY <1>1 DEF NoRun
  <2>2. CASE run' = [run EXCEPT !.box = @ \ {i}, !.pc = "acking", !.at = i]
    BY <1>1, <2>1, <2>2, RunAcks DEF RunTyped
  <2>3. CASE run' = [run EXCEPT !.pc = "failed"] /\ Fault
    BY <1>1, <1>2, <2>1, <2>3 DEF RunTyped
  <2> QED BY <1>4, <2>2, <2>3
<1>6. GoesOn
  BY <1>1, <1>5 DEF GoesOn, NoRun
<1>7. InBox(i) BY <1>1 DEF InBox
<1>8. log' = log \/ \E e \in Events : log' = Append(log, e) /\ Delivers(e)
  <2>1. CASE log' = Append(log, Event("interjection", i, None))
    <3>1. PICK e \in Events : e = Event("interjection", i, None) /\ e.kind = "interjection" /\ e.item = i
      <4>1. Event("interjection", i, None) \in Events BY DEF Event, Events
      <4>2. /\ Event("interjection", i, None).kind = "interjection"
            /\ Event("interjection", i, None).item = i
        BY DEF Event
      <4> QED BY <4>1, <4>2
    <3>2. Delivers(e) BY <1>5, <1>7, <3>1 DEF Delivers
    <3> QED BY <2>1, <3>1, <3>2
  <2> QED BY <1>3, <2>1
<1>9. \A j \in Items : Kept(j) BY <1>1 DEF Kept
<1>10. ASSUME NEW j \in Items, InBox(j)' PROVE InBox(j) /\ mem'[j] = mem[j]
  BY <1>1, <1>5, <1>7, <1>10 DEF InBox
<1>11. TypeOK'
  <2>1. log' \in Seq(Events) BY <1>1, <1>8, AppendShape DEF TypeOK
  <2> QED BY <1>1, <1>2, <1>5, <2>1, RunStepTypes DEF TypeOK
<1> QED BY <1>1, <1>2, <1>6, <1>8, <1>9, <1>10, <1>11, RunMoves

\* mark_interject_received.
LEMMA AckStep ==
    ASSUME InTurn, Ack
    PROVE  InTurn'
<1>1. /\ TypeOK /\ RunTyped /\ RunIsHonest /\ run.pc = "acking" /\ mem \in Files
      /\ UNCHANGED <<log, holder, born, gens, others, crashes, accepted, withdrawn, over, denied>>
      /\ run' = [run EXCEPT !.pc = "running", !.at = None]
  BY DEF InTurn, Ack, TypeOK, RunTyped, counters, history
<1>2. PICK i \in Items : i = run.at /\ InBox(i) /\ i \notin run.box
  BY <1>1 DEF RunIsHonest, InBox
<1>3. Is(i, "interject_pending") /\ ~Held(i) /\ ~Carries(i) BY <1>2, WhoHasIt DEF Is
<1>4. mem' = Set(mem, i, "interject_received") /\ Saved
  BY <1>2, <1>3 DEF Ack, Received, Saves, SaveRaises, Saved
<1>5. /\ mem' \in Files /\ disk' \in Files /\ mem'[i].status = "interject_received"
      /\ disk'[i] \in {disk[i], mem'[i]} /\ \A j \in Items \ {i} : Kept(j)
      /\ faults' \in 0..MaxFaults /\ (faults' = 0 => faults = 0)
  BY <1>1, <1>4, SaveSets DEF Statuses
<1>6. /\ RunTyped' /\ run'.gen = run.gen /\ run'.item = run.item /\ run'.pc = "running"
      /\ run'.box = run.box /\ run'.at = None /\ run # NoRun
  <2>1. run # NoRun BY <1>1 DEF NoRun
  <2> QED BY <1>1, <2>1, RunAcks DEF RunTyped
<1>7. GoesOn BY <1>1, <1>6 DEF GoesOn, NoRun
<1>8. Settles(i) BY <1>2, <1>3, <1>5, <1>6, <1>1 DEF Settles, Carries
<1>9. ASSUME NEW j \in Items, InBox(j)' PROVE InBox(j) /\ mem'[j] = mem[j]
  <2>1. j \in run.box /\ j # i BY <1>2, <1>6, <1>9 DEF InBox
  <2> QED BY <1>5, <2>1 DEF InBox, Kept
<1>10. TypeOK' BY <1>1, <1>5, <1>6, RunStepTypes DEF TypeOK
<1>11. mem'[run.at].status = "interject_received" BY <1>2, <1>5
<1> QED BY <1>1, <1>5, <1>7, <1>8, <1>9, <1>10, <1>11, RunMoves

\* mark_interject_denied.
LEMMA DenyStep ==
    ASSUME InTurn, NEW i \in Items, Deny(i)
    PROVE  InTurn'
<1>1. /\ TypeOK /\ RunTyped /\ RunIsHonest /\ run.pc = "running" /\ mem \in Files /\ i \in run.box
      /\ UNCHANGED <<log, holder, born, gens, others, crashes, accepted, withdrawn, over, denied>>
      /\ run' = [run EXCEPT !.box = @ \ {i}] /\ InBox(i)
  BY DEF InTurn, Deny, TypeOK, RunTyped, counters, history, InBox
<1>2. Is(i, "interject_pending") /\ ~Held(i) /\ ~Carries(i) BY <1>1, WhoHasIt DEF Is
<1>3. mem' = Set(mem, i, "interject_denied") /\ Saved
  BY <1>2 DEF Deny, Saved
<1>4. /\ mem' \in Files /\ disk' \in Files /\ mem'[i].status = "interject_denied"
      /\ disk'[i] \in {disk[i], mem'[i]} /\ \A j \in Items \ {i} : Kept(j)
      /\ faults' \in 0..MaxFaults /\ (faults' = 0 => faults = 0)
  BY <1>1, <1>3, SaveSets DEF Statuses
<1>5. ~NothingWrong' BY <1>1 DEF Deny, Fault, NothingWrong, TypeOK
<1>6. /\ RunTyped' /\ run'.gen = run.gen /\ run'.item = run.item /\ run'.pc = "running"
      /\ run'.box = run.box \ {i} /\ run'.at = run.at /\ run # NoRun
  BY <1>1 DEF RunTyped, NoRun
<1>7. GoesOn BY <1>1, <1>6 DEF GoesOn, NoRun
<1>8. Settles(i) BY <1>1, <1>2, <1>4, <1>5, <1>6 DEF Settles, Carries
<1>9. ASSUME NEW j \in Items, InBox(j)' PROVE InBox(j) /\ mem'[j] = mem[j]
  <2>1. j \in run.box /\ j # i BY <1>1, <1>6, <1>9 DEF InBox
  <2> QED BY <1>4, <2>1 DEF InBox, Kept
<1>10. TypeOK' BY <1>1, <1>4, <1>6, RunStepTypes DEF TypeOK
<1> QED BY <1>1, <1>4, <1>7, <1>8, <1>9, <1>10, RunMoves

\* _settle_run_end.
LEMMA RunEndsStep ==
    ASSUME InTurn, RunEnds
    PROVE  InTurn'
<1>1. /\ TypeOK /\ RunTyped /\ RunIsHonest /\ run.pc = "running" /\ mem \in Files
      /\ UNCHANGED <<mem, disk, holder, born, gens, others, crashes, accepted, withdrawn, denied>>
      /\ run' = [run EXCEPT !.pc = "completed"] /\ over' = over \union Taken
  BY DEF InTurn, RunEnds, TypeOK, RunTyped, counters
<1>2. faults' \in 0..MaxFaults /\ (faults' = 0 => faults = 0)
  BY <1>1, Constants DEF RunEnds, Fault, NoFault, TypeOK
<1>3. /\ RunTyped' /\ run'.gen = run.gen /\ run'.item = run.item /\ run'.pc = "completed"
      /\ run'.box = run.box /\ run' # NoRun /\ run # NoRun
  BY <1>1 DEF RunTyped, NoRun
<1>4. Taken \subseteq Items /\ run.item \in Taken \union {None} BY <1>1, TakenShape
<1>5. GoesOn BY <1>1, <1>3, <1>4 DEF GoesOn
<1>6. log' = log \/ \E e \in Events : log' = Append(log, e) /\ Delivers(e)
  <2>1. ASSUME NEW reason \in {"completed", "failed"}, log' = Append(log, Event("end", None, reason))
        PROVE  \E e \in Events : log' = Append(log, e) /\ Delivers(e)
    <3>1. Event("end", None, reason) \in Events /\ Event("end", None, reason).kind = "end"
      BY DEF Event, Events
    <3>2. PICK e \in Events : e = Event("end", None, reason) /\ e.kind = "end" BY <3>1
    <3> QED BY <2>1, <3>2 DEF Delivers
  <2> QED BY <2>1 DEF RunEnds, Logs
<1>7. \A j \in Items : Kept(j) BY <1>1 DEF Kept
<1>8. \A j \in Items : InBox(j)' => InBox(j) /\ mem'[j] = mem[j] BY <1>1, <1>3 DEF InBox
<1>9. TypeOK'
  <2>1. log' \in Seq(Events) BY <1>1, <1>6, AppendShape DEF TypeOK
  <2> QED BY <1>1, <1>2, <1>3, <1>4, <2>1, RunStepTypes DEF TypeOK
<1>10. over \subseteq over' BY <1>1
<1> QED BY <1>1, <1>2, <1>5, <1>6, <1>7, <1>8, <1>9, <1>10, RunMoves

\* A run that raises, and one whose message is not saved.
LEMMA FailsStep ==
    ASSUME InTurn, UNCHANGED <<mem, disk, log, holder, counters, history>>, Fault,
           \/ run.pc \in {"registered", "running"} /\ run' = [run EXCEPT !.pc = "failed"]
           \/ run.pc = "registered" /\ run' = [run EXCEPT !.pc = "not_started"]
    PROVE  InTurn'
<1>1. /\ TypeOK /\ RunTyped /\ RunIsHonest
      /\ UNCHANGED <<mem, disk, holder, born, gens, others, crashes, accepted, withdrawn, over, denied, log>>
  BY DEF InTurn, TypeOK, RunTyped, counters, history
<1>2. faults' \in 0..MaxFaults /\ (faults' = 0 => faults = 0)
  BY <1>1, Constants DEF Fault, TypeOK
<1>3. /\ RunTyped' /\ run'.gen = run.gen /\ run'.item = run.item
      /\ \/ run'.pc = "failed" /\ run.pc \in {"registered", "running"}
         \/ run'.pc = "not_started" /\ run.pc = "registered"
      /\ run'.box = run.box /\ run' # NoRun /\ run # NoRun
  BY <1>1 DEF RunTyped, NoRun
<1>4. GoesOn BY <1>3 DEF GoesOn
<1>5. \A j \in Items : Kept(j) BY <1>1 DEF Kept
<1>6. \A j \in Items : InBox(j)' => InBox(j) /\ mem'[j] = mem[j] BY <1>1, <1>3 DEF InBox
<1>7. TypeOK' BY <1>1, <1>2, <1>3, RunStepTypes DEF TypeOK
<1> QED BY <1>1, <1>2, <1>3, <1>4, <1>5, <1>6, <1>7, RunMoves

\* A run whose message the guard refuses.
LEMMA DeniedStep ==
    ASSUME InTurn, RunDenied
    PROVE  InTurn'
<1>1. /\ TypeOK /\ RunTyped /\ RunIsHonest /\ run.pc = "registered" /\ mem \in Files
      /\ UNCHANGED <<mem, disk, holder, born, gens, others, crashes, accepted, withdrawn, over, log>>
      /\ run' = [run EXCEPT !.pc = "completed"] /\ denied' = denied \union {run.item}
  BY DEF InTurn, RunDenied, TypeOK, RunTyped, counters
<1>2. faults' \in 0..MaxFaults /\ (faults' = 0 => faults = 0)
  BY <1>1, Constants DEF RunDenied, Fault, TypeOK
<1>3. /\ RunTyped' /\ run'.gen = run.gen /\ run'.item = run.item /\ run'.pc = "completed"
      /\ run'.box = run.box /\ run' # NoRun /\ run # NoRun
  BY <1>1 DEF RunTyped, NoRun
<1>4. run.item \in Items BY <1>1 DEF RunIsHonest
<1>5. GoesOn BY <1>1, <1>3 DEF GoesOn
<1>6. \A j \in Items : Kept(j) BY <1>1 DEF Kept
<1>7. \A j \in Items : InBox(j)' => InBox(j) /\ mem'[j] = mem[j] BY <1>1, <1>3 DEF InBox
<1>8. over \subseteq over' /\ denied \subseteq denied' BY <1>1
<1>9. over' \subseteq Items /\ denied' \subseteq Items BY <1>1, <1>4 DEF TypeOK
<1>10. TypeOK' BY <1>1, <1>2, <1>3, <1>9, RunStepTypes DEF TypeOK
<1> QED BY <1>1, <1>2, <1>5, <1>6, <1>7, <1>8, <1>10, RunMoves

LEMMA UnregisterStep ==
    ASSUME InTurn, Unregister
    PROVE  InTurn'
<1>1. /\ TypeOK /\ RunIsHonest /\ run.pc = "told" /\ run' = NoRun
      /\ UNCHANGED <<mem, disk, faults, holder, born, gens, others, crashes, accepted, withdrawn, over, denied, log>>
  BY DEF InTurn, Unregister, counters, history, items
<1>2. GoesOn BY <1>1 DEF GoesOn
<1>3. \A j \in Items : Kept(j) BY <1>1 DEF Kept
<1>4. \A j \in Items : ~InBox(j)' BY <1>1 DEF InBox, NoRun
<1>5. TypeOK'
  <2>1. RunTyped' BY <1>1 DEF NoRun, RunTyped, TypeOK
  <2> QED BY <1>1, <2>1, RunStepTypes DEF TypeOK
<1> QED BY <1>1, <1>2, <1>3, <1>4, <1>5, RunMoves

\* _notify_terminal.
LEMMA NotifyTerminalStep ==
    ASSUME InTurn, NotifyTerminal
    PROVE  InTurn'
<1>1. /\ TypeOK /\ RunTyped /\ RunIsHonest /\ mem \in Files
      /\ run.pc \in {"completed", "failed", "not_started"} /\ run' = [run EXCEPT !.pc = "told"]
      /\ UNCHANGED <<holder, born, gens, others, crashes, accepted, withdrawn, over, denied, log>>
      /\ mem' = Told /\ Saved
  BY DEF InTurn, NotifyTerminal, TypeOK, RunTyped, counters, history, Saves, SaveRaises, Saved
<1>2. /\ RunTyped' /\ run'.gen = run.gen /\ run'.item = run.item /\ run'.pc = "told"
      /\ run'.box = run.box /\ run' # NoRun /\ run # NoRun
  BY <1>1 DEF RunTyped, NoRun
<1>3. GoesOn BY <1>1, <1>2 DEF GoesOn
<1>4. \A j \in Items : ~Carries(j)' BY <1>2 DEF Carries
<1>5. CASE mem' = mem
  <2>1. /\ disk' \in Files /\ \A j \in Items : disk'[j] \in {disk[j], mem'[j]}
        /\ faults' \in 0..MaxFaults /\ (faults' = 0 => faults = 0)
    BY <1>1, <1>5, SaveShape
  <2>2. \A j \in Items : Kept(j) BY <1>5, <2>1 DEF Kept
  <2>3. \A j \in Items : InBox(j)' => InBox(j) /\ mem'[j] = mem[j] BY <1>2, <1>5 DEF InBox
  <2>4. TypeOK' BY <1>1, <1>2, <1>5, <2>1, RunStepTypes DEF TypeOK
  <2> QED BY <1>1, <1>3, <2>1, <2>2, <2>3, <2>4, RunMoves
<1>6. CASE mem' # mem
  <2>1. PICK i \in Items : i = run.item BY <1>1, <1>6 DEF Told, RunTyped
  <2>2. Carries(i) /\ Is(i, "claimed") /\ ~Held(i) BY <1>1, <2>1, WhoHasIt DEF Carries
  <2>3. PICK status \in {"completed", "failed", "queued"} :
          /\ mem' = Set(mem, i, status)
          /\ status = "queued" => run.pc = "not_started"
    BY <1>1, <1>6, <2>1, <2>2 DEF Told, Released
  <2>4. /\ mem' \in Files /\ disk' \in Files /\ mem'[i].status = status
        /\ disk'[i] \in {disk[i], mem'[i]} /\ \A j \in Items \ {i} : Kept(j)
        /\ faults' \in 0..MaxFaults /\ (faults' = 0 => faults = 0)
    BY <1>1, <2>3, SaveSets DEF Statuses
  <2>5. status = "queued" => Turns(i) = {} /\ (NothingWrong' => Ingresses(i) = {})
    BY <1>1, <2>1, <2>2, <2>3, <2>4 DEF InTurn, RunIsHonest, DeliveriesAreKnown, NothingWrong
  <2>6. Settles(i) BY <1>4, <2>2, <2>3, <2>4, <2>5 DEF Settles, Finished
  <2>7. \A j \in Items : InBox(j)' => InBox(j) /\ mem'[j] = mem[j]
    <3> SUFFICES ASSUME NEW j \in Items, InBox(j)' PROVE InBox(j) /\ mem'[j] = mem[j]
      OBVIOUS
    <3>1. InBox(j) BY <1>2 DEF InBox
    <3>2. j # i BY <2>2, <3>1, WhoHasIt DEF Is
    <3> QED BY <2>4, <3>1, <3>2 DEF Kept
  <2>8. TypeOK' BY <1>1, <1>2, <2>4, RunStepTypes DEF TypeOK
  <2> QED BY <1>1, <1>3, <2>4, <2>6, <2>7, <2>8, RunMoves
<1> QED BY <1>5, <1>6

\* The turn's message becomes an event.
LEMMA IngressStep ==
    ASSUME InTurn, RunIngress
    PROVE  InTurn'
<1>1. /\ TypeOK /\ RunTyped /\ RunIsHonest /\ run.pc = "registered"
      /\ UNCHANGED <<mem, disk, holder, born, gens, others, crashes, accepted, withdrawn, over, denied>>
  BY DEF InTurn, RunIngress, TypeOK, RunTyped, counters, history
<1>2. CASE Fault /\ run' = [run EXCEPT !.pc = "not_started"] /\ log' = log
  <2>1. UNCHANGED <<mem, disk, log, holder, counters, history>> BY <1>2 DEF RunIngress
  <2> QED BY <1>1, <1>2, <2>1, FailsStep
<1>3. CASE /\ NoFault /\ log' = Append(log, Event("turn", run.item, None))
           /\ run' = [run EXCEPT !.pc = "running"]
  <2>1. PICK i \in Items : i = run.item BY <1>1 DEF RunIsHonest
  <2>2. Carries(i) /\ Both(i, "claimed") /\ ~Held(i) /\ Turns(i) = {} /\ ~InBox(i)
    BY <1>1, <2>1, WhoHasIt DEF Carries, RunIsHonest, Is
  <2>3. PICK e \in Events : /\ e.kind = "turn" /\ e.item = i /\ log' = Append(log, e)
    <3>1. Event("turn", i, None) \in Events BY DEF Event, Events
    <3>2. Event("turn", i, None).kind = "turn" /\ Event("turn", i, None).item = i BY DEF Event
    <3> QED BY <1>3, <2>1, <3>1, <3>2
  <2>4. /\ RunTyped' /\ run'.gen = run.gen /\ run'.item = i /\ run'.pc = "running"
        /\ run'.box = run.box /\ run'.at = run.at /\ run # NoRun /\ run' # NoRun
    BY <1>1, <1>3, <2>1 DEF RunTyped, NoRun
  <2>5. /\ log' \in Seq(Events) /\ DOMAIN log' = DOMAIN log \union {Len(log) + 1}
        /\ log'[Len(log) + 1] = e /\ \A p \in DOMAIN log : log'[p] = log[p]
        /\ Len(log) \in Nat /\ DOMAIN log = 1..Len(log)
    BY <1>1, <2>3, AppendShape, LogShape
  <2>6. TypeOK'
    <3>1. faults' \in 0..MaxFaults BY <1>1, <1>3 DEF NoFault, TypeOK
    <3> QED BY <1>1, <2>4, <2>5, <3>1, RunStepTypes DEF TypeOK
  <2>7. ASSUME NEW j \in Items
        PROVE  /\ j # i => Turns(j)' = Turns(j) /\ Ingresses(j)' = Ingresses(j)
               /\ j = i => Turns(j)' = {Len(log) + 1}
               /\ Held(j)' = Held(j) /\ Carries(j)' = Carries(j) /\ (InBox(j)' => InBox(j))
    BY <1>1, <2>1, <2>2, <2>3, <2>4, AppendTurns DEF Held, Carries, InBox
  <2>8. RunsOnce'
    <3> SUFFICES ASSUME NEW j \in Items PROVE Cardinality(Turns(j)') <= 1
      BY DEF RunsOnce
    <3>1. Cardinality({Len(log) + 1}) = 1 BY FS_Singleton
    <3>2. CASE j = i
      <4>1. Turns(j)' = {Len(log) + 1} BY <2>7, <3>2
      <4>2. 1 <= 1 OBVIOUS
      <4> QED BY <3>1, <4>1, <4>2
    <3>3. CASE j # i BY <2>7, <3>3 DEF InTurn, RunsOnce
    <3> QED BY <3>2, <3>3
  <2>9. HoldersAreHonest'
    <3>1. ASSUME NEW k \in Holders PROVE Honest(k)'
      <4>1. Honest(k) BY HonestHolders DEF InTurn
      <4>2. holder[k].item # i BY <2>2 DEF Held
      <4>3. holder[k].item \in Items \/ holder[k].item = None BY <1>1, ItemsTyped
      <4>4. CASE holder[k].item = None BY <1>1, <4>1, <4>4 DEF Honest
      <4>5. CASE holder[k].item \in Items
        <5>1. PICK j \in Items : j = holder[k].item /\ j # i BY <4>2, <4>5
        <5>2. Turns(j)' = Turns(j) BY <2>7, <5>1
        <5> QED BY <1>1, <2>4, <4>1, <5>1, <5>2 DEF Honest, Both, Is
      <4> QED BY <4>3, <4>4, <4>5
    <3>2. Distinct' BY <1>1, HonestHolders DEF InTurn, Distinct
    <3> QED BY <3>1, <3>2 DEF HoldersAreHonest, Honest, Distinct
  <2>10. RunIsHonest'
    <3>1. StillOn'
      <4>1. /\ Len(log) + 1 \in Starts' /\ log'[Len(log) + 1].item = run'.item
            /\ \A q \in Starts' : q <= Len(log) + 1
        BY <2>3, <2>4, <2>5 DEF Starts
      <4> QED BY <4>1 DEF StillOn
    <3>2. ASSUME NEW j \in Items, InBox(j)'
          PROVE  mem'[j] = [status |-> "interject_pending", gen |-> run'.gen] /\ ~Held(j)'
      BY <1>1, <2>4, <2>7, <3>2 DEF RunIsHonest
    <3>3. ASSUME NEW j \in Items, Carries(j)'
          PROVE  /\ Both(j, "claimed")' /\ ~Held(j)' /\ run'.pc \notin {"registered", "not_started"}
      BY <1>1, <2>4, <2>7, <3>3 DEF RunIsHonest, Both, Is
    <3>4. run'.gen # 0 BY <1>1, <2>4 DEF RunIsHonest
    <3> QED BY <2>4, <3>1, <3>2, <3>3, <3>4 DEF RunIsHonest, StillOn
  <2>11. FilesAreHonest'
    <3> SUFFICES ASSUME NEW j \in Items
                 PROVE  /\ j > born => Both(j, "absent")
                        /\ Turns(j)' # {} =>
                             {mem[j].status, disk[j].status} \subseteq {"claimed", "completed", "failed"}
                        /\ j \in withdrawn => Both(j, "cancelled")
                        /\ Is(j, "interject_pending") => mem[j].gen # 0
      BY <1>1 DEF FilesAreHonest, Both, Is
    <3> QED BY <2>2, <2>7 DEF InTurn, FilesAreHonest, Both, Is
  <2>12. DeliveriesAreKnown'
    <3> SUFFICES ASSUME NEW j \in Items, NothingWrong', Ingresses(j)' # {}
                 PROVE  /\ mem'[j].status \in {"claimed", "completed", "failed", "interject_received"}
                        /\ ~Held(j)' /\ j \notin run'.box
                        /\ ~(run'.pc \in {"registered", "not_started"} /\ run'.item = j)
      BY DEF DeliveriesAreKnown, NothingWrong
    <3>1. NothingWrong BY <1>1, <1>3 DEF NothingWrong, NoFault
    <3>2. CASE j = i BY <1>1, <2>2, <2>4, <2>7, <3>2 DEF Both, Is, InBox
    <3>3. CASE j # i
      <4>1. Ingresses(j) # {} BY <2>7, <3>3
      <4>2. ~InBox(j) BY <1>1, <3>1, <4>1 DEF InTurn, DeliveriesAreKnown, NothingWrong, InBox
      <4> QED BY <1>1, <2>4, <2>7, <3>1, <4>1, <4>2, WhoHasIt
    <3> QED BY <3>2, <3>3
  <2> QED BY <2>6, <2>8, <2>9, <2>10, <2>11, <2>12 DEF InTurn
<1> QED BY <1>2, <1>3 DEF RunIngress, Logs

\* A run that no queued turn starts.
LEMMA StartOtherStep ==
    ASSUME InTurn, NEW kind \in Others, StartOther(kind)
    PROVE  InTurn'
<1>1. /\ TypeOK /\ HoldersTyped /\ gens \in Nat /\ run = NoRun /\ RunIsHonest /\ gens' = gens + 1
      /\ UNCHANGED <<mem, disk, faults, holder, born, crashes, accepted, withdrawn, over, denied>>
      /\ FilesStand
  BY ItemsTyped DEF InTurn, StartOther, items, history, FilesStand
<1>2. PICK e \in Events : e.kind = kind /\ e.item = None /\ log' = Append(log, e)
  <2>1. Event(kind, None, None) \in Events BY DEF Event, Events
  <2>2. Event(kind, None, None).kind = kind /\ Event(kind, None, None).item = None BY DEF Event
  <2> QED BY <2>1, <2>2 DEF StartOther, Logs
<1>3. kind \in {"human", "program"} BY Constants
<1>4. run' = [gen |-> gens + 1, item |-> None, by |-> None, pc |-> "running", box |-> {}, at |-> None]
  BY DEF StartOther, NoRun
<1>5. /\ run'.gen = gens + 1 /\ run'.item = None /\ run'.pc = "running" /\ run'.box = {}
      /\ run'.at = None /\ run' # NoRun /\ RunTyped'
  BY <1>1, <1>4 DEF NoRun, RunTyped
<1>6. /\ log' \in Seq(Events) /\ DOMAIN log' = DOMAIN log \union {Len(log) + 1}
      /\ log'[Len(log) + 1] = e /\ \A p \in DOMAIN log : log'[p] = log[p]
      /\ Len(log) \in Nat /\ DOMAIN log = 1..Len(log)
  BY <1>1, <1>2, AppendShape, LogShape
<1>7. TypeOK'
  <2>1. HoldersTyped' BY <1>1 DEF HoldersTyped
  <2>2. others' \in 0..MaxOthers BY <1>1, Constants DEF StartOther, TypeOK
  <2> QED BY <1>1, <1>5, <1>6, <2>1, <2>2, RunTypes DEF TypeOK
<1>8. ASSUME NEW j \in Items
      PROVE  /\ Turns(j)' = Turns(j) /\ Ingresses(j)' = Ingresses(j) /\ Held(j)' = Held(j)
             /\ ~InBox(j)' /\ ~Carries(j)' /\ ~InBox(j)
  BY <1>1, <1>2, <1>5, AppendTurns, Constants, WhoHasIt DEF Held, InBox, Carries
<1>9. RunsOnce' BY <1>8 DEF InTurn, RunsOnce
<1>10. HoldersAreHonest'
  <2>1. ASSUME NEW k \in Holders PROVE Honest(k)'
    <3>1. Honest(k) BY HonestHolders DEF InTurn
    <3>2. CASE holder[k].item = None BY <1>1, <3>1, <3>2 DEF Honest
    <3>3. CASE holder[k].item # None
      <4>1. PICK j \in Items : j = holder[k].item BY <1>1, <3>3, ItemsTyped
      <4>2. Turns(j)' = Turns(j) /\ mem[j].gen # gens + 1 BY <1>1, <1>8, ItemsTyped
      <4> QED BY <1>1, <1>5, <3>1, <4>1, <4>2 DEF Honest, Both, Is
    <3> QED BY <3>2, <3>3
  <2>2. Distinct' BY <1>1, HonestHolders DEF InTurn, Distinct
  <2> QED BY <2>1, <2>2 DEF HoldersAreHonest, Honest, Distinct
<1>11. RunIsHonest'
  <2>1. StillOn'
    <3>1. /\ Len(log) + 1 \in Starts' /\ log'[Len(log) + 1].item = run'.item
          /\ \A q \in Starts' : q <= Len(log) + 1
      BY <1>2, <1>3, <1>5, <1>6 DEF Starts
    <3> QED BY <3>1 DEF StillOn
  <2> QED BY <1>1, <1>5, <1>8, <2>1 DEF RunIsHonest, StillOn
<1>12. FilesAreHonest'
  BY <1>1, <1>8 DEF InTurn, FilesAreHonest, Both, Is
<1>13. DeliveriesAreKnown'
  <2> SUFFICES ASSUME NEW j \in Items, NothingWrong', Ingresses(j)' # {}
               PROVE  /\ mem'[j].status \in {"claimed", "completed", "failed", "interject_received"}
                      /\ ~Held(j)' /\ j \notin run'.box
                      /\ ~(run'.pc \in {"registered", "not_started"} /\ run'.item = j)
    BY DEF DeliveriesAreKnown, NothingWrong
  <2>1. NothingWrong /\ Ingresses(j) # {} BY <1>1, <1>8 DEF NothingWrong
  <2> QED BY <1>1, <1>5, <1>8, <2>1, WhoHasIt
<1> QED BY <1>7, <1>9, <1>10, <1>11, <1>12, <1>13 DEF InTurn

\* A restart.
LEMMA CrashStep ==
    ASSUME InTurn, Crash
    PROVE  InTurn'
<1>1. /\ TypeOK /\ HoldersTyped /\ disk \in Files /\ run' = NoRun
      /\ mem' = Load(disk) /\ disk' = Load(disk) /\ crashes' = crashes + 1 /\ crashes \in Nat
      /\ UNCHANGED <<log, born, gens, others, faults, accepted, withdrawn, over, denied>>
  BY ItemsTyped, Constants DEF InTurn, Crash, history, TypeOK
<1>2. ASSUME NEW i \in Items
      PROVE  /\ Load(disk)[i] \in [status : Statuses, gen : 0..gens]
             /\ disk[i].status # "interject_pending" => Load(disk)[i] = disk[i]
             /\ disk[i].status = "interject_pending" => Load(disk)[i].status = "queued"
  <2>1. disk[i] \in [status : Statuses, gen : 0..gens] BY <1>1, ItemsTyped
  <2>2. CASE disk[i].status # "interject_pending" BY <2>1, <2>2 DEF Load
  <2>3. CASE disk[i].status = "interject_pending"
    BY <2>1, <2>3 DEF Load, Statuses
  <2> QED BY <2>2, <2>3
<1>3. Load(disk) \in Files BY <1>2 DEF Load, Files
<1>4. ASSUME NEW h \in Holders
      PROVE  holder'[h] = Idle \/ (holder'[h] = holder[h] /\ holder[h].pc = "claimed")
  BY DEF Crash
<1>5. HoldersTyped'
  <2>1. holder' = [h \in Holders |-> holder'[h]] BY DEF Crash
  <2>2. Idle \in [pc : {"idle", "claimed", "checked", "handing", "refused", "orphan"},
                  item : Items \union {None}, gen : 0..gens]
    BY <1>1 DEF Idle, TypeOK
  <2> QED BY <1>1, <1>4, <2>1, <2>2 DEF HoldersTyped
<1>6. TypeOK'
  <2>1. RunTyped' BY <1>1 DEF NoRun, RunTyped, TypeOK
  <2>2. crashes' \in 0..MaxCrashes BY <1>1, Constants DEF Crash, TypeOK
  <2> QED BY <1>1, <1>3, <1>5, <2>1, <2>2 DEF TypeOK, HoldersTyped, RunTyped, Files
<1>7. ASSUME NEW i \in Items
      PROVE  /\ Turns(i)' = Turns(i) /\ ~InBox(i)' /\ ~Carries(i)'
             /\ mem'[i].status # "interject_pending"
             /\ disk[i].status # "interject_pending" => mem'[i] = disk[i] /\ disk'[i] = disk[i]
  BY <1>1, <1>2, Constants DEF Turns, InBox, Carries, NoRun
<1>8. RunsOnce' BY <1>7 DEF InTurn, RunsOnce
<1>9. HoldersAreHonest'
  <2>1. ASSUME NEW k \in Holders PROVE Honest(k)'
    <3>1. CASE holder'[k] = Idle BY <3>1 DEF Honest, Idle
    <3>2. CASE holder'[k] = holder[k] /\ holder[k].pc = "claimed"
      <4>1. Honest(k) BY HonestHolders DEF InTurn
      <4>2. PICK i \in Items : i = holder[k].item BY <1>1, <3>2, <4>1, ItemsTyped DEF Honest
      <4>3. Both(i, "claimed")' /\ Turns(i)' = {}
        BY <1>7, <3>2, <4>1, <4>2 DEF Honest, Both, Is
      <4> QED BY <3>2, <4>2, <4>3, Constants DEF Honest
    <3> QED BY <1>4, <3>1, <3>2
  <2>2. Distinct'
    <3>1. Distinct BY HonestHolders DEF InTurn
    <3>2. \A h \in Holders : holder'[h].item = None \/ holder'[h].item = holder[h].item
      BY <1>4 DEF Idle
    <3> QED BY <3>1, <3>2 DEF Distinct
  <2> QED BY <2>1, <2>2 DEF HoldersAreHonest, Honest, Distinct
<1>10. RunIsHonest' BY <1>1, <1>7 DEF RunIsHonest, NoRun
<1>11. FilesAreHonest'
  <2> SUFFICES ASSUME NEW i \in Items
               PROVE  /\ i > born => Both(i, "absent")'
                      /\ Turns(i) # {} =>
                           {mem'[i].status, disk'[i].status} \subseteq {"claimed", "completed", "failed"}
                      /\ i \in withdrawn => Both(i, "cancelled")'
                      /\ Is(i, "interject_pending")' => mem'[i].gen # 0
    BY <1>1, <1>7 DEF FilesAreHonest
  <2> QED BY <1>7 DEF InTurn, FilesAreHonest, Both, Is
<1>12. DeliveriesAreKnown' BY <1>1 DEF DeliveriesAreKnown
<1> QED BY <1>6, <1>8, <1>9, <1>10, <1>11, <1>12 DEF InTurn

LEMMA InTurnStep ==
    ASSUME InTime, InTurn, [Next]_vars
    PROVE  InTurn'
<1>1. Tabs \subseteq Holders /\ Fallback \in Holders BY DEF Holders
<1>2. ASSUME NEW t \in Tabs, DispatchClaim(t) PROVE InTurn'
  BY <1>1, <1>2, DispatchClaimStep
<1>3. ASSUME NEW t \in Tabs, TabActs(t) PROVE InTurn'
  <2>1. CASE CheckClaim(t) BY <2>1, CheckClaimStep
  <2>2. CASE BarrierRelease(t) BY <2>2, BarrierReleaseStep
  <2>3. CASE TabStarts(t) BY <2>3, TabStartsStep
  <2>4. CASE TabDies(t) BY <2>4, TabDiesStep
  <2>5. CASE InterjectHand(t) BY <2>5, InterjectHandStep
  <2>6. CASE InterjectRefused(t)
    <3>1. t \in Holders /\ holder[t].pc # "idle" /\ TakeBack(t) BY <1>1, <2>6 DEF InterjectRefused
    <3> QED BY <3>1, TakeBackStep
  <2> QED BY <1>3, <2>1, <2>2, <2>3, <2>4, <2>5, <2>6 DEF TabActs
<1>4. CASE FallbackActs
  <2>1. CASE FallbackClaims BY <1>1, <2>1, DispatchClaimStep DEF FallbackClaims
  <2>2. CASE FallbackStarts BY <2>2, FallbackStartsStep
  <2>3. CASE OrphanRequeued
    <3>1. holder[Fallback].pc # "idle" /\ TakeBack(Fallback) BY <2>3 DEF OrphanRequeued
    <3> QED BY <1>1, <3>1, TakeBackStep
  <2>4. ASSUME NEW i \in Items, OrphanSeen(i) PROVE InTurn' BY <2>4, OrphanSeenStep
  <2> QED BY <1>4, <2>1, <2>2, <2>3, <2>4 DEF FallbackActs
<1>5. CASE RunActs
  <2>1. CASE RunRaises
    <3>1. /\ UNCHANGED <<mem, disk, log, holder, counters, history>> /\ Fault
          /\ run.pc \in {"registered", "running"} /\ run' = [run EXCEPT !.pc = "failed"]
      BY <2>1 DEF RunRaises
    <3> QED BY <3>1, FailsStep
  <2>2. ASSUME NEW i \in Items, Consume(i) \/ Deny(i) PROVE InTurn'
    BY <2>2, ConsumeStep, DenyStep
  <2> QED BY <1>5, <2>1, <2>2, IngressStep, DeniedStep, AckStep, RunEndsStep, NotifyTerminalStep,
            UnregisterStep DEF RunActs
<1>6. ASSUME NEW t \in Tabs, NEW i \in Items, InterjectClaim(t, i) PROVE InTurn'
  BY <1>6, InterjectClaimStep
<1>7. ASSUME NEW kind \in Others, StartOther(kind) PROVE InTurn'
  BY <1>7, StartOtherStep
<1>8. ASSUME NEW i \in Items, Cancel(i) PROVE InTurn' BY <1>8, CancelStep
<1>9. CASE UNCHANGED vars
  BY <1>9 DEF InTurn, vars, items, counters, history, TypeOK, Files, RunsOnce, Turns,
             HoldersAreHonest, Both, Is, RunIsHonest, NoRun, Starts, InBox, Carries, Held,
             FilesAreHonest, DeliveriesAreKnown, Ingresses
<1>10. CASE Enqueue BY <1>10, EnqueueStep
<1>11. CASE Crash BY <1>11, CrashStep
<1>12. CASE ListActive BY <1>12, ListActiveStep
<1> QED BY <1>2, <1>3, <1>4, <1>5, <1>6, <1>7, <1>8, <1>9, <1>10, <1>11, <1>12 DEF Next

-----------------------------------------------------------------------------
\* What is over

Ended == CompletedByItsRun /\ OverIsOver

LEMMA CompletedFromFiles == OverIsOver => CompletedByItsRun
BY DEF OverIsOver, CompletedByItsRun, Is

\* A status of the files says completed only for what is over by then.
Earned ==
    \A i \in Items : "completed" \in {mem'[i].status, disk'[i].status} =>
        "completed" \in {mem[i].status, disk[i].status} \/ i \in over' \union denied'

\* A step that leaves the log alone.
LEMMA OverStays ==
    ASSUME OverIsOver, log' = log, over \subseteq over', denied \subseteq denied', Earned
    PROVE  OverIsOver'
BY DEF OverIsOver, Earned

\* A step that appends a message.
LEMMA OverLogs ==
    ASSUME TypeOK, OverIsOver, over \subseteq over', denied \subseteq denied', Earned,
           NEW e \in Events, log' = Append(log, e),
           e.kind = "end" /\ Len(log) \in DOMAIN log => log[Len(log)].item \in over' \union {None}
    PROVE  OverIsOver'
<1>1. /\ DOMAIN log' = DOMAIN log \union {Len(log) + 1}
      /\ log'[Len(log) + 1] = e /\ \A p \in DOMAIN log : log'[p] = log[p]
      /\ Len(log) \in Nat /\ DOMAIN log = 1..Len(log)
  BY AppendShape, LogShape
<1>2. ASSUME NEW p \in DOMAIN log', NEW q \in DOMAIN log', log'[q].kind = "end", q = p + 1
      PROVE  log'[p].item \in over' \union {None}
  <2>1. p \in DOMAIN log BY <1>1, <1>2
  <2>2. CASE q \in DOMAIN log BY <1>1, <1>2, <2>1, <2>2 DEF OverIsOver
  <2>3. CASE q = Len(log) + 1
    <3>1. p = Len(log) /\ log'[q] = e BY <1>1, <1>2, <2>1, <2>3
    <3> QED BY <1>1, <1>2, <2>1, <3>1
  <2> QED BY <1>1, <2>2, <2>3
<1> QED BY <1>2 DEF OverIsOver, Earned

\* What a save leaves in the file was there or is in memory.
LEMMA SaveEarns ==
    ASSUME TypeOK, Saved, mem' \in Files,
           \A i \in Items : mem'[i].status = "completed" => Is(i, "completed") \/ i \in over' \union denied'
    PROVE  Earned
BY SaveShape DEF Earned, Is

\* A turn that is set to anything but completed.
LEMMA SetEarns ==
    ASSUME TypeOK, Saved, NEW i \in Items, NEW status \in Statuses, mem' = Set(mem, i, status),
           status = "completed" => i \in over' \union denied'
    PROVE  Earned
<1>1. /\ mem' \in Files /\ mem'[i].status = status /\ \A j \in Items \ {i} : mem'[j] = mem[j]
  BY SetShape, ItemsTyped
<1> QED BY <1>1, SaveEarns DEF Is

LEMMA ReapEarns ==
    ASSUME InTime, NoPrograms, TypeOK, OverIsOver, UNCHANGED <<over, denied>>, Saved, NEW S \in StaleSets,
           mem' \in Files,
           \A i \in Items : mem'[i].status = "completed" => mem'[i] = Reaped(S)[i]
    PROVE  Earned
<1>1. ASSUME NEW i \in Items, mem'[i].status = "completed"
      PROVE  Is(i, "completed") \/ i \in over' \union denied'
  BY <1>1, ReapedShape DEF Is
<1> QED BY <1>1, SaveEarns

LEMMA OverStep ==
    ASSUME InTime, NoPrograms, InTurn, OverIsOver, [Next]_vars
    PROVE  OverIsOver'
<1>1. TypeOK /\ Tabs \subseteq Holders /\ Fallback \in Holders /\ mem \in Files
  BY ItemsTyped DEF InTurn, Holders
<1>2. over \subseteq over' /\ denied \subseteq denied'
  BY DEF Next, vars, history, counters, TabActs, FallbackActs, RunActs, Enqueue, Crash, Cancel,
         ListActive, DispatchClaim, CheckClaim, BarrierRelease, TabStarts, TabDies, FallbackClaims,
         FallbackStarts, InterjectClaim, InterjectHand, TakeBack, InterjectRefused, OrphanSeen,
         OrphanRequeued, StartOther, RunIngress, RunDenied, Consume, Ack, Deny, RunEnds, RunRaises,
         NotifyTerminal, Unregister
<1>3. ASSUME UNCHANGED <<mem, disk>> PROVE Earned BY <1>3 DEF Earned
<1>4. CASE Enqueue
  <2>1. log' = log /\ Saved /\ born + 1 \in Items /\ mem' = Set(mem, born + 1, "queued")
    BY <1>1, <1>4, Constants DEF Enqueue, Saves, SaveRaises, Saved, TypeOK, Items
  <2>2. Earned
    <3>1. PICK i \in Items : i = born + 1 BY <2>1
    <3> QED BY <1>1, <2>1, <3>1, SetEarns DEF Statuses
  <2> QED BY <1>2, <2>1, <2>2, OverStays
<1>5. ASSUME NEW i \in Items, Cancel(i) PROVE OverIsOver'
  <2>1. log' = log /\ Saved /\ mem' = Set(mem, i, "cancelled")
    BY <1>5 DEF Cancel, Saves, SaveRaises, Saved
  <2>2. Earned BY <1>1, <2>1, SetEarns DEF Statuses
  <2> QED BY <1>2, <2>1, <2>2, OverStays
<1>6. CASE ListActive
  <2>1. PICK S \in StaleSets : mem' = Reaped(S) /\ Saved /\ log' = log /\ UNCHANGED <<over, denied>>
    BY <1>6 DEF ListActive, Saves, SaveRaises, Saved, history
  <2>2. Earned
    <3>1. mem' \in Files BY <1>1, <2>1, ReapedShape
    <3> QED BY <1>1, <2>1, <3>1, ReapEarns
  <2> QED BY <1>2, <2>1, <2>2, OverStays
<1>7. ASSUME NEW h \in Holders, DispatchClaim(h) PROVE OverIsOver'
  <2> DEFINE Queued(S) == {i \in Items : Reaped(S)[i].status = "queued"}
  <2>1. PICK S \in StaleSets :
          /\ Queued(S) # {} /\ Saved /\ log' = log /\ UNCHANGED <<over, denied>>
          /\ mem' = Set(Reaped(S), Min(Queued(S)), "claimed")
    BY <1>7 DEF DispatchClaim, Saves, SaveRaises, Saved, history
  <2>2. PICK i \in Items : i = Min(Queued(S)) BY <2>1, OldestIsOne
  <2>3. Reaped(S) \in Files BY <1>1, ReapedShape
  <2>4. /\ mem' \in Files /\ mem'[i].status = "claimed"
        /\ \A j \in Items \ {i} : mem'[j] = Reaped(S)[j]
    <3>1. mem' = Set(Reaped(S), i, "claimed") BY <2>1, <2>2
    <3>2. "claimed" \in Statuses BY DEF Statuses
    <3> QED BY <2>3, <3>1, <3>2, SetShape
  <2>5. Earned BY <1>1, <2>1, <2>4, ReapEarns
  <2> QED BY <1>2, <2>1, <2>5, OverStays
<1>8. ASSUME NEW t \in Tabs, CheckClaim(t) PROVE OverIsOver'
  <2>1. PICK S \in StaleSets : mem' = Reaped(S) /\ Saved /\ log' = log /\ UNCHANGED <<over, denied>>
    BY <1>8 DEF CheckClaim, Saves, SaveRaises, Saved, history, items, NoFault
  <2>2. Earned
    <3>1. mem' \in Files BY <1>1, <2>1, ReapedShape
    <3> QED BY <1>1, <2>1, <3>1, ReapEarns
  <2> QED BY <1>2, <2>1, <2>2, OverStays
<1>9. ASSUME NEW h \in Holders, Saved, log' = log, holder[h].pc # "idle",
             mem' = mem \/ mem' = Set(mem, holder[h].item, "queued")
      PROVE  OverIsOver'
  <2>1. PICK i \in Items : i = holder[h].item BY <1>9, Alone
  <2>2. CASE mem' = mem
    <3>1. Earned BY <1>1, <1>9, <2>2, SaveEarns DEF Is
    <3> QED BY <1>2, <1>9, <3>1, OverStays
  <2>3. CASE mem' = Set(mem, i, "queued")
    <3>1. Earned BY <1>1, <1>9, <2>3, SetEarns DEF Statuses
    <3> QED BY <1>2, <1>9, <3>1, OverStays
  <2> QED BY <1>9, <2>1, <2>2, <2>3
<1>10. ASSUME NEW t \in Tabs, BarrierRelease(t) PROVE OverIsOver'
  <2>1. /\ Saved /\ log' = log /\ holder[t].pc # "idle"
        /\ mem' = mem \/ mem' = Set(mem, holder[t].item, "queued")
    BY <1>10 DEF BarrierRelease, Released, Saved
  <2> QED BY <1>1, <1>9, <2>1
<1>11. ASSUME NEW h \in Holders, TakeBack(h), holder[h].pc # "idle" PROVE OverIsOver'
  <2>1. /\ Saved /\ log' = log
        /\ mem' = mem \/ mem' = Set(mem, holder[h].item, "queued")
    BY <1>11 DEF TakeBack, Saves, SaveRaises, Saved
  <2> QED BY <1>9, <1>11, <2>1
<1>12. CASE FallbackStarts
  <2>1. log' = log /\ holder[Fallback].pc # "idle" BY <1>12 DEF FallbackStarts
  <2>2. CASE run = NoRun
    <3>1. Earned BY <1>3, <1>12, <2>2 DEF FallbackStarts, items
    <3> QED BY <1>2, <2>1, <3>1, OverStays
  <2>3. CASE run # NoRun
    <3>1. Saved /\ (mem' = mem \/ mem' = Set(mem, holder[Fallback].item, "queued"))
      BY <1>12, <2>3 DEF FallbackStarts, Released, Saves, SaveRaises, Saved
    <3> QED BY <1>1, <1>9, <2>1, <3>1
  <2> QED BY <2>2, <2>3
<1>13. ASSUME NEW t \in Tabs, NEW i \in Items, InterjectClaim(t, i) PROVE OverIsOver'
  <2> DEFINE handed == [status |-> "interject_pending", gen |-> run.gen]
  <2>1. log' = log /\ Saved /\ mem' = [mem EXCEPT ![i] = handed]
    BY <1>13 DEF InterjectClaim, Saves, SaveRaises, Saved
  <2>2. handed \in [status : Statuses, gen : 0..gens] /\ handed.status # "completed"
    BY <1>1 DEF TypeOK, Statuses
  <2> HIDE DEF handed
  <2>3. /\ mem' \in Files /\ mem'[i].status # "completed" /\ \A j \in Items \ {i} : mem'[j] = mem[j]
    BY <1>1, <2>1, <2>2 DEF Files
  <2>4. Earned BY <1>1, <2>1, <2>3, SaveEarns DEF Is
  <2> QED BY <1>2, <2>1, <2>4, OverStays
<1>14. ASSUME UNCHANGED <<mem, disk, log>> PROVE OverIsOver'
  BY <1>2, <1>3, <1>14, OverStays
<1>15. ASSUME NEW kind \in Others, StartOther(kind) PROVE OverIsOver'
  <2>1. PICK e \in Events : e.kind = kind /\ log' = Append(log, e)
    <3>1. Event(kind, None, None) \in Events BY DEF Event, Events
    <3>2. Event(kind, None, None).kind = kind BY DEF Event
    <3> QED BY <1>15, <3>1, <3>2 DEF StartOther, Logs
  <2>2. UNCHANGED <<mem, disk>> BY <1>15 DEF StartOther, items
  <2>3. e.kind # "end" BY <2>1, Constants
  <2> QED BY <1>1, <1>2, <1>3, <2>1, <2>2, <2>3, OverLogs
<1>16. CASE RunIngress
  <2>1. UNCHANGED <<mem, disk>> BY <1>16 DEF RunIngress
  <2>2. CASE log' = Append(log, Event("turn", run.item, None))
    <3>1. run.item \in Items BY <1>16 DEF RunIngress, InTurn, RunIsHonest
    <3>2. PICK e \in Events : e.kind = "turn" /\ log' = Append(log, e)
      <4>1. Event("turn", run.item, None) \in Events BY <3>1 DEF Event, Events
      <4>2. Event("turn", run.item, None).kind = "turn" BY DEF Event
      <4> QED BY <2>2, <4>1, <4>2
    <3> QED BY <1>1, <1>2, <1>3, <2>1, <3>2, OverLogs
  <2> QED BY <1>14, <1>16, <2>1, <2>2 DEF RunIngress, Logs
<1>17. ASSUME NEW i \in Items, Consume(i) PROVE OverIsOver'
  <2>1. UNCHANGED <<mem, disk>> BY <1>17 DEF Consume
  <2>2. CASE log' = Append(log, Event("interjection", i, None))
    <3>1. PICK e \in Events : e.kind = "interjection" /\ log' = Append(log, e)
      <4>1. Event("interjection", i, None) \in Events BY DEF Event, Events
      <4>2. Event("interjection", i, None).kind = "interjection" BY DEF Event
      <4> QED BY <2>2, <4>1, <4>2
    <3> QED BY <1>1, <1>2, <1>3, <2>1, <3>1, OverLogs
  <2> QED BY <1>14, <1>17, <2>1, <2>2 DEF Consume, Logs
<1>18. CASE RunEnds
  <2>1. UNCHANGED <<mem, disk>> /\ over' = over \union Taken BY <1>18 DEF RunEnds
  <2>2. ASSUME NEW reason \in {"completed", "failed"}, log' = Append(log, Event("end", None, reason))
        PROVE  OverIsOver'
    <3>1. PICK e \in Events : log' = Append(log, e)
      <4>1. Event("end", None, reason) \in Events BY DEF Event, Events
      <4> QED BY <2>2, <4>1
    <3>2. log[Len(log)].item \in over' \union {None}
      BY <1>18, <2>1, TakenShape DEF RunEnds
    <3> QED BY <1>1, <1>2, <1>3, <2>1, <3>1, <3>2, OverLogs
  <2> QED BY <1>14, <1>18, <2>1, <2>2 DEF RunEnds, Logs
<1>19. CASE Ack
  <2>1. log' = log /\ Saved /\ mem' = Received(run.at)
    BY <1>19 DEF Ack, Saves, SaveRaises, Saved
  <2>2. PICK i \in Items : i = run.at BY <1>19 DEF Ack, InTurn, RunIsHonest
  <2>3. mem' = mem \/ mem' = Set(mem, i, "interject_received") BY <2>1, <2>2 DEF Received
  <2>4. Earned
    <3>1. CASE mem' = mem BY <1>1, <2>1, <3>1, SaveEarns DEF Is
    <3>2. CASE mem' = Set(mem, i, "interject_received")
      BY <1>1, <2>1, <3>2, SetEarns DEF Statuses
    <3> QED BY <2>3, <3>1, <3>2
  <2> QED BY <1>2, <2>1, <2>4, OverStays
<1>20. ASSUME NEW i \in Items, Deny(i) PROVE OverIsOver'
  <2>1. /\ log' = log /\ Saved
        /\ mem' = mem \/ mem' = Set(mem, i, "interject_denied")
    BY <1>20 DEF Deny, Saved
  <2>2. Earned
    <3>1. CASE mem' = mem BY <1>1, <2>1, <3>1, SaveEarns DEF Is
    <3>2. CASE mem' = Set(mem, i, "interject_denied")
      BY <1>1, <2>1, <3>2, SetEarns DEF Statuses
    <3> QED BY <2>1, <3>1, <3>2
  <2> QED BY <1>2, <2>1, <2>2, OverStays
<1>21. CASE NotifyTerminal
  <2>1. log' = log /\ Saved /\ mem' = Told /\ UNCHANGED <<over, denied>>
    BY <1>21 DEF NotifyTerminal, Saves, SaveRaises, Saved, history
  <2>2. CASE mem' = mem
    <3>1. Earned BY <1>1, <2>1, <2>2, SaveEarns DEF Is
    <3> QED BY <1>2, <2>1, <3>1, OverStays
  <2>3. CASE mem' # mem
    <3>1. PICK i \in Items : i = run.item BY <1>1, <2>1, <2>3 DEF Told, TypeOK
    <3>2. PICK status \in {"completed", "failed", "queued"} :
            mem' = Set(mem, i, status) /\ (status = "completed" => run.pc = "completed")
      BY <1>21, <2>1, <2>3, <3>1 DEF Told, Released, NotifyTerminal
    <3>3. status = "completed" => i \in over' \union denied'
      BY <2>1, <3>1, <3>2, Constants DEF InTurn, RunIsHonest
    <3>4. Earned BY <1>1, <2>1, <3>2, <3>3, SetEarns DEF Statuses
    <3> QED BY <1>2, <2>1, <3>4, OverStays
  <2> QED BY <2>2, <2>3
<1>22. CASE Crash
  <2>1. log' = log /\ mem' = Load(disk) /\ disk' = Load(disk) BY <1>22 DEF Crash
  <2>2. ASSUME NEW i \in Items, Load(disk)[i].status = "completed"
        PROVE  disk[i].status = "completed"
    <3>1. disk[i] \in [status : Statuses, gen : 0..gens] BY <1>1, ItemsTyped
    <3> QED BY <2>2, <3>1 DEF Load
  <2>3. Earned BY <2>1, <2>2 DEF Earned
  <2> QED BY <1>2, <2>1, <2>3, OverStays
<1>23. ASSUME NEW t \in Tabs, TabActs(t) PROVE OverIsOver'
  <2>1. CASE InterjectRefused(t) BY <1>1, <1>11, <2>1 DEF InterjectRefused
  <2>2. CASE TabStarts(t) \/ TabDies(t) \/ InterjectHand(t)
    BY <1>14, <2>2 DEF TabStarts, TabDies, InterjectHand, items
  <2> QED BY <1>8, <1>10, <1>23, <2>1, <2>2 DEF TabActs
<1>24. CASE FallbackActs
  <2>1. CASE OrphanRequeued BY <1>1, <1>11, <2>1 DEF OrphanRequeued
  <2>2. CASE FallbackClaims BY <1>1, <1>7, <2>2 DEF FallbackClaims
  <2>3. ASSUME NEW i \in Items, OrphanSeen(i) PROVE OverIsOver'
    BY <1>14, <2>3 DEF OrphanSeen, items
  <2> QED BY <1>12, <1>24, <2>1, <2>2, <2>3 DEF FallbackActs
<1>25. CASE RunActs
  <2>1. CASE RunDenied \/ RunRaises \/ Unregister
    BY <1>14, <2>1 DEF RunDenied, RunRaises, Unregister, items
  <2> QED BY <1>16, <1>17, <1>18, <1>19, <1>20, <1>21, <1>25, <2>1 DEF RunActs
<1>26. CASE UNCHANGED vars BY <1>14, <1>26 DEF vars, items
<1> QED
  BY <1>1, <1>4, <1>5, <1>6, <1>7, <1>13, <1>15, <1>22, <1>23, <1>24, <1>25, <1>26 DEF Next

-----------------------------------------------------------------------------
\* The theorems

\* A message that a step logs is of no turn, of the turn that the run carries, or of
\* one in its mailbox.
LEMMA NewMessages ==
    ASSUME InTurn, [Next]_vars
    PROVE  \/ log' = log
           \/ \E e \in Events :
                /\ log' = Append(log, e) /\ UNCHANGED <<crashes>>
                /\ \/ e.item = None
                   \/ /\ e.item \in Items
                      /\ \/ run.pc = "registered" /\ run.item = e.item
                         \/ e.item \in run.box
<1> DEFINE Goal == \E e \in Events :
                /\ log' = Append(log, e) /\ UNCHANGED <<crashes>>
                /\ \/ e.item = None
                   \/ /\ e.item \in Items
                      /\ \/ run.pc = "registered" /\ run.item = e.item
                         \/ e.item \in run.box
<1>1. ASSUME NEW i \in Items, NEW kind \in {"turn", "interjection"},
             log' = Append(log, Event(kind, i, None)), UNCHANGED crashes,
             (run.pc = "registered" /\ run.item = i) \/ i \in run.box
      PROVE  Goal
  <2>1. Event(kind, i, None) \in Events /\ Event(kind, i, None).item = i BY DEF Event, Events
  <2>2. PICK e \in Events : e = Event(kind, i, None) /\ e.item = i BY <2>1
  <2> QED BY <1>1, <2>2
<1>2. ASSUME NEW e \in Events, log' = Append(log, e), UNCHANGED crashes, e.item = None PROVE Goal
  BY <1>2
<1>3. ASSUME RunIngress PROVE log' = log \/ Goal
  <2>1. run.item \in Items BY <1>3 DEF RunIngress, InTurn, RunIsHonest
  <2> QED BY <1>1, <1>3, <2>1 DEF RunIngress, Logs, counters
<1>4. ASSUME NEW i \in Items, Consume(i) PROVE log' = log \/ Goal
  BY <1>1, <1>4 DEF Consume, Logs, counters
<1>5. ASSUME NEW kind \in Others, StartOther(kind) PROVE Goal
  <2>1. Event(kind, None, None) \in Events /\ Event(kind, None, None).item = None
    BY DEF Event, Events
  <2> QED BY <1>2, <1>5, <2>1 DEF StartOther, Logs
<1>6. ASSUME RunEnds PROVE log' = log \/ Goal
  <2>1. ASSUME NEW reason \in {"completed", "failed"}, log' = Append(log, Event("end", None, reason))
        PROVE  Goal
    <3>1. Event("end", None, reason) \in Events /\ Event("end", None, reason).item = None
      BY DEF Event, Events
    <3> QED BY <1>2, <1>6, <2>1, <3>1 DEF RunEnds, counters
  <2> QED BY <1>6, <2>1 DEF RunEnds, Logs
<1> HIDE DEF Goal
<1>7. ASSUME NEW t \in Tabs, DispatchClaim(t) \/ TabActs(t) PROVE log' = log
  BY <1>7 DEF TabActs, DispatchClaim, CheckClaim, BarrierRelease, TabStarts, TabDies,
              InterjectHand, InterjectRefused, TakeBack
<1>8. ASSUME FallbackActs PROVE log' = log
  <2>1. ASSUME NEW i \in Items, OrphanSeen(i) PROVE log' = log BY <2>1 DEF OrphanSeen
  <2> QED BY <1>8, <2>1 DEF FallbackActs, FallbackClaims, FallbackStarts, OrphanRequeued,
                            DispatchClaim, TakeBack
<1>9. ASSUME RunActs PROVE log' = log \/ Goal
  <2>1. ASSUME NEW i \in Items, Deny(i) PROVE log' = log BY <2>1 DEF Deny
  <2>2. RunDenied \/ Ack \/ RunRaises \/ NotifyTerminal \/ Unregister => log' = log
    BY DEF RunDenied, Ack, RunRaises, NotifyTerminal, Unregister
  <2> QED BY <1>3, <1>4, <1>6, <1>9, <2>1, <2>2 DEF RunActs
<1>10. ASSUME NEW i \in Items, Cancel(i) PROVE log' = log BY <1>10 DEF Cancel
<1>11. ASSUME NEW t \in Tabs, NEW i \in Items, InterjectClaim(t, i) PROVE log' = log
  BY <1>11 DEF InterjectClaim
<1>12. Enqueue \/ Crash \/ ListActive \/ UNCHANGED vars => log' = log
  BY DEF Enqueue, Crash, ListActive, vars
<1>13. log' = log \/ Goal
  BY <1>5, <1>7, <1>8, <1>9, <1>10, <1>11, <1>12 DEF Next
<1> QED BY <1>13 DEF Goal

\* What went wrong stays so.
LEMMA WrongStays ==
    ASSUME TypeOK, [Next]_vars
    PROVE  NothingWrong' => NothingWrong
<1>1. faults \in Nat /\ crashes \in Nat BY Constants DEF TypeOK
<1>2. Fault \/ NoFault \/ UNCHANGED faults => (faults' = 0 => faults = 0)
  BY <1>1 DEF Fault, NoFault
<1>3. crashes' = crashes \/ crashes' = crashes + 1
  BY DEF Next, vars, counters, TabActs, FallbackActs, RunActs, Enqueue, Crash, Cancel,
         ListActive, DispatchClaim, CheckClaim, BarrierRelease, TabStarts, TabDies, FallbackClaims,
         FallbackStarts, InterjectClaim, InterjectHand, TakeBack, InterjectRefused, OrphanSeen,
         OrphanRequeued, StartOther, RunIngress, RunDenied, Consume, Ack, Deny, RunEnds, RunRaises,
         NotifyTerminal, Unregister
<1>4. Fault \/ NoFault \/ UNCHANGED faults
  BY DEF Next, vars, items, counters, TabActs, FallbackActs, RunActs, Enqueue, Crash, Cancel,
         ListActive, DispatchClaim, CheckClaim, BarrierRelease, TabStarts, TabDies, FallbackClaims,
         FallbackStarts, InterjectClaim, InterjectHand, TakeBack, InterjectRefused, OrphanSeen,
         OrphanRequeued, StartOther, RunIngress, RunDenied, Consume, Ack, Deny, RunEnds, RunRaises,
         NotifyTerminal, Unregister, Saves, SaveRaises
<1> QED BY <1>1, <1>2, <1>3, <1>4 DEF NothingWrong

LEMMA InitInTurn == Init => InTurn /\ OverIsOver
<1> SUFFICES ASSUME Init PROVE InTurn /\ OverIsOver OBVIOUS
<1>1. /\ \A i \in Items : mem[i] = Absent /\ disk[i] = Absent
      /\ \A h \in Holders : holder[h] = Idle
      /\ log = <<>> /\ run = NoRun /\ born = 0 /\ gens = 0 /\ withdrawn = {}
  BY DEF Init
<1>2. DOMAIN log = {} BY <1>1
<1>3. \A i \in Items : Turns(i) = {} /\ Ingresses(i) = {} BY <1>2 DEF Turns, Ingresses
<1>4. TypeOK
  <2>1. Absent \in [status : Statuses, gen : 0..gens] BY <1>1 DEF Absent, Statuses
  <2>2. mem \in Files /\ disk \in Files BY <1>1, <2>1 DEF Init, Files
  <2>3. Idle \in [pc : {"idle", "claimed", "checked", "handing", "refused", "orphan"},
                  item : Items \union {None}, gen : 0..gens]
    BY <1>1 DEF Idle
  <2>4. HoldersTyped BY <2>3 DEF Init, HoldersTyped
  <2>5. RunTyped BY <1>1 DEF NoRun, RunTyped
  <2>6. log \in Seq(Events) BY <1>1
  <2> QED BY <2>2, <2>4, <2>5, <2>6, Constants DEF Init, TypeOK, HoldersTyped, RunTyped
<1>5. RunsOnce BY <1>3, FS_EmptySet DEF RunsOnce
<1>6. HoldersAreHonest BY <1>1 DEF HoldersAreHonest, Idle
<1>7. RunIsHonest
  <2>1. \A i \in Items : ~InBox(i) /\ ~Carries(i)
    BY <1>1, Constants DEF InBox, Carries, NoRun
  <2> QED BY <1>1, <2>1 DEF RunIsHonest, NoRun
<1>8. FilesAreHonest BY <1>1, <1>3 DEF FilesAreHonest, Both, Is, Absent
<1>9. DeliveriesAreKnown BY <1>3 DEF DeliveriesAreKnown
<1>10. OverIsOver BY <1>1, <1>2 DEF OverIsOver, Absent
<1> QED BY <1>4, <1>5, <1>6, <1>7, <1>8, <1>9, <1>10 DEF InTurn

\* No turn is executed by two runs, who holds a turn is what it believes, and the
\* files never queue again what has started, through any interleaving of tabs,
\* fallback and run, any failed writes and any restarts, whatever else runs.
THEOREM TurnsRunOnce ==
    ASSUME InTime
    PROVE  Spec => [](TypeOK /\ RunsOnce /\ HoldersAreHonest /\ RunIsHonest
                        /\ FilesAreHonest /\ DeliveriesAreKnown)
<1>1. Init => InTurn BY InitInTurn
<1>2. InTurn /\ [Next]_vars => InTurn' BY InTurnStep
<1>3. InTurn => (TypeOK /\ RunsOnce /\ HoldersAreHonest /\ RunIsHonest
                   /\ FilesAreHonest /\ DeliveriesAreKnown)
  BY DEF InTurn
<1> QED BY <1>1, <1>2, <1>3, PTL DEF Spec

\* Where no program runs in the session, a turn is told completed only when the run
\* that took its message in has returned, or that was refused it.
THEOREM QueueStaysSound ==
    ASSUME InTime, NoPrograms
    PROVE  Spec => []QueueIsSound
<1>1. Init => InTurn /\ OverIsOver BY InitInTurn
<1>2. (InTurn /\ OverIsOver) /\ [Next]_vars => (InTurn /\ OverIsOver)'
  BY InTurnStep, OverStep
<1>3. InTurn /\ OverIsOver => QueueIsSound
  BY CompletedFromFiles DEF InTurn, QueueIsSound
<1> QED BY <1>1, <1>2, <1>3, PTL DEF Spec

\* Without failed writes and restarts, no turn reaches the session twice.
THEOREM DeliveredAtMostOnce ==
    ASSUME InTime
    PROVE  Spec => []DeliveredOnce
<1>1. Init => InTurn /\ DeliveredOnce
  <2>1. Init => \A i \in Items : Ingresses(i) = {} BY DEF Init, Ingresses
  <2> QED BY <2>1, InitInTurn, FS_EmptySet DEF DeliveredOnce
<1>2. (InTurn /\ DeliveredOnce) /\ [Next]_vars => (InTurn /\ DeliveredOnce)'
  <2> SUFFICES ASSUME InTurn, DeliveredOnce, [Next]_vars PROVE DeliveredOnce'
    BY InTurnStep
  <2> SUFFICES ASSUME NothingWrong', NEW i \in Items PROVE Cardinality(Ingresses(i)') <= 1
    BY DEF DeliveredOnce, NothingWrong
  <2>1. TypeOK /\ NothingWrong BY WrongStays DEF InTurn
  <2>2. Cardinality(Ingresses(i)) <= 1 BY <2>1 DEF DeliveredOnce, NothingWrong
  <2>3. CASE log' = log BY <2>2, <2>3 DEF Ingresses
  <2>4. CASE log' # log
    <3>1. PICK e \in Events :
            /\ log' = Append(log, e)
            /\ \/ e.item = None
               \/ /\ e.item \in Items
                  /\ \/ run.pc = "registered" /\ run.item = e.item
                     \/ e.item \in run.box
      BY <2>4, NewMessages
    <3>2. CASE e.item # i
      <4>1. Ingresses(i)' = Ingresses(i) BY <2>1, <3>1, <3>2, AppendTurns
      <4> QED BY <2>2, <4>1
    <3>3. CASE e.item = i
      <4>1. Ingresses(i) = {} BY <2>1, <3>1, <3>3, WhoHasIt, Constants
      <4>2. Ingresses(i)' = Ingresses(i) \union {Len(log) + 1} BY <2>1, <3>1, <3>3, AppendTurns
      <4>3. Ingresses(i)' = {Len(log) + 1} BY <4>1, <4>2
      <4>4. Cardinality({Len(log) + 1}) = 1 BY FS_Singleton
      <4>5. 1 <= 1 OBVIOUS
      <4> QED BY <4>3, <4>4, <4>5
    <3> QED BY <3>2, <3>3
  <2> QED BY <2>3, <2>4
<1>3. InTurn /\ DeliveredOnce => DeliveredOnce OBVIOUS
<1> QED BY <1>1, <1>2, <1>3, PTL DEF Spec

\* A turn whose cancellation the user was told of is never handed to the model
\* afterwards.
THEOREM WithdrawnStaysAway ==
    ASSUME InTime
    PROVE  Spec => CancelIsFinal
<1>1. Init => InTurn BY InitInTurn
<1>2. InTurn /\ [Next]_vars => InTurn' BY InTurnStep
<1>3. InTurn /\ [Next]_vars =>
        [\A p \in DOMAIN log' \ DOMAIN log : log'[p].item \notin withdrawn]_vars
  <2> SUFFICES ASSUME InTurn, [Next]_vars, NEW p \in DOMAIN log' \ DOMAIN log
               PROVE  log'[p].item \notin withdrawn
    OBVIOUS
  <2>1. TypeOK BY DEF InTurn
  <2>2. PICK e \in Events :
          /\ log' = Append(log, e)
          /\ \/ e.item = None
             \/ /\ e.item \in Items
                /\ \/ run.pc = "registered" /\ run.item = e.item
                   \/ e.item \in run.box
    BY NewMessages
  <2>3. log'[p] = e BY <2>1, <2>2, AppendShape
  <2>4. CASE e.item = None BY <2>1, <2>3, <2>4, Constants DEF TypeOK
  <2>5. CASE e.item \in Items
    <3>1. PICK i \in Items : i = e.item BY <2>5
    <3>2. Carries(i) \/ InBox(i) BY <2>2, <3>1, Constants DEF Carries, InBox
    <3>3. ~Is(i, "cancelled") BY <3>2, WhoHasIt DEF Is
    <3> QED BY <2>3, <3>1, <3>3, WhoHasIt
  <2> QED BY <2>2, <2>4, <2>5
<1> QED BY <1>1, <1>2, <1>3, PTL DEF Spec, CancelIsFinal
=============================================================================
