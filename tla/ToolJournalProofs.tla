------------------------- MODULE ToolJournalProofs -------------------------
(***************************************************************************)
(* Proofs about the tool execution journal: what the transcript tells of a *)
(* call is true, exact and durable for any rounds of calls, any number of  *)
(* runs and crashes and any set of writes that may fail; the journal       *)
(* implements ToolLedger; and while no message event is lost every call is *)
(* answered exactly once.                                                  *)
(***************************************************************************)
EXTENDS ToolJournal, WellFoundedInduction, TLAPS

-----------------------------------------------------------------------------
\* Numbers

Less == {ss \in Nat \X Nat : ss[1] < ss[2]}

\* A set of natural numbers that is not empty has a least one.
LEMMA LeastExists ==
    ASSUME NEW T \in SUBSET Nat, T # {}
    PROVE  \E x \in T : \A y \in T : x <= y
<1>1. IsWellFoundedOn(Less, Nat)
  BY NatLessThanWellFounded DEF OpToRel, Less
<1>2. \A R, S : IsWellFoundedOn(R, S) =>
        \A U : U \subseteq S /\ U # {} =>
           \E x \in U : \A y \in U : ~ (<<y, x>> \in R)
  BY WFMin, Zenon
<1>3. PICK x \in T : \A y \in T : ~ (<<y, x>> \in Less)
  BY <1>1, <1>2
<1>4. ASSUME NEW y \in T PROVE x <= y
  <2>1. x \in Nat /\ y \in Nat OBVIOUS
  <2>2. y < x => <<y, x>> \in Less BY <2>1 DEF Less
  <2>3. ~ (y < x) BY <1>3, <2>2, Zenon
  <2> QED BY <2>1, <2>3
<1> QED BY <1>4

LEMMA FirstIsLeast ==
    ASSUME NEW T \in SUBSET Nat, T # {}
    PROVE  First(T) \in T /\ \A y \in T : First(T) <= y
BY LeastExists DEF First

-----------------------------------------------------------------------------
\* The backfill

Entry == [index : Nat \ {0}, msg : Messages]

\* CatchUp is what its recursive definition says.
LEMMA CatchUpSteps ==
    ASSUME Len(mem) \in Nat, NEW lost
    PROVE  /\ CatchUp(lost)[0] = events
           /\ \A i \in 1..Len(mem) : CatchUp(lost)[i] =
                IF i \in Indices(events) \union lost THEN CatchUp(lost)[i-1]
                ELSE Append(CatchUp(lost)[i-1], [index |-> i, msg |-> mem[i]])
<1> DEFINE Next1(s, i) == IF i \in Indices(events) \union lost THEN s
                          ELSE Append(s, [index |-> i, msg |-> mem[i]])
           Is(f, k) == f = [i \in 0..k |-> IF i = 0 THEN events ELSE Next1(f[i-1], i)]
           Bad == {k \in Nat : ~ \E f : Is(f, k)}
<1>1. Bad = {}
  <2>1. SUFFICES ASSUME Bad # {} PROVE FALSE OBVIOUS
  <2>2. PICK k \in Bad : \A j \in Bad : k <= j
    <3>1. Bad \in SUBSET Nat OBVIOUS
    <3> HIDE DEF Bad
    <3> QED BY <2>1, <3>1, LeastExists
  <2>3. k \in Nat /\ ~ \E f : Is(f, k) OBVIOUS
  <2>4. CASE k = 0
    <3> DEFINE f == [i \in 0..0 |-> events]
    <3>1. \A i \in 0..0 : f[i] = IF i = 0 THEN events ELSE Next1(f[i-1], i)
      <4>1. \A i \in 0..0 : i = 0 /\ f[i] = events OBVIOUS
      <4> HIDE DEF Next1, f
      <4> QED BY <4>1
    <3>2. f = [i \in 0..0 |-> f[i]] OBVIOUS
    <3>3. Is(f, 0)
      <4> HIDE DEF Next1, f
      <4> QED BY <3>1, <3>2
    <3> QED BY <2>3, <2>4, <3>3
  <2>5. CASE k # 0
    <3>a. k - 1 \in Nat /\ k \in Nat /\ ~ (k <= k - 1) BY <2>3, <2>5
    <3>1. k - 1 \in Nat /\ k - 1 \notin Bad
      <4> HIDE DEF Bad
      <4> QED BY <2>2, <3>a
    <3>2. PICK g : Is(g, k - 1)
      <4> HIDE DEF Is
      <4> QED BY <3>1
    <3> DEFINE f == [i \in 0..k |-> IF i = k THEN Next1(g[k-1], k) ELSE g[i]]
    <3>3. ASSUME NEW i \in 0..k
          PROVE  f[i] = IF i = 0 THEN events ELSE Next1(f[i-1], i)
      <4>1. CASE i = k
        <5>1. k \in 0..k /\ k - 1 \in 0..k /\ k - 1 # k BY <3>1, <2>3
        <5>2. f[k-1] = g[k-1] /\ f[k] = Next1(g[k-1], k)
          <6> HIDE DEF Next1
          <6> QED BY <5>1
        <5> HIDE DEF Next1, f
        <5> QED BY <2>5, <4>1, <5>2
      <4>2. CASE i # k
        <5>1. i \in 0..(k-1) BY <2>3, <4>2
        <5>2. g[i] = IF i = 0 THEN events ELSE Next1(g[i-1], i)
          <6> HIDE DEF Next1
          <6> QED BY <3>2, <5>1
        <5>3. f[i] = g[i] BY <4>2
        <5>4. i # 0 => f[i-1] = g[i-1] BY <2>3, <5>1
        <5> HIDE DEF Next1, f
        <5> QED BY <5>2, <5>3, <5>4
      <4> QED BY <4>1, <4>2
    <3>4. f = [i \in 0..k |-> f[i]] OBVIOUS
    <3>5. Is(f, k)
      <4> HIDE DEF Next1, f
      <4> QED BY <3>3, <3>4
    <3> QED BY <2>3, <3>5
  <2> QED BY <2>4, <2>5
<1>2. \E f : Is(f, Len(mem)) BY <1>1
<1>3. CatchUp(lost) = CHOOSE f : Is(f, Len(mem)) BY DEF CatchUp
<1>4. Is(CatchUp(lost), Len(mem))
  <2> HIDE DEF Is
  <2> QED BY <1>2, <1>3
<1>5. \A i \in 0..Len(mem) : CatchUp(lost)[i] =
          IF i = 0 THEN events ELSE Next1(CatchUp(lost)[i-1], i)
  <2> HIDE DEF Next1
  <2> QED BY <1>4
<1>6. 0 \in 0..Len(mem) /\ \A i \in 1..Len(mem) : i \in 0..Len(mem) /\ i # 0 OBVIOUS
<1>7. CatchUp(lost)[0] = events BY <1>5, <1>6
<1>8. \A i \in 1..Len(mem) : CatchUp(lost)[i] = Next1(CatchUp(lost)[i-1], i)
  <2> HIDE DEF Next1
  <2> QED BY <1>5, <1>6
<1> QED BY <1>7, <1>8

\* What a backfill may leave behind: the log before it, then entries of the
\* memory that the log did not have.
Extends(log) ==
    /\ log \in Seq(Entry) /\ Len(events) <= Len(log)
    /\ \A i \in 1..Len(events) : log[i] = events[i]
    /\ \A i \in (Len(events) + 1)..Len(log) :
          \E j \in DOMAIN mem : j \notin Indices(events) /\ log[i].msg = mem[j]

LEMMA BackfillExtends ==
    ASSUME mem \in Seq(Messages), events \in Seq(Entry), NEW lost
    PROVE  /\ Extends(Backfill(lost))
           /\ DOMAIN mem \subseteq Indices(events) => Backfill(lost) = events
<1> DEFINE F == CatchUp(lost)
           Good(i) == /\ Extends(F[i])
                      /\ DOMAIN mem \subseteq Indices(events) => F[i] = events
           Bad == {i \in 0..Len(mem) : ~ Good(i)}
<1>1. Bad = {}
  <2>1. SUFFICES ASSUME Bad # {} PROVE FALSE OBVIOUS
  <2>2. PICK k \in Bad : \A j \in Bad : k <= j
    <3>1. Bad \in SUBSET Nat OBVIOUS
    <3> HIDE DEF Bad
    <3> QED BY <2>1, <3>1, LeastExists
  <2>3. k \in 0..Len(mem) /\ ~ Good(k) OBVIOUS
  <2>4. Good(0)
    <3>1. F[0] = events BY CatchUpSteps
    <3>2. Extends(events) BY DEF Extends
    <3> HIDE DEF F
    <3> QED BY <3>1, <3>2
  <2>5. k - 1 \in 0..Len(mem) /\ k - 1 \notin Bad /\ k \in 1..Len(mem)
    <3> HIDE DEF Good
    <3> QED BY <2>2, <2>3, <2>4
  <2>6. Good(k - 1)
    <3> HIDE DEF Good
    <3> QED BY <2>5
  <2>7. F[k] = IF k \in Indices(events) \union lost THEN F[k-1]
               ELSE Append(F[k-1], [index |-> k, msg |-> mem[k]])
    BY <2>5, CatchUpSteps
  <2>8. CASE k \in Indices(events) \union lost
    <3>1. F[k] = F[k-1]
      <4> HIDE DEF F
      <4> QED BY <2>7, <2>8
    <3> HIDE DEF F
    <3> QED BY <2>3, <2>6, <3>1
  <2>9. CASE k \notin Indices(events) \union lost
    <3> DEFINE e == [index |-> k, msg |-> mem[k]]
    <3>1. e \in Entry /\ k \in DOMAIN mem /\ e.msg = mem[k] BY <2>5 DEF Entry
    <3>2. F[k] = Append(F[k-1], e)
      <4> HIDE DEF F
      <4> QED BY <2>7, <2>9
    <3>3. ~ (DOMAIN mem \subseteq Indices(events)) BY <2>9, <3>1
    <3>4. Extends(F[k-1])
      <4> HIDE DEF F
      <4> QED BY <2>6
    <3> HIDE DEF e, F
    <3>5. Extends(F[k])
      <4> DEFINE G == F[k-1]
      <4>1. G \in Seq(Entry) /\ F[k] = Append(G, e) BY <3>2, <3>4 DEF Extends
      <4> HIDE DEF G
      <4>2. /\ F[k] \in Seq(Entry) /\ Len(F[k]) = Len(G) + 1
            /\ \A i \in 1..Len(G) : F[k][i] = G[i]
            /\ F[k][Len(G) + 1] = e
        BY <3>1, <4>1
      <4>3. Extends(G) BY <3>4 DEF G
      <4>4. Len(G) \in Nat /\ Len(events) \in Nat /\ k \notin Indices(events)
        BY <2>9, <4>1
      <4> QED BY <3>1, <4>2, <4>3, <4>4 DEF Extends
    <3> QED BY <2>3, <3>3, <3>5
  <2> QED BY <2>8, <2>9
<1>2. Len(mem) \in 0..Len(mem) OBVIOUS
<1>3. Good(Len(mem))
  <2> HIDE DEF Good
  <2> QED BY <1>1, <1>2
<1> QED BY <1>3 DEF Backfill

-----------------------------------------------------------------------------
\* The copies of the transcript, as sets of messages

InMem == {mem[i] : i \in DOMAIN mem}
InFile == {json[i] : i \in DOMAIN json}
InLog == {events[i].msg : i \in DOMAIN events}
Said == InMem \union InFile \union InLog

Answers(S, c) == \E m \in S : m.role = "tool" /\ m.id = c

\* What the invariants ask of one message.
True(m) ==
    /\ m.says \in Denials => m.id \notin executed
    /\ m.says = "result" => m.id \in executed
KnownMessage(m) ==
    \/ m.role = "assistant" /\ m.id \in 1..round /\ m.says = "tool_calls"
    \/ /\ m.role = "tool" /\ m.says \in Outcomes
       /\ \E r \in 1..round : m.id \in Rounds[r]
       /\ pc \notin {"recovering", "recommitting"} => m.id \notin Owed

LEMMA TruthForm ==
    /\ ReceiptsTellTheTruth <=> \A m \in Said : True(m)
    /\ ReceiptsTellTheTruth' <=> (\A m \in Said : True(m))'
<1>1. ReceiptsTellTheTruth <=> \A m \in Said : True(m)
  BY DEF ReceiptsTellTheTruth, Transcripts, Replay, Said, InMem, InFile, InLog, True
<1>2. ReceiptsTellTheTruth' <=> (\A m \in Said : True(m))'
  BY DEF ReceiptsTellTheTruth, Transcripts, Replay, Said, InMem, InFile, InLog, True
<1> QED BY <1>1, <1>2

LEMMA KnownForm ==
    /\ MessagesAreKnown <=> \A m \in Said : KnownMessage(m)
    /\ MessagesAreKnown' <=> (\A m \in Said : KnownMessage(m))'
<1>1. MessagesAreKnown <=> \A m \in Said : KnownMessage(m)
  BY DEF MessagesAreKnown, Transcripts, Replay, Said, InMem, InFile, InLog, KnownMessage
<1>2. MessagesAreKnown' <=> (\A m \in Said : KnownMessage(m))'
  BY DEF MessagesAreKnown, Transcripts, Replay, Said, InMem, InFile, InLog, KnownMessage
<1> QED BY <1>1, <1>2

LEMMA ReceiptForms ==
    ASSUME NEW c
    PROVE  /\ HasReceipt(mem, c) <=> Answers(InMem, c)
           /\ HasReceipt(mem, c)' <=> Answers(InMem', c)
           /\ Told(c) <=> Answers(InFile \union InLog, c)
           /\ Told(c)' <=> Answers((InFile \union InLog)', c)
<1>1. HasReceipt(mem, c) <=> Answers(InMem, c)
  BY DEF HasReceipt, Answers, InMem
<1>2. HasReceipt(mem, c)' <=> Answers(InMem', c)
  BY DEF HasReceipt, Answers, InMem
<1>3. Told(c) <=> Answers(InFile \union InLog, c)
  BY DEF HasReceipt, Told, Answers, InFile, InLog, Replay
<1>4. Told(c)' <=> Answers((InFile \union InLog)', c)
  BY DEF HasReceipt, Told, Answers, InFile, InLog, Replay
<1> QED BY <1>1, <1>2, <1>3, <1>4

\* s is the beginning of t.
Prefix(s, t) == Len(s) <= Len(t) /\ \A i \in 1..Len(s) : t[i] = s[i]

LEMMA PrefixForm ==
    ASSUME NEW S, NEW s \in Seq(S), NEW t \in Seq(S)
    PROVE  (Len(s) <= Len(t) /\ SubSeq(t, 1, Len(s)) = s) <=> Prefix(s, t)
<1>1. ASSUME Len(s) <= Len(t), SubSeq(t, 1, Len(s)) = s PROVE Prefix(s, t)
  <2>1. ASSUME NEW i \in 1..Len(s) PROVE t[i] = s[i]
    <3>1. SubSeq(t, 1, Len(s))[i] = t[i] BY <1>1
    <3> QED BY <1>1, <3>1
  <2> QED BY <1>1, <2>1 DEF Prefix
<1>2. ASSUME Prefix(s, t) PROVE Len(s) <= Len(t) /\ SubSeq(t, 1, Len(s)) = s
  <2>1. Len(s) <= Len(t) /\ Len(s) \in Nat BY <1>2 DEF Prefix
  <2> DEFINE u == SubSeq(t, 1, Len(s))
  <2>2. u \in Seq(S) /\ Len(u) = Len(s) BY <2>1
  <2>3. \A i \in 1..Len(s) : u[i] = t[i] BY <2>1
  <2>4. \A i \in 1..Len(s) : u[i] = s[i] BY <1>2, <2>3 DEF Prefix
  <2> HIDE DEF u
  <2>5. u = s BY <2>2, <2>4
  <2> QED BY <2>1, <2>5 DEF u
<1> QED BY <1>1, <1>2

\* What Say, a save and the repair do to the copies.
LEMMA SayShape ==
    ASSUME TypeOK, NEW msg \in Messages, NEW ok \in BOOLEAN,
           mem' = Append(mem, msg),
           events' = IF ok THEN Append(events, [index |-> Len(mem) + 1, msg |-> msg])
                     ELSE events
    PROVE  /\ mem' \in Seq(Messages) /\ events' \in Seq(Entry)
           /\ InMem' = InMem \union {msg}
           /\ InLog \subseteq InLog' /\ InLog' \subseteq InLog \union {msg}
           /\ ok => msg \in InLog'
           /\ Prefix(json, mem) => Prefix(json, mem')
           /\ Prefix(events, events')
<1>1. mem \in Seq(Messages) /\ json \in Seq(Messages) /\ events \in Seq(Entry)
  BY DEF TypeOK, Entry
<1>2. mem' \in Seq(Messages) /\ Len(mem') = Len(mem) + 1
      /\ (\A i \in 1..Len(mem) : mem'[i] = mem[i]) /\ mem'[Len(mem) + 1] = msg
      /\ Len(mem) \in Nat
  BY <1>1
<1>3. InMem' = InMem \union {msg}
  <2>1. DOMAIN mem = 1..Len(mem) /\ DOMAIN mem' = 1..(Len(mem) + 1) BY <1>1, <1>2
  <2>2. \A i \in 1..(Len(mem) + 1) : i \in 1..Len(mem) \/ i = Len(mem) + 1 BY <1>2
  <2>3. 1..Len(mem) \subseteq 1..(Len(mem) + 1) /\ Len(mem) + 1 \in 1..(Len(mem) + 1)
    BY <1>2
  <2> QED BY <1>2, <2>1, <2>2, <2>3 DEF InMem
<1>4. Prefix(json, mem) => Prefix(json, mem')
  BY <1>1, <1>2 DEF Prefix
<1>5. CASE ~ ok
  BY <1>1, <1>2, <1>3, <1>4, <1>5 DEF InLog, Prefix
<1>6. CASE ok
  <2> DEFINE e == [index |-> Len(mem) + 1, msg |-> msg]
  <2>1. e \in Entry /\ e.msg = msg BY <1>2 DEF Entry
  <2>2. events' = Append(events, e) BY <1>6
  <2> HIDE DEF e
  <2>3. events' \in Seq(Entry) /\ Len(events') = Len(events) + 1
        /\ (\A i \in 1..Len(events) : events'[i] = events[i])
        /\ events'[Len(events) + 1] = e /\ Len(events) \in Nat
    BY <1>1, <2>1, <2>2
  <2>4. DOMAIN events = 1..Len(events) /\ DOMAIN events' = 1..(Len(events) + 1)
    BY <1>1, <2>3
  <2>5. \A i \in 1..(Len(events) + 1) : i \in 1..Len(events) \/ i = Len(events) + 1
    BY <2>3
  <2>6. 1..Len(events) \subseteq 1..(Len(events) + 1)
        /\ Len(events) + 1 \in 1..(Len(events) + 1)
    BY <2>3
  <2>7. InLog' = InLog \union {msg}
    BY <2>1, <2>3, <2>4, <2>5, <2>6 DEF InLog
  <2>8. Prefix(events, events') BY <2>3 DEF Prefix
  <2> QED BY <1>2, <1>3, <1>4, <2>3, <2>7, <2>8
<1> QED BY <1>5, <1>6

LEMMA TrySaveShape ==
    ASSUME TypeOK, TrySave \/ UNCHANGED <<json, events>>, Prefix(json, mem)
    PROVE  /\ json' \in Seq(Messages) /\ events' \in Seq(Entry)
           /\ InFile \subseteq InFile' /\ InFile' \subseteq InFile \union InMem
           /\ InLog \subseteq InLog' /\ InLog' \subseteq InLog \union InMem
           /\ Prefix(json', mem) /\ Prefix(json, json') /\ Prefix(events, events')
<1>1. mem \in Seq(Messages) /\ json \in Seq(Messages) /\ events \in Seq(Entry)
  BY DEF TypeOK, Entry
<1>2. CASE UNCHANGED <<json, events>>
  BY <1>1, <1>2 DEF InFile, InLog, Prefix
<1>3. CASE Save
  <2>1. json' = mem BY <1>3 DEF Save
  <2>2. PICK lost : events' = Backfill(lost) BY <1>3, Zenon DEF Save
  <2>3. Extends(events') BY <1>1, <2>2, BackfillExtends
  <2>4. DOMAIN json = 1..Len(json) /\ DOMAIN mem = 1..Len(mem)
        /\ DOMAIN events = 1..Len(events) /\ DOMAIN events' = 1..Len(events')
        /\ Len(json) \in Nat /\ Len(mem) \in Nat /\ Len(events) \in Nat /\ Len(events') \in Nat
    BY <1>1, <2>3 DEF Extends
  <2>5. InFile' = InMem BY <2>1 DEF InFile, InMem
  <2>6. InFile \subseteq InMem BY <2>4 DEF Prefix, InFile, InMem
  <2>7. Prefix(json', mem) /\ Prefix(json, json') BY <1>1, <2>1 DEF Prefix
  <2>8. Prefix(events, events') BY <2>3 DEF Prefix, Extends
  <2>9. InLog \subseteq InLog' BY <2>4, <2>8 DEF Prefix, InLog
  <2>10. InLog' \subseteq InLog \union InMem
    <3>1. \A i \in 1..Len(events') :
             i \in 1..Len(events) \/ i \in (Len(events) + 1)..Len(events')
      BY <2>4
    <3> QED BY <2>3, <2>4, <3>1 DEF Extends, InLog, InMem
  <2> QED BY <1>1, <2>1, <2>3, <2>5, <2>6, <2>7, <2>8, <2>9, <2>10 DEF Extends
<1> QED BY <1>2, <1>3 DEF TrySave

LEMMA RepairShape ==
    ASSUME TypeOK, mem = json, mem' = IF Replayable(events) THEN Replay(events) ELSE mem
    PROVE  /\ mem' \in Seq(Messages) /\ Prefix(json, mem')
           /\ InMem' \subseteq InFile \union InLog
<1>1. mem \in Seq(Messages) /\ json \in Seq(Messages) /\ events \in Seq(Entry)
  BY DEF TypeOK, Entry
<1>2. Replay(events) \in Seq(Messages) /\ Len(Replay(events)) = Len(events)
  <2>1. DOMAIN events = 1..Len(events) /\ Len(events) \in Nat BY <1>1
  <2>2. \A i \in 1..Len(events) : events[i] \in Entry BY <1>1
  <2>3. \A i \in 1..Len(events) : events[i].msg \in Messages BY <2>2 DEF Entry
  <2>4. Replay(events) = [i \in 1..Len(events) |-> events[i].msg] BY <2>1 DEF Replay
  <2> QED BY <2>1, <2>3, <2>4
<1>3. CASE Replayable(events)
  <2>1. mem' = Replay(events) BY <1>3
  <2>2. Len(json) <= Len(Replay(events)) /\ SubSeq(Replay(events), 1, Len(json)) = json
    <3> HIDE DEF Replay
    <3> QED BY <1>2, <1>3 DEF Replayable
  <2>4. Prefix(json, mem')
    <3> HIDE DEF Replay
    <3> QED BY <1>1, <1>2, <2>1, <2>2, PrefixForm
  <2>3. InMem' = InLog BY <2>1 DEF InMem, InLog, Replay
  <2> QED BY <1>2, <2>1, <2>4, <2>3
<1>4. CASE ~ Replayable(events)
  BY <1>1, <1>4 DEF Prefix, InMem, InFile
<1> QED BY <1>3, <1>4

-----------------------------------------------------------------------------
\* The inductive invariant, over the sets of messages

CommitsInSets ==
    /\ \A c \in Calls : Known(c, "committed") => Answers(InFile \union InLog, c)
    /\ pc \in {"committing", "recommitting"} => Answers(InFile \union InLog, First(todo))
    /\ pc \in {"recovering", "recommitting"} => \A c \in todo :
          Answers(InMem, c) => Answers(InFile \union InLog, c)

FileBegins ==
    /\ pc # "off" => Prefix(json, mem)
    /\ pc = "repairing" => mem = json

SetSound ==
    /\ TypeOK /\ TracesAreInOrder /\ StagesAreTrue
    /\ \A m \in Said : True(m) /\ KnownMessage(m)
    /\ CommitsInSets /\ FileBegins

LEMMA SetForm ==
    /\ JournalIsSound <=> SetSound
    /\ JournalIsSound' <=> SetSound'
<1>1. CommitsAreTold <=> CommitsInSets
  BY ReceiptForms DEF CommitsAreTold, CommitsInSets
<1>2. CommitsAreTold' <=> CommitsInSets'
  <2>1. \A c : /\ HasReceipt(mem, c)' <=> Answers(InMem', c)
               /\ Told(c)' <=> Answers((InFile \union InLog)', c)
    BY ReceiptForms
  <2>2. Told(First(todo))' <=> Answers(InFile \union InLog, First(todo))'
    BY DEF HasReceipt, Told, Answers, InFile, InLog, Replay
  <2>3. \A c : Answers(InMem, c)' <=> Answers(InMem', c) BY DEF Answers
  <2>4. \A c : Answers(InFile \union InLog, c)' <=> Answers((InFile \union InLog)', c)
    BY DEF Answers
  <2> QED BY <2>1, <2>2, <2>3, <2>4 DEF CommitsAreTold, CommitsInSets
<1>3. ASSUME TypeOK PROVE MemoryExtendsFile <=> FileBegins
  <2>1. json \in Seq(Messages) /\ mem \in Seq(Messages) BY <1>3 DEF TypeOK
  <2> QED BY <2>1, PrefixForm DEF MemoryExtendsFile, FileBegins
<1>4. ASSUME TypeOK' PROVE MemoryExtendsFile' <=> FileBegins'
  <2>1. json' \in Seq(Messages) /\ mem' \in Seq(Messages) BY <1>4 DEF TypeOK
  <2>2. Prefix(json, mem)' <=> Prefix(json', mem') BY DEF Prefix
  <2> QED BY <2>1, <2>2, PrefixForm DEF MemoryExtendsFile, FileBegins
<1>5. JournalIsSound <=> SetSound
  BY <1>1, <1>3, TruthForm, KnownForm DEF JournalIsSound, SetSound
<1>6. JournalIsSound' <=> SetSound'
  <2>1. (\A m \in Said : True(m) /\ KnownMessage(m))' <=>
          (\A m \in Said : True(m))' /\ (\A m \in Said : KnownMessage(m))'
    OBVIOUS
  <2> QED BY <2>1, <1>2, <1>4, TruthForm, KnownForm DEF JournalIsSound, SetSound
<1> QED BY <1>5, <1>6

-----------------------------------------------------------------------------
\* The calls of the rounds

LEMMA RoundFacts ==
    /\ Calls \subseteq Nat
    /\ \A r \in 1..Len(Rounds) : Rounds[r] \subseteq Calls /\ Rounds[r] # {}
    /\ \A r, s \in 1..Len(Rounds) : \A c : c \in Rounds[r] /\ c \in Rounds[s] => r = s
    /\ Len(Rounds) \in Nat
<1>1. Rounds \in Seq(SUBSET Nat) BY RoundsAssumption
<1>2. DOMAIN Rounds = 1..Len(Rounds) /\ Len(Rounds) \in Nat BY <1>1
<1>3. \A r \in 1..Len(Rounds) : Rounds[r] \subseteq Nat BY <1>1
<1>4. Calls \subseteq Nat BY <1>2, <1>3 DEF Calls
<1>5. \A r \in 1..Len(Rounds) : Rounds[r] \subseteq Calls /\ Rounds[r] # {}
  BY <1>2, RoundsAssumption DEF Calls
<1>6. ASSUME NEW r \in 1..Len(Rounds), NEW s \in 1..Len(Rounds), NEW c,
             c \in Rounds[r], c \in Rounds[s]
      PROVE  r = s
  <2>1. c \in Nat /\ ~ (c < c) BY <1>3, <1>6
  <2>2. ~ (r < s) /\ ~ (s < r) BY <1>2, <1>6, <2>1, RoundsAssumption
  <2> QED BY <2>2
<1> QED BY <1>2, <1>4, <1>5, <1>6

LEMMA FirstIsDue ==
    ASSUME TypeOK, todo # {}
    PROVE  First(todo) \in todo /\ First(todo) \in Calls
<1>1. todo \in SUBSET Nat /\ todo \subseteq Calls BY RoundFacts DEF TypeOK
<1> QED BY <1>1, FirstIsLeast

\* A message of the current round says nothing of the next.
LEMMA RoundIsNew ==
    ASSUME SetSound, NEW s \in 1..Len(Rounds), s > round
    PROVE  /\ \A m \in Said : m.role = "tool" => m.id \notin Rounds[s]
           /\ \A c \in Calls : Known(c, "declared") => c \notin Rounds[s]
           /\ executed \intersect Rounds[s] = {}
<1>1. round \in Nat /\ round <= Len(Rounds) /\ executed \subseteq Calls
  BY RoundFacts DEF SetSound, TypeOK
<1>2. \A r \in 1..round : r \in 1..Len(Rounds) /\ r # s BY <1>1, RoundFacts
<1>3. \A m \in Said : m.role = "tool" => \E r \in 1..round : m.id \in Rounds[r]
  BY DEF SetSound, KnownMessage
<1>4. \A c \in Calls : Known(c, "declared") => \E r \in 1..round : c \in Rounds[r]
  BY DEF SetSound, TracesAreInOrder
<1>5. \A c \in executed : \E r \in 1..round : c \in Rounds[r]
  BY <1>1, <1>4 DEF SetSound, TracesAreInOrder
<1> QED BY <1>2, <1>3, <1>4, <1>5, RoundFacts

\* The phases that visit the calls of a round one by one.
LEMMA InARound ==
    ASSUME SetSound, pc \in InRound \union {"skipping"}
    PROVE  /\ round \in 1..Len(Rounds) /\ todo \subseteq Rounds[round]
           /\ Rounds[round] \subseteq Calls /\ Rounds[round] # {}
<1>1. round \in 0..Len(Rounds) BY DEF SetSound, TypeOK
<1>2. round > 0 /\ todo \subseteq Rounds[round] BY DEF SetSound, StagesAreTrue
<1>3. round \in 1..Len(Rounds) BY <1>1, <1>2, RoundFacts
<1> QED BY <1>2, <1>3, RoundFacts

LEMMA NoneLeft ==
    ASSUME NEW T, NEW c \in T
    PROVE  T # {c} => T \ {c} # {}
OBVIOUS

\* The journal's types, whatever fact was noted.
LEMMA NotedIsTyped ==
    ASSUME TypeOK, NEW c \in Calls, NEW ok \in BOOLEAN,
           NEW kind \in {"declared", "started", "finished", "committed"},
           wal' = IF ok THEN wal \union {<<kind, c>>} ELSE wal
    PROVE  wal' \subseteq {"declared", "started", "finished", "committed"} \X Calls
<1>1. wal \subseteq {"declared", "started", "finished", "committed"} \X Calls
  BY DEF TypeOK
<1>2. <<kind, c>> \in {"declared", "started", "finished", "committed"} \X Calls OBVIOUS
<1> QED BY <1>1, <1>2

-----------------------------------------------------------------------------
\* Steps that write no message

\* No copy changes: what was said stays true if no call that was denied runs,
\* and stays known if no more answers are owed.
LEMMA NothingSaid ==
    ASSUME SetSound, UNCHANGED <<json, events, mem, round>>,
           \A m \in Said : m.says \in Denials => m.id \notin executed' \ executed,
           executed \subseteq executed',
           pc' \notin {"recovering", "recommitting"} =>
              Owed' \subseteq Owed /\ pc \notin {"recovering", "recommitting"}
    PROVE  /\ (\A m \in Said : True(m) /\ KnownMessage(m))'
           /\ InMem' = InMem /\ InFile' = InFile /\ InLog' = InLog
<1>1. InMem' = InMem /\ InFile' = InFile /\ InLog' = InLog
  BY DEF InMem, InFile, InLog
<1>2. Said' = Said BY <1>1 DEF Said
<1>3. \A m \in Said : True(m)' BY DEF SetSound, True
<1>4. \A m \in Said : KnownMessage(m)' BY DEF SetSound, KnownMessage
<1> QED BY <1>1, <1>2, <1>3, <1>4

LEMMA DeclaredKeeps ==
    ASSUME SetSound, Declared
    PROVE  SetSound'
<1> DEFINE c == First(todo)
<1>1. c \in todo /\ c \in Calls /\ round \in 1..Len(Rounds) /\ c \in Rounds[round]
  <2>1. todo # {} /\ pc \in InRound BY DEF SetSound, TypeOK, InRound, Declared
  <2> QED BY <2>1, FirstIsDue, InARound DEF SetSound
<1>2. PICK ok \in BOOLEAN :
        /\ wal' = IF ok THEN wal \union {<<"declared", c>>} ELSE wal
        /\ stage' = [stage EXCEPT ![c] = IF ok THEN "declared" ELSE "none"]
        /\ IF todo = {c} THEN pc' = "starting" /\ todo' = Rounds[round]
           ELSE todo' = todo \ {c} /\ UNCHANGED pc
  BY DEF Declared, Attempt, Note, Visited
<1> HIDE DEF c
<1>3. TypeOK'
  <2>1. wal' \subseteq {"declared", "started", "finished", "committed"} \X Calls
    BY <1>1, <1>2, NotedIsTyped DEF SetSound
  <2>2. stage' \in [Calls -> Stages] BY <1>1, <1>2 DEF SetSound, TypeOK, Stages
  <2>3. todo' \subseteq Calls /\ (todo = {c} \/ todo' # {})
    BY <1>1, <1>2, NoneLeft, InARound DEF SetSound, TypeOK, InRound, Declared
  <2>4. Rounds[round] # {} BY <1>1, RoundFacts
  <2> QED BY <1>2, <2>1, <2>2, <2>3, <2>4 DEF SetSound, TypeOK, Declared, Labels
<1>4. TracesAreInOrder'
  <2>1. round \in 1..round BY <1>1, RoundFacts
  <2> QED BY <1>1, <1>2, <2>1 DEF SetSound, TracesAreInOrder, Declared, Known
<1>5. StagesAreTrue'
  BY <1>1, <1>2 DEF SetSound, TypeOK, StagesAreTrue, Declared, Known, InRound, InStage
<1>6. Owed' \subseteq Owed BY <1>1, <1>2 DEF SetSound, TypeOK, Owed, Declared
<1>7. /\ (\A m \in Said : True(m) /\ KnownMessage(m))'
      /\ InMem' = InMem /\ InFile' = InFile /\ InLog' = InLog
  BY <1>2, <1>6, NothingSaid DEF Declared
<1>8. CommitsInSets'
  BY <1>1, <1>2, <1>7 DEF SetSound, CommitsInSets, Known, Answers, Declared
<1>9. FileBegins' BY <1>2 DEF SetSound, FileBegins, Declared
<1> QED BY <1>3, <1>4, <1>5, <1>7, <1>8, <1>9 DEF SetSound

LEMMA CancelKeeps ==
    ASSUME SetSound, Cancel
    PROVE  SetSound'
<1>1. TypeOK' BY DEF SetSound, TypeOK, Cancel, disk, Labels
<1>2. TracesAreInOrder' BY DEF SetSound, TracesAreInOrder, Cancel, Known, disk
<1>3. StagesAreTrue'
  BY DEF SetSound, TypeOK, StagesAreTrue, Cancel, Known, InRound, InStage, disk
<1>4. Owed' \subseteq Owed
  BY DEF SetSound, TypeOK, Owed, Cancel, InStage, StagesAreTrue, disk
<1>5. /\ (\A m \in Said : True(m) /\ KnownMessage(m))'
      /\ InMem' = InMem /\ InFile' = InFile /\ InLog' = InLog
  BY <1>4, NothingSaid DEF Cancel, disk
<1>6. CommitsInSets' BY <1>5 DEF SetSound, CommitsInSets, Known, Answers, Cancel, disk
<1>7. FileBegins' BY DEF SetSound, FileBegins, Cancel, disk
<1> QED BY <1>1, <1>2, <1>3, <1>5, <1>6, <1>7 DEF SetSound

LEMMA StartedKeeps ==
    ASSUME SetSound, Started
    PROVE  SetSound'
<1> DEFINE c == First(todo)
<1>1. c \in todo /\ c \in Calls /\ round \in 1..Len(Rounds) /\ c \in Rounds[round]
  <2>1. todo # {} /\ pc \in InRound BY DEF SetSound, TypeOK, InRound, Started
  <2> QED BY <2>1, FirstIsDue, InARound DEF SetSound
<1>2. PICK ok \in BOOLEAN :
        /\ stage[c] # "declared" => ~ ok
        /\ wal' = IF ok THEN wal \union {<<"started", c>>} ELSE wal
        /\ stage' = [stage EXCEPT ![c] =
                        IF stage[c] = "declared" /\ ok THEN "ready"
                        ELSE IF stage[c] = "declared" THEN "refused" ELSE "none"]
        /\ IF todo = {c} THEN pc' = "executing" /\ todo' = {}
           ELSE todo' = todo \ {c} /\ UNCHANGED pc
  BY DEF Started, Attempt, Note, Visited, MayStart
<1> HIDE DEF c
<1>3. TypeOK'
  <2>1. wal' \subseteq {"declared", "started", "finished", "committed"} \X Calls
    BY <1>1, <1>2, NotedIsTyped DEF SetSound
  <2>2. stage' \in [Calls -> Stages] BY <1>1, <1>2 DEF SetSound, TypeOK, Stages
  <2>3. todo' \subseteq Calls /\ (todo = {c} \/ todo' # {})
    BY <1>1, <1>2, NoneLeft, InARound DEF SetSound, TypeOK, InRound, Started
  <2>4. Rounds[round] # {} BY <1>1, RoundFacts
  <2> QED BY <1>2, <2>1, <2>2, <2>3, <2>4 DEF SetSound, TypeOK, Started, Labels
<1>4. TracesAreInOrder'
  BY <1>1, <1>2 DEF SetSound, TypeOK, TracesAreInOrder, StagesAreTrue, Started, Known
<1>5. StagesAreTrue'
  BY <1>1, <1>2 DEF SetSound, TypeOK, StagesAreTrue, Started, Known, InRound, InStage
<1>6. Owed' \subseteq Owed BY <1>1, <1>2 DEF SetSound, TypeOK, Owed, Started
<1>7. /\ (\A m \in Said : True(m) /\ KnownMessage(m))'
      /\ InMem' = InMem /\ InFile' = InFile /\ InLog' = InLog
  BY <1>2, <1>6, NothingSaid DEF Started
<1>8. CommitsInSets'
  BY <1>1, <1>2, <1>7 DEF SetSound, CommitsInSets, Known, Answers, Started
<1>9. FileBegins' BY <1>2 DEF SetSound, FileBegins, Started
<1> QED BY <1>3, <1>4, <1>5, <1>7, <1>8, <1>9 DEF SetSound

\* A call runs only while its whole round is owed.
LEMMA ExecuteKeeps ==
    ASSUME SetSound, NEW c \in Calls, Execute(c)
    PROVE  SetSound'
<1>1. TypeOK' BY DEF SetSound, TypeOK, Execute, disk, Labels, Stages
<1>2. TracesAreInOrder'
  BY DEF SetSound, TracesAreInOrder, StagesAreTrue, Execute, Known, disk
<1>3. StagesAreTrue'
  BY DEF SetSound, TypeOK, StagesAreTrue, Execute, Known, InRound, InStage, disk
<1>4. Owed' \subseteq Owed
  BY DEF SetSound, TypeOK, Owed, Execute, disk
<1>5. \A m \in Said : m.says \in Denials => m.id # c
  BY DEF SetSound, KnownMessage, StagesAreTrue, Execute, Owed, Denials
<1>6. /\ (\A m \in Said : True(m) /\ KnownMessage(m))'
      /\ InMem' = InMem /\ InFile' = InFile /\ InLog' = InLog
  BY <1>4, <1>5, NothingSaid DEF Execute, disk
<1>7. CommitsInSets' BY <1>6 DEF SetSound, CommitsInSets, Known, Answers, Execute, disk
<1>8. FileBegins' BY DEF SetSound, FileBegins, Execute, disk
<1> QED BY <1>1, <1>2, <1>3, <1>6, <1>7, <1>8 DEF SetSound

LEMMA StageResultKeeps ==
    ASSUME SetSound, NEW c \in Calls, StageResult(c)
    PROVE  SetSound'
<1>1. PICK ok \in BOOLEAN :
         /\ sidecar' = IF ok THEN sidecar \union {c} ELSE sidecar
         /\ stage' = [stage EXCEPT ![c] = IF ok THEN "staged" ELSE "done"]
  BY DEF StageResult, Attempt
<1>2. TypeOK' BY <1>1 DEF SetSound, TypeOK, StageResult, Labels, Stages
<1>3. TracesAreInOrder' BY DEF SetSound, TracesAreInOrder, StageResult, Known
<1>4. StagesAreTrue'
  BY <1>1 DEF SetSound, TypeOK, StagesAreTrue, StageResult, Known, InRound, InStage
<1>5. Owed' \subseteq Owed BY <1>1 DEF SetSound, TypeOK, Owed, StageResult
<1>6. /\ (\A m \in Said : True(m) /\ KnownMessage(m))'
      /\ InMem' = InMem /\ InFile' = InFile /\ InLog' = InLog
  BY <1>5, NothingSaid DEF StageResult
<1>7. CommitsInSets' BY <1>6 DEF SetSound, CommitsInSets, Known, Answers, StageResult
<1>8. FileBegins' BY DEF SetSound, FileBegins, StageResult
<1> QED BY <1>2, <1>3, <1>4, <1>6, <1>7, <1>8 DEF SetSound

LEMMA FinishedKeeps ==
    ASSUME SetSound, NEW c \in Calls, Finished(c)
    PROVE  SetSound'
<1>1. PICK ok \in BOOLEAN : wal' = IF ok THEN wal \union {<<"finished", c>>} ELSE wal
  BY DEF Finished, Attempt, Note
<1>2. TypeOK' BY <1>1 DEF SetSound, TypeOK, Finished, Labels, Stages
<1>3. c \in executed
  BY DEF SetSound, StagesAreTrue, Finished, InRound, InStage
<1>4. TracesAreInOrder' BY <1>1, <1>3 DEF SetSound, TracesAreInOrder, Finished, Known
<1>5. StagesAreTrue'
  BY <1>1 DEF SetSound, TypeOK, StagesAreTrue, Finished, Known, InRound, InStage
<1>6. Owed' \subseteq Owed BY <1>1 DEF SetSound, TypeOK, Owed, Finished
<1>7. /\ (\A m \in Said : True(m) /\ KnownMessage(m))'
      /\ InMem' = InMem /\ InFile' = InFile /\ InLog' = InLog
  BY <1>6, NothingSaid DEF Finished
<1>8. CommitsInSets' BY <1>1, <1>7 DEF SetSound, CommitsInSets, Known, Answers, Finished
<1>9. FileBegins' BY DEF SetSound, FileBegins, Finished
<1> QED BY <1>2, <1>4, <1>5, <1>7, <1>8, <1>9 DEF SetSound

LEMMA GapSkipKeeps ==
    ASSUME SetSound, GapSkip
    PROVE  SetSound'
<1>1. TypeOK' BY DEF SetSound, TypeOK, GapSkip, disk, Labels, Stages
<1>2. TracesAreInOrder' BY DEF SetSound, TracesAreInOrder, GapSkip, Known, disk
<1>3. StagesAreTrue'
  BY DEF SetSound, TypeOK, StagesAreTrue, GapSkip, Known, InRound, InStage, disk
<1>4. Owed' \subseteq Owed BY DEF SetSound, TypeOK, Owed, GapSkip, disk
<1>5. /\ (\A m \in Said : True(m) /\ KnownMessage(m))'
      /\ InMem' = InMem /\ InFile' = InFile /\ InLog' = InLog
  BY <1>4, NothingSaid DEF GapSkip, disk
<1>6. CommitsInSets' BY <1>5 DEF SetSound, CommitsInSets, Known, Answers, GapSkip, disk
<1>7. FileBegins' BY DEF SetSound, FileBegins, GapSkip, disk
<1> QED BY <1>1, <1>2, <1>3, <1>5, <1>6, <1>7 DEF SetSound

LEMMA ExecutionEndsKeeps ==
    ASSUME SetSound, ExecutionEnds
    PROVE  SetSound'
<1>1. TypeOK'
  BY RoundFacts DEF SetSound, TypeOK, StagesAreTrue, ExecutionEnds, disk, Labels, InRound
<1>2. TracesAreInOrder' BY DEF SetSound, TracesAreInOrder, ExecutionEnds, Known, disk
<1>3. StagesAreTrue'
  BY DEF SetSound, TypeOK, StagesAreTrue, ExecutionEnds, Known, InRound, InStage, disk
<1>4. Owed' \subseteq Owed
  BY DEF SetSound, TypeOK, StagesAreTrue, Owed, ExecutionEnds, InStage, disk
<1>5. /\ (\A m \in Said : True(m) /\ KnownMessage(m))'
      /\ InMem' = InMem /\ InFile' = InFile /\ InLog' = InLog
  BY <1>4, NothingSaid DEF ExecutionEnds, disk
<1>6. CommitsInSets'
  BY <1>5 DEF SetSound, CommitsInSets, Known, Answers, ExecutionEnds, disk
<1>7. FileBegins' BY DEF SetSound, FileBegins, ExecutionEnds, disk
<1> QED BY <1>1, <1>2, <1>3, <1>5, <1>6, <1>7 DEF SetSound

\* An execution is settled when a durable copy answers it.
LEMMA ReceiptCommittedKeeps ==
    ASSUME SetSound, ReceiptCommitted
    PROVE  SetSound'
<1> DEFINE c == First(todo)
<1>1. c \in todo /\ c \in Calls BY FirstIsDue DEF SetSound, TypeOK, ReceiptCommitted
<1>2. PICK ok \in BOOLEAN :
        /\ wal' = IF ok THEN wal \union {<<"committed", c>>} ELSE wal
        /\ sidecar' = IF ok THEN sidecar \ {c} ELSE sidecar
        /\ todo' = todo \ {c}
        /\ pc' = IF pc = "committing" THEN "recording" ELSE "recovering"
  BY DEF ReceiptCommitted, Attempt, Note, Unlinked
<1>3. Owed' \subseteq Owed /\ (pc = "committing" \/ pc' = "recovering")
  BY <1>2 DEF SetSound, TypeOK, Owed, ReceiptCommitted, InStage
<1> HIDE DEF c
<1>4. TypeOK'
  <2>1. wal' \subseteq {"declared", "started", "finished", "committed"} \X Calls
    BY <1>1, <1>2, NotedIsTyped DEF SetSound
  <2> QED BY <1>1, <1>2, <2>1 DEF SetSound, TypeOK, ReceiptCommitted, Labels
<1>5. TracesAreInOrder'
  BY <1>1, <1>2 DEF SetSound, TypeOK, TracesAreInOrder, ReceiptCommitted, Known
<1>6. StagesAreTrue'
  BY <1>1, <1>2 DEF SetSound, TypeOK, StagesAreTrue, ReceiptCommitted, Known, InRound, InStage
<1>7. /\ (\A m \in Said : True(m) /\ KnownMessage(m))'
      /\ InMem' = InMem /\ InFile' = InFile /\ InLog' = InLog
  BY <1>3, NothingSaid DEF ReceiptCommitted
<1>8. Answers(InFile \union InLog, c)
  BY DEF SetSound, CommitsInSets, ReceiptCommitted, c
<1>9. pc' = "recovering" => \A d \in todo' : Answers(InMem, d) => Answers(InFile \union InLog, d)
  BY <1>2 DEF SetSound, CommitsInSets, ReceiptCommitted
<1>10. CommitsInSets'
  BY <1>1, <1>2, <1>7, <1>8, <1>9 DEF SetSound, CommitsInSets, Known, Answers, ReceiptCommitted
<1>11. FileBegins' BY <1>2 DEF SetSound, FileBegins, ReceiptCommitted
<1> QED BY <1>4, <1>5, <1>6, <1>7, <1>10, <1>11 DEF SetSound

LEMMA LoopEndsKeeps ==
    ASSUME SetSound, LoopEnds
    PROVE  SetSound'
<1>1. TypeOK' BY DEF SetSound, TypeOK, LoopEnds, disk, Labels
<1>2. TracesAreInOrder' BY DEF SetSound, TracesAreInOrder, LoopEnds, Known, disk
<1>3. StagesAreTrue'
  BY DEF SetSound, TypeOK, StagesAreTrue, LoopEnds, Known, InRound, InStage, NoStages, disk
<1>4. Owed' \subseteq Owed
  BY DEF SetSound, TypeOK, StagesAreTrue, Owed, LoopEnds, InStage, NoStages, disk
<1>5. /\ (\A m \in Said : True(m) /\ KnownMessage(m))'
      /\ InMem' = InMem /\ InFile' = InFile /\ InLog' = InLog
  BY <1>4, NothingSaid DEF LoopEnds, disk
<1>6. CommitsInSets' BY <1>5 DEF SetSound, CommitsInSets, Known, Answers, LoopEnds, disk
<1>7. FileBegins' BY DEF SetSound, FileBegins, LoopEnds, disk
<1> QED BY <1>1, <1>2, <1>3, <1>5, <1>6, <1>7 DEF SetSound

-----------------------------------------------------------------------------
\* Steps that write a message

InRecovery == {"recovering", "recommitting"}

LEMMA SomethingSaid ==
    ASSUME SetSound, NEW msg \in Messages, NEW ok \in BOOLEAN,
           mem' = Append(mem, msg),
           events' = IF ok THEN Append(events, [index |-> Len(mem) + 1, msg |-> msg])
                     ELSE events,
           UNCHANGED <<json, executed>>, True(msg), KnownMessage(msg)',
           round' \in Nat, round <= round',
           pc' \notin InRecovery => \A m \in Said : m.role = "tool" => m.id \notin Owed'
    PROVE  /\ (\A m \in Said : True(m) /\ KnownMessage(m))'
           /\ InMem' = InMem \union {msg} /\ InFile' = InFile
           /\ InLog \subseteq InLog' /\ InLog' \subseteq InLog \union {msg}
           /\ ok => msg \in InLog'
           /\ mem' \in Seq(Messages) /\ events' \in Seq(Entry)
           /\ Prefix(json, mem) => Prefix(json', mem')
           /\ Prefix(events, events')
<1>1. /\ mem' \in Seq(Messages) /\ events' \in Seq(Entry)
      /\ InMem' = InMem \union {msg}
      /\ InLog \subseteq InLog' /\ InLog' \subseteq InLog \union {msg}
      /\ ok => msg \in InLog'
      /\ Prefix(json, mem) => Prefix(json, mem')
      /\ Prefix(events, events')
  BY SayShape DEF SetSound
<1>2. InFile' = InFile BY DEF InFile
<1>3. Said' \subseteq Said \union {msg} BY <1>1, <1>2 DEF Said
<1>4. \A m \in Said \union {msg} : True(m)' BY DEF SetSound, True
<1>5. \A m \in Said : KnownMessage(m)'
  <2>1. round \in Nat BY RoundFacts DEF SetSound, TypeOK
  <2>2. 1..round \subseteq 1..round' BY <2>1
  <2> QED BY <2>2 DEF SetSound, KnownMessage, InRecovery
<1> QED BY <1>1, <1>2, <1>3, <1>4, <1>5

\* What changes no fact and neither phase nor stage keeps the rest.
LEMMA MessageTypes ==
    /\ \A r \in Nat : Declaration(r) \in Messages
    /\ \A c \in Nat, outcome \in Outcomes : Receipt(c, outcome) \in Messages
BY DEF Declaration, Receipt, Messages

LEMMA DeclareRoundKeeps ==
    ASSUME SetSound, DeclareRound
    PROVE  SetSound'
<1>1. PICK r : r = round + 1 OBVIOUS
<1>2. /\ r \in 1..Len(Rounds) /\ r > round /\ round' = r /\ round \in Nat /\ r \in Nat
      /\ pc = "idle" /\ todo' = Rounds[r]
      /\ stage' = stage /\ stage = NoStages
  BY <1>1, RoundFacts DEF SetSound, TypeOK, DeclareRound, StagesAreTrue
<1>3. PICK ok \in BOOLEAN :
         /\ mem' = Append(mem, Declaration(r))
         /\ events' = IF ok THEN Append(events, [index |-> Len(mem) + 1, msg |-> Declaration(r)])
                      ELSE events
         /\ pc' = IF ok THEN "declaring" ELSE "starting"
  BY <1>1 DEF DeclareRound, Attempt, Say
<1>4. PICK msg : msg = Declaration(r) OBVIOUS
<1>5. msg \in Messages BY <1>2, <1>4, MessageTypes
<1>6. Rounds[r] \subseteq Calls /\ Rounds[r] # {} BY <1>2, RoundFacts
<1>7. /\ \A m \in Said : m.role = "tool" => m.id \notin Rounds[r]
      /\ \A c \in Calls : Known(c, "declared") => c \notin Rounds[r]
      /\ executed \intersect Rounds[r] = {}
  BY <1>2, RoundIsNew
<1>8. Owed' = Rounds[r] BY <1>2, <1>3 DEF Owed
<1>9. True(msg) /\ KnownMessage(msg)'
  BY <1>2, <1>4 DEF True, KnownMessage, Declaration, Denials
<1>10. UNCHANGED <<json, wal, sidecar, executed, stage, repaired, runs>> BY DEF DeclareRound
<1>11. /\ (\A m \in Said : True(m) /\ KnownMessage(m))'
       /\ InFile' = InFile /\ InLog \subseteq InLog'
       /\ mem' \in Seq(Messages) /\ events' \in Seq(Entry)
       /\ Prefix(json, mem) => Prefix(json', mem')
  BY <1>2, <1>3, <1>4, <1>5, <1>7, <1>8, <1>9, <1>10, SomethingSaid
<1>12. TypeOK'
  BY <1>2, <1>3, <1>6, <1>10, <1>11 DEF SetSound, TypeOK, Labels, Entry
<1>13. TracesAreInOrder'
  <2>1. 1..round \subseteq 1..r BY <1>2
  <2> QED BY <1>2, <1>3, <1>10, <2>1 DEF SetSound, TracesAreInOrder, Known
<1>14. StagesAreTrue'
  BY <1>2, <1>3, <1>6, <1>7, <1>10
     DEF SetSound, TypeOK, StagesAreTrue, InRound, InStage, NoStages, Known
<1>15. CommitsInSets'
  BY <1>3, <1>10, <1>11 DEF SetSound, CommitsInSets, Known, Answers
<1>16. FileBegins' BY <1>2, <1>3, <1>11 DEF SetSound, FileBegins
<1> QED BY <1>11, <1>12, <1>13, <1>14, <1>15, <1>16 DEF SetSound

\* A call that the loop answers for without having run it.
LEMMA Denied ==
    ASSUME SetSound, NEW c \in todo, NEW outcome \in {"cancelled", "skipped"},
           pc \in {"cancelling", "skipping"}, pc' \in {pc, "ending", "idle"},
           NEW ok \in BOOLEAN,
           mem' = Append(mem, Receipt(c, outcome)),
           events' = IF ok THEN Append(events, [index |-> Len(mem) + 1,
                                                msg |-> Receipt(c, outcome)])
                     ELSE events,
           todo' = todo \ {c}, pc' = pc \/ todo' = {}, pc' = pc => todo' # {},
           pc = "cancelling" => pc' # "idle", pc = "skipping" => pc' # "ending",
           UNCHANGED <<json, wal, sidecar, executed, round, stage, repaired, runs>>
    PROVE  SetSound'
<1>1. /\ round \in 1..Len(Rounds) /\ c \in Rounds[round] /\ Rounds[round] \subseteq Calls
      /\ c \in Calls /\ c \in Nat
  BY InARound, RoundFacts DEF InRound
<1>2. PICK msg : msg = Receipt(c, outcome) OBVIOUS
<1>3. msg \in Messages BY <1>1, <1>2, MessageTypes DEF Outcomes, Denials
<1>4. InStage({"skipped"}) = {}
  BY DEF SetSound, StagesAreTrue, InStage, NoStages
<1>5. Owed = todo /\ Owed' = todo' /\ todo' \subseteq todo
  BY <1>4 DEF Owed, InStage
<1>6. c \notin executed
  BY <1>1 DEF SetSound, StagesAreTrue, InRound, InStage
<1>7. True(msg) BY <1>2, <1>6 DEF True, Receipt, Denials
<1>8. KnownMessage(msg)'
  <2>1. round \in 1..round BY <1>1, RoundFacts
  <2> QED BY <1>1, <1>2, <1>5, <2>1 DEF KnownMessage, Receipt, Outcomes, Denials
<1>9. \A m \in Said : m.role = "tool" => m.id \notin Owed'
  BY <1>5 DEF SetSound, KnownMessage
<1>10. round' \in Nat /\ round <= round' BY <1>1, RoundFacts
<1>11. /\ (\A m \in Said : True(m) /\ KnownMessage(m))'
       /\ InFile' = InFile /\ InLog \subseteq InLog'
       /\ mem' \in Seq(Messages) /\ events' \in Seq(Entry)
       /\ Prefix(json, mem) => Prefix(json', mem')
  BY <1>2, <1>3, <1>7, <1>8, <1>9, <1>10, SomethingSaid
<1>12. TypeOK' BY <1>11 DEF SetSound, TypeOK, Labels, Entry
<1>13. TracesAreInOrder' BY DEF SetSound, TracesAreInOrder, Known
<1>14. StagesAreTrue' BY DEF SetSound, StagesAreTrue, InRound, InStage, NoStages, Known
<1>15. CommitsInSets' BY <1>11 DEF SetSound, CommitsInSets, Known, Answers
<1>16. FileBegins' BY <1>11 DEF SetSound, FileBegins
<1> QED BY <1>11, <1>12, <1>13, <1>14, <1>15, <1>16 DEF SetSound

LEMMA SynthesizeCancelledKeeps ==
    ASSUME SetSound, SynthesizeCancelled
    PROVE  SetSound'
<1>1. PICK c : c = First(todo) OBVIOUS
<1>2. c \in todo BY <1>1, FirstIsDue DEF SetSound, TypeOK, SynthesizeCancelled
<1>3. PICK ok \in BOOLEAN :
         /\ mem' = Append(mem, Receipt(c, "cancelled"))
         /\ events' = IF ok THEN Append(events, [index |-> Len(mem) + 1,
                                                 msg |-> Receipt(c, "cancelled")])
                      ELSE events
  BY <1>1 DEF SynthesizeCancelled, Attempt, Say
<1>4. /\ todo' = todo \ {c} /\ pc' = IF todo = {c} THEN "ending" ELSE "cancelling"
      /\ pc = "cancelling"
      /\ UNCHANGED <<json, wal, sidecar, executed, round, stage, repaired, runs>>
  BY <1>1 DEF SynthesizeCancelled, Visited
<1>5. todo = {c} \/ todo' # {} BY <1>2, <1>4, NoneLeft
<1> QED BY <1>2, <1>3, <1>4, <1>5, Denied

LEMMA SynthesizeSkippedKeeps ==
    ASSUME SetSound, SynthesizeSkipped
    PROVE  SetSound'
<1>1. PICK c : c = First(todo) OBVIOUS
<1>2. c \in todo BY <1>1, FirstIsDue DEF SetSound, TypeOK, SynthesizeSkipped
<1>3. PICK ok \in BOOLEAN :
         /\ mem' = Append(mem, Receipt(c, "skipped"))
         /\ events' = IF ok THEN Append(events, [index |-> Len(mem) + 1,
                                                 msg |-> Receipt(c, "skipped")])
                      ELSE events
  BY <1>1 DEF SynthesizeSkipped, Attempt, Say
<1>4. /\ todo' = todo \ {c} /\ pc' = IF todo = {c} THEN "idle" ELSE "skipping"
      /\ pc = "skipping"
      /\ UNCHANGED <<json, wal, sidecar, executed, round, stage, repaired, runs>>
  BY <1>1 DEF SynthesizeSkipped, Visited
<1>5. todo = {c} \/ todo' # {} BY <1>2, <1>4, NoneLeft
<1> QED BY <1>2, <1>3, <1>4, <1>5, Denied

LEMMA RecordReceiptKeeps ==
    ASSUME SetSound, RecordReceipt
    PROVE  SetSound'
<1>1. PICK c : c = First(todo) OBVIOUS
<1>2. /\ c \in todo /\ pc = "recording"
      /\ UNCHANGED <<json, wal, sidecar, executed, round, stage, repaired, runs>>
  BY <1>1, FirstIsDue DEF SetSound, RecordReceipt
<1>3. /\ round \in 1..Len(Rounds) /\ c \in Rounds[round] /\ Rounds[round] \subseteq Calls
      /\ c \in Calls /\ c \in Nat
  BY <1>2, InARound, RoundFacts DEF InRound
<1>4. PICK outcome : outcome = IF stage[c] = "done" THEN "result" ELSE "not_started" OBVIOUS
<1>5. PICK msg : msg = Receipt(c, outcome) OBVIOUS
<1>6. PICK ok \in BOOLEAN :
         /\ mem' = Append(mem, msg)
         /\ events' = IF ok THEN Append(events, [index |-> Len(mem) + 1, msg |-> msg])
                      ELSE events
         /\ IF stage[c] # "none" /\ ok THEN pc' = "committing" /\ UNCHANGED todo
            ELSE todo' = todo \ {c} /\ UNCHANGED pc
  BY <1>1, <1>4, <1>5 DEF RecordReceipt, Attempt, Say, Settles
<1>7. outcome \in Outcomes /\ msg \in Messages
  BY <1>3, <1>4, <1>5, MessageTypes DEF Outcomes, Denials
<1>8. c \in executed <=> stage[c] = "done"
  BY <1>2, <1>3 DEF SetSound, StagesAreTrue, InRound, InStage
<1>9. True(msg) BY <1>4, <1>5, <1>8 DEF True, Receipt, Denials
<1>10. /\ Owed = InStage({"skipped"}) \union todo
       /\ Owed' = InStage({"skipped"}) \union (todo \ {c})
  BY <1>1, <1>2, <1>6 DEF Owed, InStage
<1>11. stage[c] # "skipped"
  BY <1>2, <1>3 DEF SetSound, StagesAreTrue, InRound, InStage
<1>12. KnownMessage(msg)'
  <2>1. round \in 1..round BY <1>3, RoundFacts
  <2>2. c \notin Owed' BY <1>10, <1>11 DEF InStage
  <2> QED BY <1>2, <1>3, <1>5, <1>7, <2>1, <2>2 DEF KnownMessage, Receipt
<1>13. \A m \in Said : m.role = "tool" => m.id \notin Owed'
  BY <1>2, <1>10 DEF SetSound, KnownMessage
<1>14. round' \in Nat /\ round <= round' BY <1>2, <1>3, RoundFacts
<1>15. /\ (\A m \in Said : True(m) /\ KnownMessage(m))'
       /\ InFile' = InFile /\ InLog \subseteq InLog'
       /\ ok => msg \in InLog'
       /\ mem' \in Seq(Messages) /\ events' \in Seq(Entry)
       /\ Prefix(json, mem) => Prefix(json', mem')
  BY <1>2, <1>6, <1>7, <1>9, <1>12, <1>13, <1>14, SomethingSaid
<1>16. TypeOK' BY <1>2, <1>6, <1>15 DEF SetSound, TypeOK, Labels, Entry
<1>17. TracesAreInOrder' BY <1>2, <1>6 DEF SetSound, TracesAreInOrder, Known
<1>18. StagesAreTrue'
  BY <1>2, <1>6 DEF SetSound, StagesAreTrue, InRound, InStage, NoStages, Known
<1>19. CommitsInSets'
  <2>1. ASSUME pc' = "committing" PROVE Answers((InFile \union InLog)', First(todo'))
    <3>1. todo' = todo /\ ok BY <1>2, <1>6, <2>1
    <3>2. First(todo') = c BY <1>1, <3>1
    <3>3. msg \in (InFile \union InLog)' /\ msg.role = "tool" /\ msg.id = c
      BY <1>5, <1>15, <3>1 DEF Receipt
    <3> QED BY <3>2, <3>3 DEF Answers
  <2>2. Answers(InFile \union InLog, First(todo))' <=> Answers((InFile \union InLog)', First(todo'))
    BY DEF Answers
  <2>3. \A d : Answers(InFile \union InLog, d) => Answers(InFile \union InLog, d)'
    BY <1>15 DEF Answers
  <2>4. \A d \in Calls : Known(d, "committed")' => Known(d, "committed")
    BY <1>2 DEF Known
  <2>5. pc' \in {"recording", "committing"} BY <1>2, <1>6
  <2> QED BY <2>1, <2>2, <2>3, <2>4, <2>5 DEF SetSound, CommitsInSets
<1>20. FileBegins' BY <1>2, <1>6, <1>15 DEF SetSound, FileBegins
<1> QED BY <1>15, <1>16, <1>17, <1>18, <1>19, <1>20 DEF SetSound

-----------------------------------------------------------------------------
\* Recovery

LEMMA SynthesizedIsTrue ==
    ASSUME SetSound, NEW c \in Calls
    PROVE  /\ Synthesized(c) \in Outcomes
           /\ True(Receipt(c, Synthesized(c)))
<1>1. Synthesized(c) \in Outcomes BY DEF Synthesized, Outcomes, Denials
<1>2. PICK outcome : outcome = Synthesized(c) OBVIOUS
<1>3. outcome \in Denials => c \notin executed
  BY <1>2 DEF SetSound, TracesAreInOrder, Synthesized, Denials
<1>4. outcome = "result" => c \in executed
  BY <1>2 DEF SetSound, TracesAreInOrder, Synthesized
<1>5. True(Receipt(c, outcome)) BY <1>3, <1>4 DEF True, Receipt
<1> QED BY <1>1, <1>2, <1>5

LEMMA RecoverCallKeeps ==
    ASSUME SetSound, RecoverCall
    PROVE  SetSound'
<1>1. PICK c : c = First(todo) OBVIOUS
<1>2. /\ c \in todo /\ c \in Calls /\ pc = "recovering" /\ c \in Nat
      /\ UNCHANGED <<json, wal, sidecar, executed, round, stage, runs>>
  BY <1>1, FirstIsDue, RoundFacts DEF SetSound, RecoverCall
<1>3. /\ stage = NoStages /\ Known(c, "declared")
      /\ Answers(InMem, c) => Answers(InFile \union InLog, c)
  BY <1>2 DEF SetSound, StagesAreTrue, TracesAreInOrder, CommitsInSets
<1>4. Answered(c) <=> Answers(InMem, c) BY ReceiptForms DEF Answered
<1>5. StagesAreTrue' \/ pc' \notin {"recovering", "recommitting"}
  BY <1>2, <1>3 DEF SetSound, StagesAreTrue, InRound, InStage, NoStages, Known
<1>6. ASSUME pc' \in {"recovering", "recommitting"}, todo' \subseteq todo
      PROVE  TracesAreInOrder'
  BY <1>2, <1>6 DEF SetSound, TracesAreInOrder, Known
<1>7. CASE Answered(c) /\ pc' = "recommitting" /\ UNCHANGED <<events, mem, todo, repaired>>
  <2>1. /\ (\A m \in Said : True(m) /\ KnownMessage(m))'
        /\ InMem' = InMem /\ InFile' = InFile /\ InLog' = InLog
    BY <1>2, <1>7, NothingSaid
  <2>2. TypeOK' BY <1>2, <1>7 DEF SetSound, TypeOK, Labels
  <2>3. First(todo') = c BY <1>1, <1>7
  <2>4. Answers(InFile \union InLog, First(todo))'
    <3>1. Answers(InFile \union InLog, c) BY <1>3, <1>4, <1>7
    <3> QED BY <2>1, <2>3, <3>1 DEF Answers
  <2>5. CommitsInSets'
    BY <1>2, <1>7, <2>1, <2>4 DEF SetSound, CommitsInSets, Known, Answers
  <2>6. FileBegins' BY <1>2, <1>7 DEF SetSound, FileBegins
  <2> QED BY <1>5, <1>6, <1>7, <2>1, <2>2, <2>5, <2>6 DEF SetSound
<1>8. CASE /\ ~Answered(c) /\ todo' = todo \ {c} /\ pc' = pc
           /\ UNCHANGED <<events, mem, repaired>>
  <2>1. /\ (\A m \in Said : True(m) /\ KnownMessage(m))'
        /\ InMem' = InMem /\ InFile' = InFile /\ InLog' = InLog
    BY <1>2, <1>8, NothingSaid
  <2>2. TypeOK' BY <1>2, <1>8 DEF SetSound, TypeOK, Labels
  <2>3. CommitsInSets' BY <1>2, <1>8, <2>1 DEF SetSound, CommitsInSets, Known, Answers
  <2>4. FileBegins' BY <1>2, <1>8 DEF SetSound, FileBegins
  <2> QED BY <1>2, <1>5, <1>6, <1>8, <2>1, <2>2, <2>3, <2>4 DEF SetSound
<1>9. CASE /\ ~Answered(c) /\ HasDeclaration(mem, c) /\ repaired' = TRUE
           /\ \E ok \in Attempt("message") :
                 /\ Say(Receipt(c, Synthesized(c)), ok)
                 /\ IF ok THEN pc' = "recommitting" /\ UNCHANGED todo
                    ELSE todo' = todo \ {c} /\ UNCHANGED pc
  <2>1. PICK outcome : outcome = Synthesized(c) OBVIOUS
  <2>2. PICK msg : msg = Receipt(c, outcome) OBVIOUS
  <2>3. PICK ok \in BOOLEAN :
           /\ mem' = Append(mem, msg)
           /\ events' = IF ok THEN Append(events, [index |-> Len(mem) + 1, msg |-> msg])
                        ELSE events
           /\ IF ok THEN pc' = "recommitting" /\ UNCHANGED todo
              ELSE todo' = todo \ {c} /\ UNCHANGED pc
    BY <1>9, <2>1, <2>2 DEF Attempt, Say
  <2>4. outcome \in Outcomes /\ True(msg) /\ msg \in Messages
    BY <1>2, <2>1, <2>2, SynthesizedIsTrue, MessageTypes
  <2>5. pc' \in {"recovering", "recommitting"} BY <1>2, <2>3
  <2>6. KnownMessage(msg)'
    <3>1. \E r \in 1..round : c \in Rounds[r]
      BY <1>2, <1>3 DEF SetSound, TracesAreInOrder
    <3> QED BY <1>2, <2>2, <2>4, <2>5, <3>1 DEF KnownMessage, Receipt
  <2>7. round' \in Nat /\ round <= round' BY <1>2, RoundFacts DEF SetSound, TypeOK
  <2>8. /\ (\A m \in Said : True(m) /\ KnownMessage(m))'
        /\ InMem' = InMem \union {msg} /\ InFile' = InFile
        /\ InLog \subseteq InLog'
        /\ ok => msg \in InLog'
        /\ mem' \in Seq(Messages) /\ events' \in Seq(Entry)
        /\ Prefix(json, mem) => Prefix(json', mem')
    BY <1>2, <2>3, <2>4, <2>5, <2>6, <2>7, SomethingSaid DEF InRecovery
  <2>9. TypeOK' BY <1>2, <1>9, <2>3, <2>5, <2>8 DEF SetSound, TypeOK, Labels, Entry
  <2>10. \A d : Answers(InFile \union InLog, d) => Answers(InFile \union InLog, d)'
    BY <2>8 DEF Answers
  <2>11. \A d \in todo' : Answers(InMem', d) => Answers((InFile \union InLog)', d)
    <3>1. ASSUME NEW d \in todo', Answers(InMem', d) PROVE Answers((InFile \union InLog)', d)
      <4>1. CASE d = c
        <5>1. ok BY <2>3, <4>1
        <5>2. msg \in (InFile \union InLog)' /\ msg.role = "tool" /\ msg.id = c
          BY <2>2, <2>8, <5>1 DEF Receipt
        <5> QED BY <4>1, <5>2 DEF Answers
      <4>2. CASE d # c
        <5>1. Answers(InMem, d) BY <2>2, <2>8, <3>1, <4>2 DEF Answers, Receipt
        <5>2. d \in todo BY <2>3
        <5>3. Answers(InFile \union InLog, d)
          BY <1>2, <5>1, <5>2 DEF SetSound, CommitsInSets
        <5> QED BY <2>10, <5>3 DEF Answers
      <4> QED BY <4>1, <4>2
    <3> QED BY <3>1
  <2>12. ASSUME pc' = "recommitting" PROVE Answers((InFile \union InLog)', First(todo'))
    <3>1. ok /\ todo' = todo BY <1>2, <2>3, <2>12
    <3>2. First(todo') = c BY <1>1, <3>1
    <3>3. msg \in (InFile \union InLog)' /\ msg.role = "tool" /\ msg.id = c
      BY <2>2, <2>8, <3>1 DEF Receipt
    <3> QED BY <3>2, <3>3 DEF Answers
  <2>13. /\ \A d : Answers(InMem, d)' <=> Answers(InMem', d)
         /\ \A d : Answers(InFile \union InLog, d)' <=> Answers((InFile \union InLog)', d)
         /\ Answers(InFile \union InLog, First(todo))' <=> Answers((InFile \union InLog)', First(todo'))
    BY DEF Answers
  <2>14. \A d \in Calls : Known(d, "committed")' => Known(d, "committed")
    BY <1>2 DEF Known
  <2>15. CommitsInSets'
    BY <2>5, <2>10, <2>11, <2>12, <2>13, <2>14 DEF SetSound, CommitsInSets
  <2>16. FileBegins' BY <1>2, <2>5, <2>8 DEF SetSound, FileBegins
  <2>17. todo' \subseteq todo BY <2>3
  <2> QED BY <1>5, <1>6, <2>5, <2>8, <2>9, <2>15, <2>16, <2>17 DEF SetSound
<1> QED BY <1>1, <1>2, <1>7, <1>8, <1>9 DEF RecoverCall

LEMMA StartRunKeeps ==
    ASSUME SetSound, StartRun
    PROVE  SetSound'
<1>1. /\ pc = "off" /\ pc' = "repairing" /\ mem' = json /\ runs' \in 0..MaxRuns
      /\ UNCHANGED <<json, events, wal, sidecar, executed, round, todo, stage, repaired>>
  BY MaxRunsAssumption DEF SetSound, TypeOK, StartRun, disk
<1>2. InMem' = InFile /\ InFile' = InFile /\ InLog' = InLog
  BY <1>1 DEF InMem, InFile, InLog
<1>3. Said' \subseteq Said BY <1>2 DEF Said
<1>4. todo = {} /\ stage = NoStages BY <1>1 DEF SetSound, TypeOK
<1>5. Owed' = {} BY <1>1, <1>4 DEF Owed, InStage, NoStages
<1>6. (\A m \in Said : True(m) /\ KnownMessage(m))'
  <2>1. \A m \in Said : True(m)' BY <1>1 DEF SetSound, True
  <2>2. \A m \in Said : KnownMessage(m)' BY <1>1, <1>5 DEF SetSound, KnownMessage
  <2> QED BY <1>3, <2>1, <2>2
<1>7. TypeOK' BY <1>1 DEF SetSound, TypeOK, Labels
<1>8. TracesAreInOrder' BY <1>1 DEF SetSound, TracesAreInOrder, Known
<1>9. StagesAreTrue'
  BY <1>1, <1>4 DEF SetSound, StagesAreTrue, InRound, InStage, NoStages, Known
<1>10. CommitsInSets' BY <1>1, <1>2 DEF SetSound, CommitsInSets, Known, Answers
<1>11. FileBegins'
  <2>1. json \in Seq(Messages) BY DEF SetSound, TypeOK
  <2>2. Prefix(json, json) BY <2>1 DEF Prefix
  <2> QED BY <1>1, <2>2 DEF FileBegins
<1> QED BY <1>6, <1>7, <1>8, <1>9, <1>10, <1>11 DEF SetSound

LEMMA RepairKeeps ==
    ASSUME SetSound, Repair
    PROVE  SetSound'
<1>1. /\ pc = "repairing" /\ pc' = "recovering" /\ mem = json
      /\ mem' = IF Replayable(events) THEN Replay(events) ELSE mem
      /\ todo' = OpenExecutions
      /\ UNCHANGED <<json, events, wal, sidecar, executed, round, stage, repaired, runs>>
  BY DEF SetSound, FileBegins, Repair, disk
<1>2. /\ mem' \in Seq(Messages) /\ Prefix(json, mem') /\ InMem' \subseteq InFile \union InLog
  BY <1>1, RepairShape DEF SetSound
<1>3. InFile' = InFile /\ InLog' = InLog BY <1>1 DEF InFile, InLog
<1>4. Said' \subseteq Said BY <1>2, <1>3 DEF Said
<1>5. (\A m \in Said : True(m) /\ KnownMessage(m))'
  <2>1. \A m \in Said : True(m)' BY <1>1 DEF SetSound, True
  <2>2. \A m \in Said : KnownMessage(m)' BY <1>1 DEF SetSound, KnownMessage
  <2> QED BY <1>4, <2>1, <2>2
<1>6. \A c \in todo' : c \in Calls /\ Known(c, "declared") /\ ~Known(c, "committed")
  BY <1>1 DEF OpenExecutions
<1>7. TypeOK' BY <1>1, <1>2, <1>6 DEF SetSound, TypeOK, Labels
<1>8. TracesAreInOrder' BY <1>1, <1>6 DEF SetSound, TracesAreInOrder, Known
<1>9. StagesAreTrue'
  BY <1>1 DEF SetSound, StagesAreTrue, InRound, InStage, NoStages, Known
<1>10. CommitsInSets'
  <2>1. \A d : Answers(InMem, d)' => Answers(InFile \union InLog, d)'
    BY <1>2, <1>3 DEF Answers
  <2>2. \A d : Answers(InFile \union InLog, d)' <=> Answers(InFile \union InLog, d)
    BY <1>3 DEF Answers
  <2>3. \A d \in Calls : Known(d, "committed")' => Known(d, "committed")
    BY <1>1 DEF Known
  <2> QED BY <1>1, <2>1, <2>2, <2>3 DEF SetSound, CommitsInSets
<1>11. FileBegins' BY <1>1, <1>2 DEF FileBegins
<1> QED BY <1>5, <1>7, <1>8, <1>9, <1>10, <1>11 DEF SetSound

-----------------------------------------------------------------------------
\* Saves, and the end of a run

\* A save, whatever else the step does; only what is owed and where the loop is
\* matter.
LEMMA SomethingSaved ==
    ASSUME SetSound, TrySave \/ UNCHANGED <<json, events>>, Prefix(json, mem),
           UNCHANGED <<wal, executed, round>>,
           pc' \notin InRecovery, pc' # "committing",
           \A m \in Said : m.role = "tool" => m.id \notin Owed',
           InMem' \subseteq InMem
    PROVE  /\ (\A m \in Said : True(m) /\ KnownMessage(m))'
           /\ CommitsInSets'
           /\ json' \in Seq(Messages) /\ events' \in Seq(Entry)
           /\ Prefix(json', mem)
<1>1. /\ json' \in Seq(Messages) /\ events' \in Seq(Entry)
      /\ InFile \subseteq InFile' /\ InFile' \subseteq InFile \union InMem
      /\ InLog \subseteq InLog' /\ InLog' \subseteq InLog \union InMem
      /\ Prefix(json', mem)
  BY TrySaveShape DEF SetSound
<1>2. Said' \subseteq Said BY <1>1 DEF Said
<1>3. \A m \in Said : True(m)' BY DEF SetSound, True
<1>4. \A m \in Said : KnownMessage(m)' BY DEF SetSound, KnownMessage
<1>5. \A d : Answers(InFile \union InLog, d) => Answers(InFile \union InLog, d)'
  BY <1>1 DEF Answers
<1>6. \A d \in Calls : Known(d, "committed")' => Known(d, "committed") BY DEF Known
<1>7. CommitsInSets' BY <1>5, <1>6 DEF SetSound, CommitsInSets, InRecovery
<1> QED BY <1>1, <1>2, <1>3, <1>4, <1>7

LEMMA RecoverSaveKeeps ==
    ASSUME SetSound, RecoverSave
    PROVE  SetSound'
<1>1. /\ pc = "recovering" /\ pc' = "idle" /\ todo = {} /\ repaired' = FALSE
      /\ TrySave \/ UNCHANGED <<json, events>>
      /\ UNCHANGED <<wal, sidecar, executed, mem, round, todo, stage, runs>>
  BY DEF RecoverSave
<1>2. stage = NoStages /\ Prefix(json, mem)
  BY <1>1 DEF SetSound, StagesAreTrue, FileBegins
<1>3. Owed' = {} BY <1>1, <1>2 DEF Owed, InStage, NoStages
<1>4. InMem' \subseteq InMem BY <1>1 DEF InMem
<1>5. /\ (\A m \in Said : True(m) /\ KnownMessage(m))'
      /\ CommitsInSets'
      /\ json' \in Seq(Messages) /\ events' \in Seq(Entry)
      /\ Prefix(json', mem)
  BY <1>1, <1>2, <1>3, <1>4, SomethingSaved DEF InRecovery
<1>6. TypeOK' BY <1>1, <1>5 DEF SetSound, TypeOK, Labels, Entry
<1>7. TracesAreInOrder' BY <1>1 DEF SetSound, TracesAreInOrder, Known
<1>8. StagesAreTrue'
  BY <1>1, <1>2 DEF SetSound, StagesAreTrue, InRound, InStage, NoStages, Known
<1>9. FileBegins' BY <1>1, <1>5 DEF FileBegins
<1> QED BY <1>5, <1>6, <1>7, <1>8, <1>9 DEF SetSound

LEMMA RoundSavedKeeps ==
    ASSUME SetSound, RoundSaved
    PROVE  SetSound'
<1>1. /\ pc = "recording" /\ todo = {} /\ TrySave /\ todo' = InStage({"skipped"})
      /\ pc' = IF todo' = {} THEN "idle" ELSE "skipping"
      /\ stage' = NoStages
      /\ UNCHANGED <<wal, sidecar, executed, mem, round, repaired, runs>>
  BY DEF RoundSaved
<1>2. Prefix(json, mem) BY <1>1 DEF SetSound, FileBegins
<1>3. Owed' \subseteq Owed BY <1>1 DEF Owed, InStage, NoStages
<1>4. \A m \in Said : m.role = "tool" => m.id \notin Owed'
  BY <1>1, <1>3 DEF SetSound, KnownMessage
<1>5. InMem' \subseteq InMem BY <1>1 DEF InMem
<1>6. pc' \notin InRecovery /\ pc' # "committing" BY <1>1 DEF InRecovery
<1>7. /\ (\A m \in Said : True(m) /\ KnownMessage(m))'
      /\ CommitsInSets'
      /\ json' \in Seq(Messages) /\ events' \in Seq(Entry)
      /\ Prefix(json', mem)
  BY <1>1, <1>2, <1>4, <1>5, <1>6, SomethingSaved
<1>8. TypeOK'
  BY <1>1, <1>7 DEF SetSound, TypeOK, Labels, Entry, NoStages, Stages, InStage
<1>9. TracesAreInOrder' BY <1>1 DEF SetSound, TracesAreInOrder, Known
<1>10. StagesAreTrue'
  <2>1. /\ round > 0 /\ todo' \subseteq Rounds[round] /\ todo' \intersect executed = {}
    BY <1>1 DEF SetSound, StagesAreTrue, InRound, InStage
  <2>2. InStage({"skipped", "done"})' = {} BY <1>1 DEF InStage, NoStages
  <2> QED BY <1>1, <2>1, <2>2 DEF StagesAreTrue, InRound, NoStages
<1>11. FileBegins' BY <1>1, <1>7 DEF FileBegins
<1> QED BY <1>7, <1>8, <1>9, <1>10, <1>11 DEF SetSound

LEMMA ForgetShape ==
    ASSUME SetSound, Forget, UNCHANGED <<wal, sidecar, executed, round, runs>>
    PROVE  /\ InMem' = {} /\ Owed' = {} /\ pc' = "off"
           /\ TracesAreInOrder' /\ StagesAreTrue' /\ FileBegins'
           /\ (json' \in Seq(Messages) /\ events' \in Seq(Entry)) => TypeOK'
<1>1. /\ pc' = "off" /\ mem' = << >> /\ todo' = {} /\ stage' = NoStages /\ repaired' = FALSE
  BY DEF Forget
<1>2. InMem' = {} BY <1>1 DEF InMem
<1>3. Owed' = {} BY <1>1 DEF Owed, InStage, NoStages
<1>4. TracesAreInOrder' BY <1>1 DEF SetSound, TracesAreInOrder, Known
<1>5. StagesAreTrue' BY <1>1 DEF StagesAreTrue, InRound, InStage, NoStages
<1>6. FileBegins' BY <1>1 DEF FileBegins
<1>7. (json' \in Seq(Messages) /\ events' \in Seq(Entry)) => TypeOK'
  <2>1. NoStages \in [Calls -> Stages] BY DEF NoStages, Stages
  <2>2. mem' \in Seq(Messages) BY <1>1
  <2> QED BY <1>1, <2>1, <2>2 DEF SetSound, TypeOK, Entry, Labels
<1> QED BY <1>1, <1>2, <1>3, <1>4, <1>5, <1>6, <1>7

LEMMA FinalSaveKeeps ==
    ASSUME SetSound, FinalSave
    PROVE  SetSound'
<1>1. /\ pc = "ending" /\ TrySave /\ Forget
      /\ UNCHANGED <<wal, sidecar, executed, round, runs>>
  BY DEF FinalSave
<1>2. Prefix(json, mem) BY <1>1 DEF SetSound, FileBegins
<1>3. /\ InMem' = {} /\ Owed' = {} /\ pc' = "off"
      /\ TracesAreInOrder' /\ StagesAreTrue' /\ FileBegins'
      /\ (json' \in Seq(Messages) /\ events' \in Seq(Entry)) => TypeOK'
  BY <1>1, ForgetShape
<1>4. /\ (\A m \in Said : True(m) /\ KnownMessage(m))'
      /\ CommitsInSets'
      /\ json' \in Seq(Messages) /\ events' \in Seq(Entry)
  BY <1>1, <1>2, <1>3, SomethingSaved DEF InRecovery
<1> QED BY <1>3, <1>4 DEF SetSound

LEMMA CrashKeeps ==
    ASSUME SetSound, Crash
    PROVE  SetSound'
<1>1. Forget /\ UNCHANGED <<json, events, wal, sidecar, executed, round, runs>>
  BY DEF Crash, disk
<1>2. /\ InMem' = {} /\ Owed' = {} /\ pc' = "off"
      /\ TracesAreInOrder' /\ StagesAreTrue' /\ FileBegins'
      /\ (json' \in Seq(Messages) /\ events' \in Seq(Entry)) => TypeOK'
  BY <1>1, ForgetShape
<1>3. json' \in Seq(Messages) /\ events' \in Seq(Entry)
  BY <1>1 DEF SetSound, TypeOK, Entry
<1>4. InFile' = InFile /\ InLog' = InLog BY <1>1 DEF InFile, InLog
<1>5. Said' \subseteq Said BY <1>2, <1>4 DEF Said
<1>6. (\A m \in Said : True(m) /\ KnownMessage(m))'
  <2>1. \A m \in Said : True(m)' BY <1>1 DEF SetSound, True
  <2>2. \A m \in Said : KnownMessage(m)' BY <1>1, <1>2 DEF SetSound, KnownMessage
  <2> QED BY <1>5, <2>1, <2>2
<1>7. CommitsInSets' BY <1>1, <1>2, <1>4 DEF SetSound, CommitsInSets, Known, Answers
<1> QED BY <1>2, <1>3, <1>6, <1>7 DEF SetSound

-----------------------------------------------------------------------------
\* The invariant

LEMMA InitIsSound ==
    ASSUME Init
    PROVE  SetSound
<1>1. /\ json = << >> /\ events = << >> /\ wal = {} /\ sidecar = {} /\ executed = {}
      /\ pc = "off" /\ mem = << >> /\ round = 0 /\ todo = {} /\ stage = NoStages
      /\ repaired = FALSE /\ runs = 0
  BY DEF Init
<1>2. InMem = {} /\ InFile = {} /\ InLog = {} BY <1>1 DEF InMem, InFile, InLog
<1>3. TypeOK
  <2>1. 0 \in 0..Len(Rounds) /\ 0 \in 0..MaxRuns BY RoundFacts, MaxRunsAssumption
  <2>2. NoStages \in [Calls -> Stages] BY DEF NoStages, Stages
  <2>3. mem \in Seq(Messages) /\ json \in Seq(Messages) /\ events \in Seq(Entry)
    BY <1>1
  <2> QED BY <1>1, <2>1, <2>2, <2>3 DEF TypeOK, Entry, Labels
<1>4. TracesAreInOrder /\ StagesAreTrue
  BY <1>1 DEF TracesAreInOrder, StagesAreTrue, Known, InRound, InStage, NoStages
<1>5. CommitsInSets /\ FileBegins BY <1>1 DEF CommitsInSets, FileBegins, Known
<1> QED BY <1>2, <1>3, <1>4, <1>5 DEF SetSound, Said

LEMMA StepKeeps ==
    ASSUME SetSound, [Next]_vars
    PROVE  SetSound'
<1>1. CASE StartRun BY <1>1, StartRunKeeps
<1>2. CASE Repair BY <1>2, RepairKeeps
<1>3. CASE RecoverCall BY <1>3, RecoverCallKeeps
<1>4. CASE RecoverSave BY <1>4, RecoverSaveKeeps
<1>5. CASE DeclareRound BY <1>5, DeclareRoundKeeps
<1>6. CASE Declared BY <1>6, DeclaredKeeps
<1>7. CASE Cancel BY <1>7, CancelKeeps
<1>8. CASE SynthesizeCancelled BY <1>8, SynthesizeCancelledKeeps
<1>9. CASE Started BY <1>9, StartedKeeps
<1>10. CASE \E c \in Calls : Execute(c) \/ StageResult(c) \/ Finished(c)
  BY <1>10, ExecuteKeeps, StageResultKeeps, FinishedKeeps
<1>11. CASE GapSkip BY <1>11, GapSkipKeeps
<1>12. CASE ExecutionEnds BY <1>12, ExecutionEndsKeeps
<1>13. CASE RecordReceipt BY <1>13, RecordReceiptKeeps
<1>14. CASE ReceiptCommitted BY <1>14, ReceiptCommittedKeeps
<1>15. CASE RoundSaved BY <1>15, RoundSavedKeeps
<1>16. CASE SynthesizeSkipped BY <1>16, SynthesizeSkippedKeeps
<1>17. CASE LoopEnds BY <1>17, LoopEndsKeeps
<1>18. CASE FinalSave BY <1>18, FinalSaveKeeps
<1>19. CASE Crash BY <1>19, CrashKeeps
<1>20. CASE UNCHANGED vars
  <2>1. InMem' = InMem /\ InFile' = InFile /\ InLog' = InLog /\ Owed' = Owed
    BY <1>20 DEF vars, InMem, InFile, InLog, Owed, InStage
  <2>2. Said' = Said BY <2>1 DEF Said
  <2>3. (\A m \in Said : True(m) /\ KnownMessage(m))'
    BY <1>20, <2>1, <2>2 DEF SetSound, True, KnownMessage, vars
  <2>4. TypeOK' /\ TracesAreInOrder'
    BY <1>20 DEF SetSound, TypeOK, TracesAreInOrder, Known, vars
  <2>5. StagesAreTrue' BY <1>20 DEF SetSound, StagesAreTrue, Known, InStage, vars
  <2>6. CommitsInSets' BY <1>20, <2>1 DEF SetSound, CommitsInSets, Known, Answers, vars
  <2>7. FileBegins' BY <1>20 DEF SetSound, FileBegins, vars
  <2> QED BY <2>3, <2>4, <2>5, <2>6, <2>7 DEF SetSound
<1> QED
  BY <1>1, <1>2, <1>3, <1>4, <1>5, <1>6, <1>7, <1>8, <1>9, <1>10, <1>11, <1>12, <1>13,
     <1>14, <1>15, <1>16, <1>17, <1>18, <1>19, <1>20 DEF Next

\* What the loop knows of its calls is so in the world and in the journal, no
\* copy of the transcript says of a call what did not happen, and every settled
\* execution is told: after any crashes, and whatever writes fail.
THEOREM JournalStaysSound == Spec => []JournalIsSound
<1>1. Init => SetSound BY InitIsSound
<1>2. SetSound /\ [Next]_vars => SetSound' BY StepKeeps
<1>3. SetSound => JournalIsSound BY SetForm
<1> QED BY <1>1, <1>2, <1>3, PTL DEF Spec

-----------------------------------------------------------------------------
\* What a step adds

\* The log and the file are only ever extended, and nothing runs but by Execute.
LEMMA CopiesGrow ==
    ASSUME SetSound, [Next]_vars
    PROVE  /\ Prefix(events, events') /\ Prefix(json, json')
           /\ executed' = executed \/ (events' = events /\ \E c \in Calls : Execute(c))
<1>1. mem \in Seq(Messages) /\ json \in Seq(Messages) /\ events \in Seq(Entry)
  BY DEF SetSound, TypeOK, Entry
<1>2. Prefix(events, events) /\ Prefix(json, json) BY <1>1 DEF Prefix
<1>3. ASSUME NEW msg \in Messages, NEW ok \in BOOLEAN, Say(msg, ok)
      PROVE  Prefix(events, events')
  BY <1>3, SayShape DEF SetSound, Say
<1>4. /\ \A r \in Nat : Declaration(r) \in Messages
      /\ \A c \in Calls, outcome \in Outcomes : Receipt(c, outcome) \in Messages
  BY MessageTypes, RoundFacts
<1>5. CASE DeclareRound
  <2>1. PICK msg : msg = Declaration(round + 1) OBVIOUS
  <2>2. msg \in Messages BY <2>1, <1>4, RoundFacts DEF SetSound, TypeOK
  <2>3. \E ok \in BOOLEAN : Say(msg, ok) BY <1>5, <2>1 DEF DeclareRound, Attempt, Say
  <2> QED BY <1>2, <1>3, <1>5, <2>2, <2>3 DEF DeclareRound
<1>6. CASE SynthesizeCancelled \/ SynthesizeSkipped \/ RecordReceipt
  <2>1. PICK c : c = First(todo) OBVIOUS
  <2>2. c \in Calls
    <3>1. todo # {}
      BY <1>6 DEF SetSound, TypeOK, SynthesizeCancelled, SynthesizeSkipped, RecordReceipt
    <3> QED BY <2>1, <3>1, FirstIsDue DEF SetSound
  <2>3. PICK outcome \in Outcomes, ok \in BOOLEAN :
           /\ mem' = Append(mem, Receipt(c, outcome))
           /\ events' = IF ok THEN Append(events, [index |-> Len(mem) + 1,
                                                   msg |-> Receipt(c, outcome)])
                        ELSE events
    BY <1>6, <2>1
       DEF SynthesizeCancelled, SynthesizeSkipped, RecordReceipt, Attempt, Say, Outcomes, Denials
  <2>4. Prefix(events, events') BY <1>4, <2>2, <2>3, SayShape DEF SetSound
  <2> QED BY <1>2, <1>6, <2>4 DEF SynthesizeCancelled, SynthesizeSkipped, RecordReceipt
<1>7. CASE RecoverCall
  <2>1. PICK c : c = First(todo) OBVIOUS
  <2>2. c \in Calls BY <1>7, <2>1, FirstIsDue DEF SetSound, RecoverCall
  <2>3. PICK outcome : outcome = Synthesized(c) OBVIOUS
  <2>4. outcome \in Outcomes BY <2>2, <2>3, SynthesizedIsTrue
  <2>5. \/ events' = events
        \/ \E ok \in BOOLEAN :
              /\ mem' = Append(mem, Receipt(c, outcome))
              /\ events' = IF ok THEN Append(events, [index |-> Len(mem) + 1,
                                                      msg |-> Receipt(c, outcome)])
                           ELSE events
    BY <1>7, <2>1, <2>3 DEF RecoverCall, Attempt, Say
  <2>6. Prefix(events, events') BY <1>2, <1>4, <2>2, <2>4, <2>5, SayShape DEF SetSound
  <2> QED BY <1>2, <1>7, <2>6 DEF RecoverCall
<1>8. CASE RecoverSave \/ RoundSaved \/ FinalSave
  <2>1. /\ TrySave \/ UNCHANGED <<json, events>>
        /\ executed' = executed /\ pc # "off"
    BY <1>8 DEF RecoverSave, RoundSaved, FinalSave
  <2>2. Prefix(json, mem) BY <2>1 DEF SetSound, FileBegins
  <2> QED BY <2>1, <2>2, TrySaveShape DEF SetSound
<1>9. CASE \E c \in Calls : Execute(c)
  <2>1. UNCHANGED <<json, events>> BY <1>9 DEF Execute, disk
  <2> QED BY <1>2, <1>9, <2>1
<1>10. CASE \/ StartRun \/ Repair \/ Declared \/ Cancel \/ Started \/ GapSkip
            \/ ExecutionEnds \/ ReceiptCommitted \/ LoopEnds \/ Crash
            \/ \E c \in Calls : StageResult(c) \/ Finished(c)
            \/ UNCHANGED vars
  <2>1. UNCHANGED <<json, events, executed>>
    BY <1>10 DEF StartRun, Repair, Declared, Cancel, Started, GapSkip, ExecutionEnds,
       ReceiptCommitted, LoopEnds, Crash, StageResult, Finished, vars, disk
  <2> QED BY <1>2, <2>1
<1> QED BY <1>5, <1>6, <1>7, <1>8, <1>9, <1>10 DEF Next

\* No save drops or rewrites a message that an earlier one wrote.
THEOREM FileIsOnlyExtended == Spec => FileNeverForgets
<1>1. ASSUME SetSound, [Next]_vars, SetSound'
      PROVE  Len(json) <= Len(json') /\ SubSeq(json', 1, Len(json)) = json
  <2>1. json \in Seq(Messages) /\ json' \in Seq(Messages) BY <1>1 DEF SetSound, TypeOK
  <2>2. Prefix(json, json') BY <1>1, CopiesGrow
  <2> QED BY <2>1, <2>2, PrefixForm
<1>2. SetSound /\ [Next]_vars /\ SetSound'
        => [Len(json) <= Len(json') /\ SubSeq(json', 1, Len(json)) = json]_vars
  BY <1>1
<1>3. Init => SetSound BY InitIsSound
<1>4. SetSound /\ [Next]_vars => SetSound' BY StepKeeps
<1> QED BY <1>2, <1>3, <1>4, PTL DEF Spec, FileNeverForgets

\* The one message a step may add is the declaration of a round, or the receipt
\* of a call: the exact one if the call's finished event is durable.
News(msg) ==
    \/ msg \in Said
    \/ msg.role = "assistant"
    \/ \E c \in Calls, outcome \in Outcomes :
          /\ msg = Receipt(c, outcome)
          /\ Known(c, "finished") => outcome = "result"

LEMMA OneMessageAtATime ==
    ASSUME SetSound, ExactResultSurvives, [Next]_vars
    PROVE  Said' \subseteq Said \/ \E msg : Said' \subseteq Said \union {msg} /\ News(msg)
<1>1. ASSUME NEW msg \in Messages, NEW ok \in BOOLEAN, UNCHANGED json,
             mem' = Append(mem, msg),
             events' = IF ok THEN Append(events, [index |-> Len(mem) + 1, msg |-> msg])
                       ELSE events
      PROVE  Said' \subseteq Said \union {msg}
  BY <1>1, SayShape DEF SetSound, Said, InFile
<1>2. /\ \A r \in Nat : Declaration(r) \in Messages
      /\ \A c \in Calls, outcome \in Outcomes : Receipt(c, outcome) \in Messages
  BY MessageTypes, RoundFacts
<1>3. CASE DeclareRound
  <2>1. PICK msg : msg = Declaration(round + 1) OBVIOUS
  <2>2. msg \in Messages BY <2>1, <1>2, RoundFacts DEF SetSound, TypeOK
  <2>3. UNCHANGED json /\ \E ok \in BOOLEAN :
             /\ mem' = Append(mem, msg)
             /\ events' = IF ok THEN Append(events, [index |-> Len(mem) + 1, msg |-> msg])
                       ELSE events
    BY <1>3, <2>1 DEF DeclareRound, Attempt, Say
  <2>4. News(msg) BY <2>1 DEF News, Declaration
  <2> QED BY <1>1, <2>2, <2>3, <2>4
<1>4. CASE SynthesizeCancelled \/ SynthesizeSkipped \/ RecordReceipt
  <2>1. PICK c : c = First(todo) OBVIOUS
  <2>2. /\ c \in todo /\ c \in Calls /\ UNCHANGED json
        /\ pc \in {"cancelling", "skipping", "recording"}
    <3>1. /\ todo # {} /\ UNCHANGED json
          /\ pc \in {"cancelling", "skipping", "recording"}
      BY <1>4 DEF SetSound, TypeOK, SynthesizeCancelled, SynthesizeSkipped, RecordReceipt
    <3> QED BY <2>1, <3>1, FirstIsDue DEF SetSound
  <2>3. PICK outcome \in Outcomes, ok \in BOOLEAN :
           /\ mem' = Append(mem, Receipt(c, outcome))
           /\ events' = IF ok THEN Append(events, [index |-> Len(mem) + 1,
                                                   msg |-> Receipt(c, outcome)])
                        ELSE events
           /\ pc = "recording" /\ stage[c] = "done" => outcome = "result"
    BY <1>4, <2>1
       DEF SynthesizeCancelled, SynthesizeSkipped, RecordReceipt, Attempt, Say, Outcomes, Denials
  <2>4. c \in executed => pc = "recording" /\ stage[c] = "done"
    BY <2>2 DEF SetSound, StagesAreTrue, InRound, InStage
  <2>5. Known(c, "finished") => outcome = "result"
    BY <2>2, <2>3, <2>4 DEF SetSound, TracesAreInOrder
  <2>6. PICK msg : msg = Receipt(c, outcome) OBVIOUS
  <2>7. News(msg) BY <2>2, <2>5, <2>6 DEF News
  <2> QED BY <1>1, <1>2, <2>2, <2>3, <2>6, <2>7
<1>5. CASE RecoverCall
  <2>1. PICK c : c = First(todo) OBVIOUS
  <2>2. c \in todo /\ c \in Calls /\ UNCHANGED json /\ pc = "recovering"
    BY <1>5, <2>1, FirstIsDue DEF SetSound, RecoverCall
  <2>3. PICK outcome : outcome = Synthesized(c) OBVIOUS
  <2>4. PICK msg : msg = Receipt(c, outcome) OBVIOUS
  <2>5. outcome \in Outcomes /\ msg \in Messages
    BY <1>2, <2>2, <2>3, <2>4, SynthesizedIsTrue
  <2>6. Known(c, "finished") => outcome = "result"
    BY <2>2, <2>3 DEF SetSound, TracesAreInOrder, ExactResultSurvives, Synthesized
  <2>7. \/ UNCHANGED <<json, events, mem>>
        \/ \E ok \in BOOLEAN :
              /\ mem' = Append(mem, msg)
              /\ events' = IF ok THEN Append(events, [index |-> Len(mem) + 1, msg |-> msg])
                           ELSE events
    BY <1>5, <2>1, <2>2, <2>3, <2>4 DEF RecoverCall, Attempt, Say
  <2>8. UNCHANGED <<json, events, mem>> => Said' = Said
    BY DEF Said, InMem, InFile, InLog
  <2>9. News(msg) BY <2>2, <2>4, <2>5, <2>6 DEF News
  <2> QED BY <1>1, <2>2, <2>5, <2>7, <2>8, <2>9
<1>6. CASE RecoverSave \/ RoundSaved \/ FinalSave
  <2>1. /\ TrySave \/ UNCHANGED <<json, events>>
        /\ mem' = mem \/ mem' = << >>
        /\ pc # "off"
    BY <1>6 DEF RecoverSave, RoundSaved, FinalSave, Forget
  <2>2. Prefix(json, mem) BY <2>1 DEF SetSound, FileBegins
  <2>3. InMem' \subseteq InMem BY <2>1 DEF InMem
  <2> QED BY <2>1, <2>2, <2>3, TrySaveShape DEF SetSound, Said
<1>7. CASE Repair
  <2>1. /\ UNCHANGED <<json, events>> /\ mem = json
        /\ mem' = IF Replayable(events) THEN Replay(events) ELSE mem
    BY <1>7 DEF SetSound, FileBegins, Repair, disk
  <2>2. InMem' \subseteq InFile \union InLog BY <2>1, RepairShape DEF SetSound
  <2> QED BY <2>1, <2>2 DEF Said, InFile, InLog
<1>8. CASE StartRun \/ Crash
  <2>1. UNCHANGED <<json, events>> /\ (mem' = json \/ mem' = << >>)
    BY <1>8 DEF StartRun, Crash, Forget, disk
  <2> QED BY <2>1 DEF Said, InMem, InFile, InLog
<1>9. CASE \/ Declared \/ Cancel \/ Started \/ GapSkip \/ ExecutionEnds
           \/ ReceiptCommitted \/ LoopEnds \/ UNCHANGED vars
           \/ \E c \in Calls : Execute(c) \/ StageResult(c) \/ Finished(c)
  <2>1. UNCHANGED <<json, events, mem>>
    BY <1>9 DEF Declared, Cancel, Started, GapSkip, ExecutionEnds, Execute,
       ReceiptCommitted, LoopEnds, StageResult, Finished, vars, disk
  <2> QED BY <2>1 DEF Said, InMem, InFile, InLog
<1> QED BY <1>3, <1>4, <1>5, <1>6, <1>7, <1>8, <1>9 DEF Next

\* What the journal and the sidecar lose and gain.
LEMMA ResultsAreKept ==
    ASSUME SetSound, [Next]_vars, NEW c \in Calls
    PROVE  /\ (c \in sidecar \/ Known(c, "committed"))
                => c \in sidecar' \/ Known(c, "committed")'
           /\ Known(c, "finished")' => Known(c, "finished") \/ Finished(c)
           /\ Known(c, "committed") => Known(c, "committed")'
<1>1. CASE ReceiptCommitted
  <2>1. PICK d : d = First(todo) OBVIOUS
  <2>2. PICK ok \in BOOLEAN :
          /\ wal' = IF ok THEN wal \union {<<"committed", d>>} ELSE wal
          /\ sidecar' = IF ok THEN sidecar \ {d} ELSE sidecar
    BY <1>1, <2>1 DEF ReceiptCommitted, Attempt, Note, Unlinked
  <2> QED BY <2>2 DEF Known
<1>2. CASE Declared \/ Started
  <2>1. PICK d : d = First(todo) OBVIOUS
  <2>2. PICK ok \in BOOLEAN, kind \in {"declared", "started"} :
          wal' = IF ok THEN wal \union {<<kind, d>>} ELSE wal
    BY <1>2, <2>1 DEF Declared, Started, Attempt, Note
  <2>3. sidecar' = sidecar BY <1>2 DEF Declared, Started
  <2> QED BY <2>2, <2>3 DEF Known
<1>3. CASE \E d \in Calls : Finished(d)
  <2>1. PICK d \in Calls : Finished(d) BY <1>3
  <2>2. PICK ok \in BOOLEAN : wal' = IF ok THEN wal \union {<<"finished", d>>} ELSE wal
    BY <2>1 DEF Finished, Attempt, Note
  <2>3. sidecar' = sidecar BY <2>1 DEF Finished
  <2> QED BY <2>1, <2>2, <2>3 DEF Known
<1>4. CASE \E d \in Calls : StageResult(d)
  <2>1. wal' = wal /\ sidecar \subseteq sidecar' BY <1>4 DEF StageResult, Attempt
  <2> QED BY <2>1 DEF Known
<1>5. CASE \/ StartRun \/ Repair \/ RecoverCall \/ RecoverSave \/ DeclareRound \/ Cancel
           \/ SynthesizeCancelled \/ GapSkip \/ ExecutionEnds \/ RecordReceipt
           \/ RoundSaved \/ SynthesizeSkipped \/ LoopEnds \/ FinalSave \/ Crash
           \/ UNCHANGED vars \/ \E d \in Calls : Execute(d)
  <2>1. wal' = wal /\ sidecar' = sidecar
    BY <1>5 DEF StartRun, Repair, RecoverCall, RecoverSave, DeclareRound, Cancel,
       SynthesizeCancelled, GapSkip, ExecutionEnds, RecordReceipt, RoundSaved,
       SynthesizeSkipped, LoopEnds, FinalSave, Crash, Execute, vars, disk
  <2> QED BY <2>1 DEF Known
<1> QED BY <1>1, <1>2, <1>3, <1>4, <1>5 DEF Next

ExactInSets ==
    \A c \in Calls : Known(c, "finished") =>
        /\ c \in sidecar \/ Known(c, "committed")
        /\ \A m \in Said : m.role = "tool" /\ m.id = c => m.says = "result"

LEMMA ExactForm ==
    /\ ExactResultSurvives <=> ExactInSets
    /\ ExactResultSurvives' <=> ExactInSets'
<1>1. ExactResultSurvives <=> ExactInSets
  BY DEF ExactResultSurvives, ExactInSets, Transcripts, Replay, Said, InMem, InFile, InLog
<1>2. ExactResultSurvives' <=> ExactInSets'
  BY DEF ExactResultSurvives, ExactInSets, Transcripts, Replay, Said, InMem, InFile, InLog, Known
<1> QED BY <1>1, <1>2

LEMMA ExactStaysExact ==
    ASSUME SetSound, ExactInSets, [Next]_vars
    PROVE  ExactInSets'
<1>1. ASSUME NEW c \in Calls, Known(c, "finished")'
      PROVE  /\ (c \in sidecar \/ Known(c, "committed"))'
             /\ \A m \in Said : m.role = "tool" /\ m.id = c => m.says = "result"
  <2>1. CASE Known(c, "finished")
    BY <2>1, ResultsAreKept DEF ExactInSets
  <2>2. CASE Finished(c)
    <3>1. c \in sidecar /\ c \in Owed /\ pc = "executing" /\ sidecar' = sidecar
      BY <2>2 DEF Finished, SetSound, StagesAreTrue, Owed
    <3>2. \A m \in Said : m.role = "tool" => m.id # c
      BY <3>1 DEF SetSound, KnownMessage
    <3> QED BY <3>1, <3>2
  <2> QED BY <1>1, <2>1, <2>2, ResultsAreKept
<1>2. ASSUME NEW c \in Calls, Known(c, "finished")', NEW m \in Said',
             m.role = "tool", m.id = c
      PROVE  m.says = "result"
  <2>1. CASE m \in Said BY <1>1, <1>2, <2>1
  <2>2. CASE m \notin Said
    <3>1. PICK msg : m = msg /\ News(msg)
      BY <2>2, ExactForm, OneMessageAtATime
    <3>2. PICK d \in Calls, outcome \in Outcomes :
             msg = Receipt(d, outcome) /\ (Known(d, "finished") => outcome = "result")
      BY <1>2, <2>2, <3>1 DEF News
    <3>3. d = c /\ m.says = outcome BY <1>2, <3>1, <3>2 DEF Receipt
    <3>4. CASE Known(c, "finished") BY <3>2, <3>3, <3>4
    <3>5. CASE Finished(c)
      <4>1. UNCHANGED <<json, events, mem>> BY <3>5 DEF Finished
      <4>2. Said' = Said BY <4>1 DEF Said, InMem, InFile, InLog
      <4> QED BY <2>2, <4>2
    <3> QED BY <1>2, <3>4, <3>5, ResultsAreKept
  <2> QED BY <2>1, <2>2
<1> QED BY <1>1, <1>2 DEF ExactInSets

\* Once the finished event of a call is durable, its exact result stays
\* available until it is settled, and nothing else is ever told of it.
THEOREM ExactResultsSurvive == Spec => []ExactResultSurvives
<1>1. Init => SetSound /\ ExactInSets
  BY InitIsSound DEF Init, ExactInSets, Known
<1>2. SetSound /\ ExactInSets /\ [Next]_vars => (SetSound /\ ExactInSets)'
  BY StepKeeps, ExactStaysExact
<1>3. ExactInSets => ExactResultSurvives BY ExactForm
<1> QED BY <1>1, <1>2, <1>3, PTL DEF Spec

-----------------------------------------------------------------------------
\* The refinement

\* Where the durable log answers a call.
ToldAt(c) == {i \in DOMAIN events : events[i].msg.role = "tool" /\ events[i].msg.id = c}

LEMMA ToldIsFirst ==
    ASSUME SetSound, NEW c
    PROVE  /\ ToldAt(c) = {} => FirstTold(c) = "untold"
           /\ ToldAt(c) # {} =>
                /\ FirstTold(c) = events[First(ToldAt(c))].msg.says
                /\ FirstTold(c) # "untold"
                /\ First(ToldAt(c)) \in ToldAt(c)
                /\ \A i \in ToldAt(c) : First(ToldAt(c)) <= i
<1>1. FirstTold(c) = IF ToldAt(c) = {} THEN "untold" ELSE events[First(ToldAt(c))].msg.says
  BY DEF FirstTold, ToldAt
<1>2. ASSUME ToldAt(c) # {}
      PROVE  /\ First(ToldAt(c)) \in ToldAt(c)
             /\ \A i \in ToldAt(c) : First(ToldAt(c)) <= i
  <2>1. events \in Seq(Entry) BY DEF SetSound, TypeOK, Entry
  <2>2. ToldAt(c) \in SUBSET Nat BY <2>1 DEF ToldAt
  <2> QED BY <1>2, <2>2, FirstIsLeast
<1>3. ASSUME NEW i \in ToldAt(c) PROVE events[i].msg.says # "untold"
  <2>1. events[i].msg \in Said /\ events[i].msg.role = "tool"
    BY DEF ToldAt, Said, InLog
  <2>2. events[i].msg.says \in Outcomes BY <2>1 DEF SetSound, KnownMessage
  <2> QED BY <2>2 DEF Outcomes, Denials
<1> QED BY <1>1, <1>2, <1>3

\* What was told first stays so, and what is told now is in the log.
LEMMA FirstToldStays ==
    ASSUME SetSound, SetSound', Prefix(events, events'), NEW c
    PROVE  /\ FirstTold(c) # "untold" => FirstTold(c)' = FirstTold(c)
           /\ FirstTold(c)' # "untold" =>
                \E m \in Said' : m.role = "tool" /\ m.id = c /\ m.says = FirstTold(c)'
<1> DEFINE T == ToldAt(c)
           U == ToldAt(c)'
<1>1. events \in Seq(Entry) /\ events' \in Seq(Entry) BY DEF SetSound, TypeOK, Entry
<1>2. /\ DOMAIN events = 1..Len(events) /\ DOMAIN events' = 1..Len(events')
      /\ Len(events) \in Nat /\ Len(events') \in Nat /\ Len(events) <= Len(events')
      /\ \A i \in 1..Len(events) : events'[i] = events[i]
  BY <1>1 DEF Prefix
<1>3. T \subseteq U /\ \A i \in U : i \in Nat /\ (i <= Len(events) => i \in T)
  BY <1>2 DEF ToldAt
<1>4. /\ T = {} => FirstTold(c) = "untold"
      /\ T # {} => /\ FirstTold(c) = events[First(T)].msg.says
                   /\ First(T) \in T
                   /\ \A i \in T : First(T) <= i
  BY ToldIsFirst
<1>5. FirstTold(c)' = IF U = {} THEN "untold" ELSE events'[First(U)].msg.says
  BY DEF FirstTold, ToldAt
<1>6. ASSUME U # {} PROVE First(U) \in U /\ \A i \in U : First(U) <= i
  <2>1. U \in SUBSET Nat BY <1>3
  <2> HIDE DEF U
  <2> QED BY <1>6, <2>1, FirstIsLeast
<1>7. ASSUME FirstTold(c) # "untold" PROVE FirstTold(c)' = FirstTold(c)
  <2>1. T # {} /\ U # {} BY <1>3, <1>4, <1>7
  <2>2. First(T) \in 1..Len(events) BY <1>2, <1>4, <2>1 DEF ToldAt
  <2>3. First(T) \in U /\ First(U) <= First(T) /\ First(U) \in Nat /\ First(U) <= Len(events)
    <3> HIDE DEF T, U
    <3> QED BY <1>2, <1>3, <1>4, <1>6, <2>1, <2>2
  <2>4. First(U) \in T /\ First(T) <= First(U)
    <3> HIDE DEF T, U
    <3> QED BY <1>3, <1>4, <1>6, <2>1, <2>3
  <2>5. First(U) = First(T) BY <2>2, <2>3, <2>4
  <2> HIDE DEF T, U
  <2> QED BY <1>2, <1>4, <1>5, <2>1, <2>2, <2>5
<1>8. ASSUME FirstTold(c)' # "untold"
      PROVE  \E m \in Said' : m.role = "tool" /\ m.id = c /\ m.says = FirstTold(c)'
  <2>1. U # {} /\ FirstTold(c)' = events'[First(U)].msg.says BY <1>5, <1>8
  <2>2. First(U) \in U BY <1>6, <2>1
  <2>3. PICK i \in U : i = First(U) BY <2>2
  <2>4. /\ i \in DOMAIN events' /\ events'[i].msg.role = "tool" /\ events'[i].msg.id = c
        /\ events'[i].msg.says = FirstTold(c)'
    BY <2>1, <2>3 DEF ToldAt
  <2>5. events'[i].msg \in Said' BY <2>4 DEF Said, InLog
  <2> QED BY <2>4, <2>5
<1> QED BY <1>7, <1>8

\* A call that is about to run has not run, and nothing was told of it.
LEMMA RunsAreNew ==
    ASSUME SetSound, NEW c \in Calls, Execute(c)
    PROVE  c \notin executed /\ executed' = executed \union {c} /\ FirstTold(c) = "untold"
<1>1. c \notin executed /\ executed' = executed \union {c}
  BY DEF SetSound, StagesAreTrue, Execute, InRound, InStage
<1>2. c \in Owed /\ pc = "executing"
  BY DEF SetSound, StagesAreTrue, Execute, Owed
<1>3. \A m \in Said : m.role = "tool" => m.id # c
  BY <1>2 DEF SetSound, KnownMessage
<1>4. ToldAt(c) = {} BY <1>3 DEF ToldAt, Said, InLog
<1> QED BY <1>1, <1>4, ToldIsFirst

\* The journal and the loop around it implement the ledger: a call runs at most
\* once, never after its outcome was told, and what is told agrees with what
\* happened.
THEOREM JournalImplementsLedger == Spec => KeepsLedger
<1> DEFINE Told1 == [c \in Calls |-> FirstTold(c)]
<1>1. ASSUME Init PROVE Ledger!LedgerInit
  <2>1. SetSound BY <1>1, InitIsSound
  <2>2. \A c \in Calls : ToldAt(c) = {} BY <1>1 DEF Init, ToldAt
  <2>3. \A c \in Calls : FirstTold(c) = "untold" BY <2>1, <2>2, ToldIsFirst
  <2> QED BY <1>1, <2>3 DEF Init, Ledger!LedgerInit
<1>2. ASSUME SetSound, SetSound', [Next]_vars PROVE [Ledger!LedgerNext]_(Ledger!ledger)
  <2>1. /\ Prefix(events, events')
        /\ executed' = executed \/ (events' = events /\ \E c \in Calls : Execute(c))
    BY <1>2, CopiesGrow
  <2>2. Told1' = [c \in Calls |-> FirstTold(c)'] OBVIOUS
  <2>3. CASE executed' = executed
    <3>1. ASSUME NEW c \in Calls, FirstTold(c)' # FirstTold(c)
          PROVE  FirstTold(c) = "untold" /\ Ledger!Agrees(c, FirstTold(c)')
      <4>1. FirstTold(c) = "untold" BY <1>2, <2>1, <3>1, FirstToldStays
      <4>2. PICK m \in Said' : m.role = "tool" /\ m.id = c /\ m.says = FirstTold(c)'
        BY <1>2, <2>1, <3>1, <4>1, FirstToldStays
      <4>3. True(m)' BY <1>2 DEF SetSound
      <4> QED BY <2>3, <4>1, <4>2, <4>3 DEF True, Ledger!Agrees
    <3>2. CASE Told1' = Told1 BY <2>3, <3>2 DEF Ledger!ledger
    <3>3. CASE Told1' # Told1
      <4>1. DOMAIN Told1' = DOMAIN Told1 BY <2>2
      <4>2. \A c \in Calls : Told1'[c] # Told1[c] =>
               Told1[c] = "untold" /\ Ledger!Agrees(c, Told1'[c])
        BY <2>2, <3>1
      <4>3. Ledger!Tell BY <2>3, <3>3, <4>1, <4>2 DEF Ledger!Tell
      <4> QED BY <4>3 DEF Ledger!LedgerNext
    <3> QED BY <3>2, <3>3
  <2>4. CASE events' = events /\ \E c \in Calls : Execute(c)
    <3>1. PICK c \in Calls : Execute(c) BY <2>4
    <3>2. c \notin executed /\ executed' = executed \union {c} /\ FirstTold(c) = "untold"
      BY <1>2, <3>1, RunsAreNew
    <3>3. \A d \in Calls : FirstTold(d)' = FirstTold(d) BY <2>4 DEF FirstTold
    <3>4. Told1' = Told1 BY <2>2, <3>3
    <3>5. Ledger!Run(c) BY <3>2, <3>4 DEF Ledger!Run
    <3> QED BY <3>5 DEF Ledger!LedgerNext
  <2> QED BY <2>1, <2>3, <2>4
<1>3. Init => SetSound BY InitIsSound
<1>4. SetSound /\ [Next]_vars => SetSound' BY StepKeeps
<1>5. SetSound /\ SetSound' /\ [Next]_vars => [Ledger!LedgerNext]_(Ledger!ledger) BY <1>2
<1> QED BY <1>1, <1>3, <1>4, <1>5, PTL DEF Spec, KeepsLedger, Ledger!LedgerSpec

-----------------------------------------------------------------------------
\* While no message event is lost

\* The log takes every append of a message event.
NoLoss == "message" \notin MayFail

Declares(S, c) == \E m \in S : m.role = "assistant" /\ c \in Rounds[m.id]

\* TranscriptIsExact, and what it follows from.
LogIsTrue ==
    /\ Prefix(json, Replay(events))
    /\ \A i \in DOMAIN events : events[i].index = i
    /\ pc \notin {"off", "repairing"} => mem = Replay(events)
ToldOnce ==
    \A i, j \in DOMAIN events :
        events[i].msg.role = "tool" /\ events[j].msg.role = "tool"
          /\ events[i].msg.id = events[j].msg.id => i = j
AllDeclared ==
    /\ \A c \in Calls : Known(c, "declared") => Declares(InLog, c)
    /\ pc = "declaring" => \A c \in Rounds[round] : Declares(InLog, c)
AllOwed ==
    pc \notin {"off", "repairing"} =>
        \A c \in Calls : Known(c, "declared") => Answers(InLog, c) \/ c \in Owed
ExactLog == LogIsTrue /\ ToldOnce /\ AllDeclared /\ AllOwed

LEMMA ReplayShape ==
    ASSUME SetSound
    PROVE  /\ Replay(events) \in Seq(Messages) /\ Len(Replay(events)) = Len(events)
           /\ DOMAIN Replay(events) = DOMAIN events /\ DOMAIN events = 1..Len(events)
           /\ \A i \in 1..Len(events) : Replay(events)[i] = events[i].msg
           /\ Len(events) \in Nat
<1>1. events \in Seq(Entry) BY DEF SetSound, TypeOK, Entry
<1>2. DOMAIN events = 1..Len(events) /\ Len(events) \in Nat BY <1>1
<1>3. \A i \in 1..Len(events) : events[i] \in Entry BY <1>1
<1>4. \A i \in 1..Len(events) : events[i].msg \in Messages BY <1>3 DEF Entry
<1>5. Replay(events) = [i \in 1..Len(events) |-> events[i].msg] BY <1>2 DEF Replay
<1> QED BY <1>2, <1>4, <1>5

LEMMA NothingOwed ==
    ASSUME SetSound, pc = "idle"
    PROVE  Owed = {}
BY DEF SetSound, StagesAreTrue, Owed, InStage, NoStages

\* In a run every declared call is answered, or is still owed its answer.
LEMMA ExactLogSuffices ==
    ASSUME SetSound, ExactLog
    PROVE  TranscriptIsExact /\ DeclaredAreAnswered
<1>1. /\ Replay(events) \in Seq(Messages) /\ Len(Replay(events)) = Len(events)
      /\ DOMAIN Replay(events) = DOMAIN events /\ DOMAIN events = 1..Len(events)
      /\ \A i \in 1..Len(events) : Replay(events)[i] = events[i].msg
      /\ Len(events) \in Nat
  BY ReplayShape
<1>2. json \in Seq(Messages) /\ mem \in Seq(Messages) BY DEF SetSound, TypeOK
<1>3. LogIsAhead
  BY <1>1, <1>2, PrefixForm DEF ExactLog, LogIsTrue, LogIsAhead
<1>4. \A c : HasReceipt(Replay(events), c) <=> Answers(InLog, c)
  BY <1>1 DEF HasReceipt, Answers, InLog
<1>5. \A c : HasDeclaration(Replay(events), c) <=> Declares(InLog, c)
  BY <1>1 DEF HasDeclaration, Declares, InLog
<1>6. pc \notin {"off", "repairing"} => \A c : HasReceipt(mem, c) <=> Answers(InLog, c)
  BY <1>4 DEF ExactLog, LogIsTrue
<1>7. NobodyIsForgotten
  BY <1>5, <1>6 DEF ExactLog, AllDeclared, AllOwed, NobodyIsForgotten
<1>8. pc = "idle" => \A c \in Calls : Known(c, "declared") => HasReceipt(mem, c)
  BY <1>6, NothingOwed DEF ExactLog, AllOwed
<1>9. pc = "idle" => \A c \in executed : HasReceipt(mem, c)
  BY <1>8 DEF SetSound, TypeOK, TracesAreInOrder
<1>10. ASSUME NEW messages \in Transcripts, NEW i \in DOMAIN messages, NEW j \in DOMAIN messages,
              messages[i].role = "tool", messages[i].role = messages[j].role,
              messages[i].id = messages[j].id
       PROVE  i = j
  <2>1. messages \in Seq(Messages) /\ Prefix(messages, Replay(events))
    <3>1. Prefix(Replay(events), Replay(events)) BY <1>1 DEF Prefix
    <3>2. pc = "off" => mem = << >> BY DEF SetSound, TypeOK
    <3>3. Prefix(<< >>, Replay(events)) BY <1>1 DEF Prefix
    <3>4. pc = "repairing" => mem = json BY DEF SetSound, FileBegins
    <3> HIDE DEF Replay
    <3> QED BY <1>1, <1>2, <3>1, <3>2, <3>3, <3>4 DEF Transcripts, ExactLog, LogIsTrue
  <2>2. i \in 1..Len(messages) /\ j \in 1..Len(messages) /\ Len(messages) <= Len(events)
        /\ Len(messages) \in Nat
    BY <1>1, <2>1 DEF Prefix
  <2>3. i \in 1..Len(events) /\ j \in 1..Len(events)
    BY <1>1, <2>2
  <2>4. messages[i] = events[i].msg /\ messages[j] = events[j].msg
    BY <1>1, <2>1, <2>2, <2>3 DEF Prefix
  <2> QED BY <1>1, <1>10, <2>3, <2>4 DEF ExactLog, ToldOnce
<1>11. ExecutionsAreToldOnce BY <1>9, <1>10 DEF ExecutionsAreToldOnce
<1>12. DeclaredAreAnswered BY <1>8 DEF DeclaredAreAnswered
<1> QED BY <1>3, <1>7, <1>11, <1>12 DEF TranscriptIsExact

LEMMA SeqIsFunction ==
    ASSUME NEW S, NEW s \in Seq(S), NEW n, Len(s) = n
    PROVE  s = [i \in 1..n |-> s[i]]
OBVIOUS

\* A message is written to the log under the index it has in the memory.
LEMMA SaidExactly ==
    ASSUME SetSound, ExactLog, pc \notin {"off", "repairing"}, NEW msg \in Messages,
           msg.role = "tool" => ~ Answers(InLog, msg.id),
           mem' = Append(mem, msg),
           events' = Append(events, [index |-> Len(mem) + 1, msg |-> msg]),
           UNCHANGED json
    PROVE  LogIsTrue' /\ ToldOnce' /\ InLog' = InLog \union {msg}
<1> DEFINE e == [index |-> Len(mem) + 1, msg |-> msg]
<1>1. /\ Replay(events) \in Seq(Messages) /\ Len(Replay(events)) = Len(events)
      /\ DOMAIN events = 1..Len(events)
      /\ \A i \in 1..Len(events) : Replay(events)[i] = events[i].msg
      /\ Len(events) \in Nat
  BY ReplayShape
<1>2. mem = Replay(events) /\ Len(mem) = Len(events) BY <1>1 DEF ExactLog, LogIsTrue
<1>3. events \in Seq(Entry) /\ e \in Entry /\ e.msg = msg /\ e.index = Len(events) + 1
  BY <1>1, <1>2 DEF SetSound, TypeOK, Entry
<1>4. events' = Append(events, e) OBVIOUS
<1> HIDE DEF e
<1>5. /\ Len(events') = Len(events) + 1 /\ DOMAIN events' = 1..(Len(events) + 1)
      /\ events' \in Seq(Entry)
      /\ \A i \in 1..Len(events) : events'[i] = events[i]
      /\ events'[Len(events) + 1] = e
  BY <1>3, <1>4
<1>6. \A i \in 1..(Len(events) + 1) : i \in 1..Len(events) \/ i = Len(events) + 1
  BY <1>1
<1>7. /\ mem' \in Seq(Messages) /\ Len(mem') = Len(events) + 1
      /\ \A i \in 1..Len(events) : mem'[i] = events[i].msg
      /\ mem'[Len(events) + 1] = msg
  BY <1>1, <1>2 DEF SetSound, TypeOK
<1>8. mem' = Replay(events')
  <2>1. Replay(events') = [i \in 1..(Len(events) + 1) |-> events'[i].msg]
    BY <1>5 DEF Replay
  <2>2. \A i \in 1..(Len(events) + 1) : mem'[i] = events'[i].msg
    BY <1>3, <1>5, <1>6, <1>7
  <2>3. mem' = [i \in 1..(Len(events) + 1) |-> mem'[i]]
    BY <1>7, SeqIsFunction
  <2> QED BY <2>1, <2>2, <2>3
<1>9. \A i \in DOMAIN events' : events'[i].index = i
  BY <1>1, <1>3, <1>5, <1>6 DEF ExactLog, LogIsTrue
<1>10. Prefix(json', Replay(events'))
  <2>1. Prefix(json, mem) BY <1>2 DEF ExactLog, LogIsTrue
  <2>2. Len(json) \in Nat BY DEF SetSound, TypeOK
  <2>3. Prefix(json, mem') BY <1>1, <1>2, <1>7, <2>1, <2>2 DEF Prefix, SetSound, TypeOK
  <2> QED BY <1>8, <2>3
<1>11. LogIsTrue' BY <1>8, <1>9, <1>10 DEF LogIsTrue, Prefix, Replay
<1>12. InLog' = InLog \union {msg}
  <2>1. 1..Len(events) \subseteq 1..(Len(events) + 1)
        /\ Len(events) + 1 \in 1..(Len(events) + 1)
    BY <1>1
  <2> QED BY <1>1, <1>3, <1>5, <1>6, <2>1 DEF InLog
<1>13. ToldOnce'
  <2>1. \A i \in 1..Len(events) : msg.role = "tool" /\ events[i].msg.role = "tool"
             => events[i].msg.id # msg.id
    BY <1>1 DEF Answers, InLog
  <2>2. \A i \in 1..Len(events) : i # Len(events) + 1 BY <1>1
  <2> QED BY <1>1, <1>3, <1>5, <1>6, <2>1, <2>2 DEF ExactLog, ToldOnce
<1> QED BY <1>11, <1>12, <1>13

\* A save finds nothing to add to the log.
LEMMA SavedExactly ==
    ASSUME SetSound, ExactLog, NoLoss, pc \notin {"off", "repairing"},
           TrySave \/ UNCHANGED <<json, events>>
    PROVE  events' = events /\ Prefix(json', Replay(events)) /\ InLog' = InLog
<1>1. /\ Replay(events) \in Seq(Messages) /\ Len(Replay(events)) = Len(events)
      /\ DOMAIN events = 1..Len(events)
      /\ Len(events) \in Nat
  BY ReplayShape
<1>2. mem = Replay(events) /\ mem \in Seq(Messages) /\ events \in Seq(Entry)
  BY DEF ExactLog, LogIsTrue, SetSound, TypeOK, Entry
<1>3. CASE UNCHANGED <<json, events>>
  BY <1>3 DEF ExactLog, LogIsTrue, InLog
<1>4. CASE Save
  <2>1. PICK lost \in SUBSET (DOMAIN mem \ Indices(events)) :
           (lost = {} \/ "message" \in MayFail) /\ events' = Backfill(lost)
    BY <1>4 DEF Save
  <2>2. DOMAIN mem \subseteq Indices(events)
    BY <1>1, <1>2 DEF ExactLog, LogIsTrue, Indices
  <2>3. events' = events BY <1>2, <2>1, <2>2, BackfillExtends
  <2>4. json' = mem /\ Prefix(mem, mem) BY <1>2, <1>4 DEF Save, Prefix
  <2> QED BY <1>2, <2>3, <2>4 DEF InLog
<1> QED BY <1>3, <1>4 DEF TrySave

-----------------------------------------------------------------------------

\* A step that writes nothing.
LEMMA QuietIsExact ==
    ASSUME ExactLog, UNCHANGED <<json, events, mem, round>>,
           pc \notin {"off", "repairing"},
           \A c \in Calls : Known(c, "declared")' =>
              Known(c, "declared") \/ (pc = "declaring" /\ c \in Rounds[round] /\ c \in Owed'),
           \A c \in Calls : c \in Owed => Answers(InLog, c) \/ c \in Owed',
           pc' # "declaring" \/ pc = "declaring"
    PROVE  ExactLog'
<1>1. InLog' = InLog /\ (\A c : Answers(InLog, c)' <=> Answers(InLog, c))
      /\ (\A c : Declares(InLog, c)' <=> Declares(InLog, c))
  BY DEF InLog, Answers, Declares
<1>2. LogIsTrue' BY DEF ExactLog, LogIsTrue, Prefix, Replay
<1>3. ToldOnce' BY DEF ExactLog, ToldOnce
<1>4. AllDeclared' BY <1>1 DEF ExactLog, AllDeclared
<1>5. AllOwed' BY <1>1 DEF ExactLog, AllOwed
<1> QED BY <1>2, <1>3, <1>4, <1>5 DEF ExactLog

\* A call that is owed its answer is answered.
LEMMA AnswerIsExact ==
    ASSUME SetSound, ExactLog, pc \notin {"off", "repairing", "declaring"},
           pc' \notin {"off", "repairing", "declaring"},
           NEW c \in Calls, ~ Answers(InLog, c), NEW outcome \in Outcomes,
           mem' = Append(mem, Receipt(c, outcome)),
           events' = Append(events, [index |-> Len(mem) + 1, msg |-> Receipt(c, outcome)]),
           UNCHANGED <<json, wal>>,
           Owed \ {c} \subseteq Owed'
    PROVE  ExactLog'
<1>1. PICK msg : msg = Receipt(c, outcome) OBVIOUS
<1>2. msg \in Messages /\ msg.role = "tool" /\ msg.id = c
  BY <1>1, RoundFacts, MessageTypes DEF Receipt
<1>3. LogIsTrue' /\ ToldOnce' /\ InLog' = InLog \union {msg}
  BY <1>1, <1>2, SaidExactly
<1>4. /\ \A d : Answers(InLog, d) => Answers(InLog, d)'
      /\ \A d : Declares(InLog, d) => Declares(InLog, d)'
      /\ Answers(InLog', c)
  BY <1>2, <1>3 DEF Answers, Declares
<1>5. Answers(InLog, c)' <=> Answers(InLog', c) BY DEF Answers
<1>6. \A d \in Calls : Known(d, "declared")' => Known(d, "declared") BY DEF Known
<1>7. AllDeclared' BY <1>4, <1>6 DEF ExactLog, AllDeclared
<1>8. AllOwed' BY <1>4, <1>5, <1>6 DEF ExactLog, AllOwed
<1> QED BY <1>3, <1>7, <1>8 DEF ExactLog

LEMMA SaveIsExact ==
    ASSUME SetSound, ExactLog, NoLoss, pc \notin {"off", "repairing"},
           TrySave \/ UNCHANGED <<json, events>>, UNCHANGED <<wal, round>>,
           pc' \notin {"declaring", "repairing"},
           pc' # "off" => mem' = mem /\ Owed \subseteq Owed'
    PROVE  ExactLog'
<1>1. events' = events /\ Prefix(json', Replay(events)) /\ InLog' = InLog
  BY SavedExactly
<1>2. /\ \A d : Answers(InLog, d) <=> Answers(InLog, d)'
      /\ \A d : Declares(InLog, d) <=> Declares(InLog, d)'
  BY <1>1 DEF Answers, Declares
<1>3. \A d \in Calls : Known(d, "declared")' => Known(d, "declared") BY DEF Known
<1>4. LogIsTrue' BY <1>1 DEF ExactLog, LogIsTrue, Prefix, Replay
<1>5. ToldOnce' BY <1>1 DEF ExactLog, ToldOnce
<1>6. AllDeclared' BY <1>2, <1>3 DEF ExactLog, AllDeclared
<1>7. AllOwed' BY <1>2, <1>3 DEF ExactLog, AllOwed
<1> QED BY <1>4, <1>5, <1>6, <1>7 DEF ExactLog

-----------------------------------------------------------------------------
\* Each step

LEMMA StepIsExact ==
    ASSUME SetSound, ExactLog, NoLoss, [Next]_vars
    PROVE  ExactLog'
<1>1. Attempt("message") = {TRUE} BY DEF NoLoss, Attempt
<1>2. CASE StartRun
  <2>1. /\ pc = "off" /\ pc' = "repairing"
        /\ UNCHANGED <<json, events, wal>>
    BY <1>2 DEF StartRun, disk
  <2>2. InLog' = InLog BY <2>1 DEF InLog
  <2>3. AllDeclared' BY <2>1, <2>2 DEF ExactLog, AllDeclared, Known, Declares
  <2> QED BY <2>1, <2>3 DEF ExactLog, LogIsTrue, ToldOnce, AllOwed, Prefix, Replay
<1>3. CASE Repair
  <2>1. /\ pc = "repairing" /\ pc' = "recovering" /\ mem = json
        /\ mem' = IF Replayable(events) THEN Replay(events) ELSE mem
        /\ todo' = OpenExecutions
        /\ UNCHANGED <<json, events, wal, round, stage>>
    BY <1>3 DEF SetSound, FileBegins, Repair, disk
  <2>2. /\ Replay(events) \in Seq(Messages) /\ json \in Seq(Messages)
        /\ Prefix(json, Replay(events))
    BY ReplayShape DEF SetSound, TypeOK, ExactLog, LogIsTrue
  <2>3. Len(json) <= Len(Replay(events)) /\ SubSeq(Replay(events), 1, Len(json)) = json
    <3> HIDE DEF Replay
    <3> QED BY <2>2, PrefixForm
  <2>4. Len(Replay(events)) = Len(events) BY ReplayShape
  <2>5. mem' = Replay(events) BY <2>1, <2>3, <2>4 DEF Replayable
  <2>6. InLog' = InLog /\ InFile \subseteq InLog
    <3>1. \A i \in 1..Len(json) : i \in 1..Len(events) /\ json[i] = events[i].msg
      BY <2>2, <2>4, ReplayShape DEF Prefix
    <3>2. DOMAIN json = 1..Len(json) /\ DOMAIN events = 1..Len(events)
      BY <2>2, ReplayShape
    <3> QED BY <2>1, <3>1, <3>2 DEF InLog, InFile
  <2>7. LogIsTrue' BY <2>1, <2>5 DEF ExactLog, LogIsTrue, Prefix, Replay
  <2>8. ToldOnce' BY <2>1 DEF ExactLog, ToldOnce
  <2>9. AllDeclared' BY <2>1, <2>6 DEF ExactLog, AllDeclared, Known, Declares
  <2>10. ASSUME NEW c \in Calls, Known(c, "declared")
         PROVE  Answers(InLog, c) \/ c \in todo'
    <3>1. CASE Known(c, "committed")
      BY <2>6, <3>1 DEF SetSound, CommitsInSets, Answers
    <3>2. CASE ~ Known(c, "committed") BY <2>1, <2>10, <3>2 DEF OpenExecutions
    <3> QED BY <3>1, <3>2
  <2>11. todo' \subseteq Owed' BY <2>1 DEF Owed
  <2>12. \A c : Answers(InLog, c)' <=> Answers(InLog, c) BY <2>6 DEF Answers
  <2>13. \A c : Known(c, "declared")' <=> Known(c, "declared") BY <2>1 DEF Known
  <2>14. AllOwed' BY <2>10, <2>11, <2>12, <2>13 DEF AllOwed
  <2> QED BY <2>7, <2>8, <2>9, <2>14 DEF ExactLog
<1>4. CASE RecoverCall
  <2>1. PICK c : c = First(todo) OBVIOUS
  <2>2. /\ c \in todo /\ c \in Calls /\ pc = "recovering"
        /\ UNCHANGED <<json, wal, round, stage>>
    BY <1>4, <2>1, FirstIsDue DEF SetSound, RecoverCall
  <2>3. /\ Answered(c) <=> Answers(InLog, c)
        /\ HasDeclaration(mem, c)
    <3>1. mem = Replay(events) BY <2>2 DEF ExactLog, LogIsTrue
    <3>2. InMem = InLog BY <3>1 DEF InMem, InLog, Replay
    <3>3. Answered(c) <=> Answers(InLog, c) BY <3>2, ReceiptForms DEF Answered
    <3>4. Known(c, "declared") BY <2>2 DEF SetSound, TracesAreInOrder
    <3>5. Declares(InMem, c) BY <2>2, <3>2, <3>4 DEF ExactLog, AllDeclared
    <3>6. HasDeclaration(mem, c) BY <3>5 DEF Declares, HasDeclaration, InMem
    <3> QED BY <3>3, <3>6
  <2>4. stage = NoStages BY <2>2 DEF SetSound, StagesAreTrue
  <2>5. Owed = todo BY <2>2, <2>4 DEF Owed, InStage, NoStages
  <2>6. CASE Answered(c)
    <3>1. pc' = "recommitting" /\ UNCHANGED <<events, mem, todo>>
      BY <1>4, <2>1, <2>6 DEF RecoverCall
    <3>2. Owed' = todo \ {c} BY <2>1, <2>2, <2>4, <3>1 DEF Owed, InStage, NoStages
    <3>3. \A d \in Calls : d \in Owed => Answers(InLog, d) \/ d \in Owed'
      BY <2>3, <2>5, <2>6, <3>2
    <3>4. \A d \in Calls : Known(d, "declared")' => Known(d, "declared") BY <2>2 DEF Known
    <3> QED BY <2>2, <3>1, <3>3, <3>4, QuietIsExact
  <2>7. CASE ~ Answered(c)
    <3>1. PICK outcome : outcome = Synthesized(c) OBVIOUS
    <3>2. outcome \in Outcomes BY <2>2, <3>1, SynthesizedIsTrue
    <3>3. /\ mem' = Append(mem, Receipt(c, outcome))
          /\ events' = Append(events, [index |-> Len(mem) + 1, msg |-> Receipt(c, outcome)])
          /\ pc' = "recommitting" /\ UNCHANGED todo
      BY <1>1, <1>4, <2>1, <2>3, <2>7, <3>1 DEF RecoverCall, Say
    <3>4. Owed' = todo \ {c} BY <2>1, <2>2, <2>4, <3>3 DEF Owed, InStage, NoStages
    <3> QED BY <2>2, <2>3, <2>5, <2>7, <3>2, <3>3, <3>4, AnswerIsExact
  <2> QED BY <2>6, <2>7
<1>5. CASE RecoverSave
  <2>1. /\ TrySave \/ UNCHANGED <<json, events>>
        /\ pc = "recovering" /\ pc' = "idle" /\ UNCHANGED <<mem, wal, round, todo, stage>>
    BY <1>5 DEF RecoverSave
  <2>2. Owed' = Owed BY <2>1 DEF Owed, InStage
  <2> QED BY <2>1, <2>2, SaveIsExact
<1>6. CASE DeclareRound
  <2>1. PICK r : r = round + 1 OBVIOUS
  <2>2. PICK msg : msg = Declaration(r) OBVIOUS
  <2>3. /\ pc = "idle" /\ pc' = "declaring" /\ round' = r
        /\ mem' = Append(mem, msg)
        /\ events' = Append(events, [index |-> Len(mem) + 1, msg |-> msg])
        /\ UNCHANGED <<json, wal>>
    BY <1>1, <1>6, <2>1, <2>2 DEF DeclareRound, Say
  <2>4. msg \in Messages /\ msg.role = "assistant" /\ msg.id = r
    BY <2>1, <2>2, MessageTypes, RoundFacts DEF SetSound, TypeOK, Declaration
  <2>5. LogIsTrue' /\ ToldOnce' /\ InLog' = InLog \union {msg}
    BY <2>3, <2>4, SaidExactly
  <2>6. /\ \A d : Answers(InLog, d) => Answers(InLog, d)'
        /\ \A d : Declares(InLog, d) => Declares(InLog, d)'
        /\ \A d \in Rounds[r] : Declares(InLog', d)
    BY <2>4, <2>5 DEF Answers, Declares
  <2>7. \A d : Declares(InLog, d)' <=> Declares(InLog', d) BY DEF Declares
  <2>8. \A d : Known(d, "declared")' <=> Known(d, "declared") BY <2>3 DEF Known
  <2>9. AllDeclared' BY <2>3, <2>6, <2>7, <2>8 DEF ExactLog, AllDeclared
  <2>10. AllOwed' BY <2>3, <2>6, <2>8, NothingOwed DEF ExactLog, AllOwed
  <2> QED BY <2>5, <2>9, <2>10 DEF ExactLog
<1>7. CASE Declared
  <2>1. PICK c : c = First(todo) OBVIOUS
  <2>2. PICK ok \in BOOLEAN :
          /\ wal' = IF ok THEN wal \union {<<"declared", c>>} ELSE wal
          /\ pc' \in {"declaring", "starting"} /\ pc = "declaring"
          /\ UNCHANGED <<json, events, mem, round>>
    BY <1>7, <2>1 DEF Declared, Attempt, Note, Visited
  <2>3. c \in Rounds[round]
    <3>1. todo # {} BY <2>2 DEF SetSound, TypeOK
    <3> QED BY <2>1, <2>2, <3>1, FirstIsDue, InARound DEF SetSound, InRound
  <2>4. Owed = Rounds[round] /\ Owed' = Rounds[round] BY <2>2 DEF Owed
  <2>5. \A d \in Calls : Known(d, "declared")' => Known(d, "declared") \/ d = c
    BY <2>2 DEF Known
  <2> QED BY <2>2, <2>3, <2>4, <2>5, QuietIsExact
<1>8. CASE Cancel
  <2>1. /\ pc = "starting" /\ pc' = "cancelling" /\ todo = Rounds[round]
        /\ UNCHANGED <<json, events, mem, wal, round, todo, stage>>
    BY <1>8 DEF Cancel, disk
  <2>2. Owed \subseteq Owed' BY <2>1 DEF Owed
  <2>3. \A d \in Calls : Known(d, "declared")' => Known(d, "declared") BY <2>1 DEF Known
  <2> QED BY <2>1, <2>2, <2>3, QuietIsExact
<1>9. CASE SynthesizeCancelled \/ SynthesizeSkipped
  <2>1. PICK c : c = First(todo) OBVIOUS
  <2>2. /\ pc \in {"cancelling", "skipping"} /\ todo # {}
        /\ UNCHANGED <<json, wal, round, stage>>
    BY <1>9 DEF SetSound, TypeOK, SynthesizeCancelled, SynthesizeSkipped
  <2>3. c \in todo /\ c \in Calls BY <2>1, <2>2, FirstIsDue DEF SetSound
  <2>4. PICK outcome \in {"cancelled", "skipped"} :
          /\ mem' = Append(mem, Receipt(c, outcome))
          /\ events' = Append(events, [index |-> Len(mem) + 1, msg |-> Receipt(c, outcome)])
          /\ todo' = todo \ {c} /\ pc' \in {"cancelling", "skipping", "ending", "idle"}
    BY <1>1, <1>9, <2>1 DEF SynthesizeCancelled, SynthesizeSkipped, Say, Visited
  <2>5. Owed = InStage({"skipped"}) \union todo BY <2>2 DEF Owed
  <2>6. Owed \ {c} \subseteq Owed' BY <2>2, <2>4, <2>5 DEF Owed, InStage
  <2>7. ~ Answers(InLog, c)
    BY <2>2, <2>3, <2>5 DEF SetSound, KnownMessage, Answers, Said
  <2>8. outcome \in Outcomes BY DEF Outcomes, Denials
  <2> QED BY <2>2, <2>3, <2>4, <2>6, <2>7, <2>8, AnswerIsExact
<1>10. CASE Started
  <2>1. PICK c : c = First(todo) OBVIOUS
  <2>2. PICK ok \in BOOLEAN :
          /\ wal' = IF ok THEN wal \union {<<"started", c>>} ELSE wal
          /\ pc' \in {"starting", "executing"} /\ pc = "starting"
          /\ UNCHANGED <<json, events, mem, round>>
    BY <1>10, <2>1 DEF Started, Attempt, Note, Visited
  <2>3. Owed = Rounds[round] /\ Owed' = Rounds[round] BY <2>2 DEF Owed
  <2>4. \A d \in Calls : Known(d, "declared")' => Known(d, "declared") BY <2>2 DEF Known
  <2> QED BY <2>2, <2>3, <2>4, QuietIsExact
<1>11. CASE GapSkip \/ \E c \in Calls : Execute(c) \/ StageResult(c) \/ Finished(c)
  <2>1. /\ pc = "executing" /\ pc' = "executing" /\ UNCHANGED <<json, events, mem, round>>
    BY <1>11 DEF GapSkip, Execute, StageResult, Finished, disk
  <2>2. Owed = Rounds[round] /\ Owed' = Rounds[round] BY <2>1 DEF Owed
  <2>3. wal' = wal \/ \E c \in Calls : wal' = wal \union {<<"finished", c>>}
    BY <1>11 DEF GapSkip, Execute, StageResult, Finished, Note, disk
  <2>4. \A d \in Calls : Known(d, "declared")' => Known(d, "declared") BY <2>3 DEF Known
  <2> QED BY <2>1, <2>2, <2>4, QuietIsExact
<1>12. CASE ExecutionEnds
  <2>1. /\ pc = "executing" /\ pc' = "recording"
        /\ todo' = Rounds[round] \ InStage({"skipped"})
        /\ UNCHANGED <<json, events, mem, wal, round, stage>>
    BY <1>12 DEF ExecutionEnds, disk
  <2>2. Owed \subseteq Owed' BY <2>1 DEF Owed, InStage, SetSound, StagesAreTrue
  <2>3. \A d \in Calls : Known(d, "declared")' => Known(d, "declared") BY <2>1 DEF Known
  <2> QED BY <2>1, <2>2, <2>3, QuietIsExact
<1>13. CASE RecordReceipt
  <2>1. PICK c : c = First(todo) OBVIOUS
  <2>2. /\ c \in todo /\ c \in Calls /\ pc = "recording"
        /\ UNCHANGED <<json, wal, round, stage>>
    BY <1>13, <2>1, FirstIsDue DEF SetSound, RecordReceipt
  <2>3. PICK outcome \in {"result", "not_started"} :
          /\ mem' = Append(mem, Receipt(c, outcome))
          /\ events' = Append(events, [index |-> Len(mem) + 1, msg |-> Receipt(c, outcome)])
          /\ \/ pc' = "committing" /\ UNCHANGED todo
             \/ todo' = todo \ {c} /\ UNCHANGED pc
    BY <1>1, <1>13, <2>1 DEF RecordReceipt, Say
  <2>4. Owed = InStage({"skipped"}) \union todo BY <2>2 DEF Owed
  <2>5. Owed \ {c} \subseteq Owed' BY <2>1, <2>2, <2>3, <2>4 DEF Owed, InStage
  <2>6. ~ Answers(InLog, c)
    BY <2>2, <2>4 DEF SetSound, KnownMessage, Answers, Said
  <2>7. outcome \in Outcomes BY DEF Outcomes, Denials
  <2>8. pc' \in {"committing", "recording"} BY <2>2, <2>3
  <2> QED BY <2>2, <2>3, <2>5, <2>6, <2>7, <2>8, AnswerIsExact
<1>14. CASE ReceiptCommitted
  <2>1. PICK c : c = First(todo) OBVIOUS
  <2>2. PICK ok \in BOOLEAN :
          /\ wal' = IF ok THEN wal \union {<<"committed", c>>} ELSE wal
          /\ pc' = (IF pc = "committing" THEN "recording" ELSE "recovering")
          /\ pc \in {"committing", "recommitting"}
          /\ todo' = todo \ {c}
          /\ UNCHANGED <<json, events, mem, round, stage>>
    BY <1>14, <2>1 DEF ReceiptCommitted, Attempt, Note
  <2>3. Owed \subseteq Owed' BY <2>1, <2>2 DEF Owed, InStage
  <2>4. \A d \in Calls : Known(d, "declared")' => Known(d, "declared") BY <2>2 DEF Known
  <2> QED BY <2>2, <2>3, <2>4, QuietIsExact
<1>15. CASE RoundSaved
  <2>1. /\ TrySave /\ pc = "recording" /\ todo = {} /\ todo' = InStage({"skipped"})
        /\ pc' \in {"idle", "skipping"} /\ UNCHANGED <<mem, wal, round>>
    BY <1>15 DEF RoundSaved
  <2>2. Owed \subseteq Owed' BY <2>1 DEF Owed
  <2> QED BY <2>1, <2>2, SaveIsExact
<1>16. CASE LoopEnds
  <2>1. /\ pc = "idle" /\ pc' = "ending" /\ UNCHANGED <<json, events, mem, wal, round, todo, stage>>
    BY <1>16 DEF LoopEnds, disk
  <2>2. Owed \subseteq Owed' BY <2>1 DEF Owed, InStage
  <2>3. \A d \in Calls : Known(d, "declared")' => Known(d, "declared") BY <2>1 DEF Known
  <2> QED BY <2>1, <2>2, <2>3, QuietIsExact
<1>17. CASE FinalSave
  <2>1. TrySave /\ pc = "ending" /\ pc' = "off" /\ UNCHANGED <<wal, round>>
    BY <1>17 DEF FinalSave, Forget
  <2> QED BY <2>1, SaveIsExact
<1>18. CASE Crash
  <2>1. pc' = "off" /\ UNCHANGED <<json, events, wal>> BY <1>18 DEF Crash, Forget, disk
  <2>2. InLog' = InLog BY <2>1 DEF InLog
  <2>3. AllDeclared' BY <2>1, <2>2 DEF ExactLog, AllDeclared, Known, Declares
  <2> QED BY <2>1, <2>3 DEF ExactLog, LogIsTrue, ToldOnce, AllOwed, Prefix, Replay
<1>19. CASE UNCHANGED vars
  <2>1. InLog' = InLog /\ Owed' = Owed BY <1>19 DEF InLog, Owed, InStage, vars
  <2>2. AllDeclared' BY <1>19, <2>1 DEF ExactLog, AllDeclared, Known, Declares, vars
  <2>3. AllOwed' BY <1>19, <2>1 DEF ExactLog, AllOwed, Known, Answers, vars
  <2> QED BY <1>19, <2>2, <2>3 DEF ExactLog, LogIsTrue, ToldOnce, Prefix, Replay, vars
<1> QED
  BY <1>2, <1>3, <1>4, <1>5, <1>6, <1>7, <1>8, <1>9, <1>10, <1>11, <1>12, <1>13, <1>14,
     <1>15, <1>16, <1>17, <1>18, <1>19 DEF Next

LEMMA ExactAlways ==
    ASSUME NoLoss
    PROVE  Spec => [](TranscriptIsExact /\ DeclaredAreAnswered)
<1>1. ASSUME Init PROVE SetSound /\ ExactLog
  <2>1. SetSound BY <1>1, InitIsSound
  <2>2. InLog = {} BY <1>1 DEF Init, InLog
  <2>3. LogIsTrue BY <1>1, ReplayShape, <2>1 DEF Init, LogIsTrue, Prefix
  <2>4. ToldOnce /\ AllDeclared /\ AllOwed
    BY <1>1 DEF Init, ToldOnce, AllDeclared, AllOwed, Known
  <2> QED BY <2>1, <2>3, <2>4 DEF ExactLog
<1>2. SetSound /\ ExactLog /\ [Next]_vars => (SetSound /\ ExactLog)'
  BY StepKeeps, StepIsExact
<1>3. SetSound /\ ExactLog => TranscriptIsExact /\ DeclaredAreAnswered
  BY ExactLogSuffices
<1> QED BY <1>1, <1>2, <1>3, PTL DEF Spec

\* While no message event is lost, the file is never ahead of the log nor at
\* odds with it, each call is answered at most once in every copy, and a run
\* that is ready for the model has an answer for every call that ever ran.
THEOREM TranscriptStaysExact ==
    ASSUME NoLoss
    PROVE  Spec => []TranscriptIsExact
BY ExactAlways, PTL

\* While no message event is lost, every declared execution whose call is in the
\* history of a run that is ready for the model is answered there.
THEOREM DeclaredStayAnswered ==
    ASSUME NoLoss
    PROVE  Spec => []DeclaredAreAnswered
BY ExactAlways, PTL
=============================================================================
