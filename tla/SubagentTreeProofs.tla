------------------------- MODULE SubagentTreeProofs -------------------------
(***************************************************************************)
(* Theorems about SubagentTree, for any number of children in any tree and *)
(* any number of runs, stops, steers, failed writes and restarts.  Base    *)
(* (types, and what is drawn when) is invariant by itself; Steers, Reasons *)
(* and, under their hypotheses, Quiet and Records are invariant on top of  *)
(* it.  They come in this order: shapes of the steps, the mailbox, then    *)
(* each invariant, one lemma per action or kind of action.                 *)
(***************************************************************************)
EXTENDS SubagentTree, SequenceTheorems, FiniteSetTheorems, WellFoundedInduction, TLAPS

-----------------------------------------------------------------------------
\* The inductive invariant

\* The two cases that break the properties (README, disagreements) are excluded
\* where they do.
NoLateSpawn == ~LateSpawn
NotIsolated == ~Isolated

Stages == {"none", "boot", "first", "round", "inject", "save", "asked", "tool",
           "persist", "cleared", "cascade", "done"}
Started(k) == kin[k].parent # None
Alive(k) == worker[k].pc \notin {"none", "done"}

\* The types of all variables.
LogType == [linked : BOOLEAN, steers : Seq(Nat), cancel : BOOLEAN,
            result : Results, terminal : Outcomes]
WorkerType == [pc : Stages, next : {"none", "ask", "round", "end"},
               batch : Seq(Nat), seen : SUBSET Nat, missed : SUBSET Nat,
               res : Results]
Types ==
    /\ log \in [Kids -> LogType]
    /\ sess \in [Kids -> Seq(Nat)]
    /\ kin \in [Kids -> [parent : Agents \union {None}, gen : 0..MaxRuns]]
    /\ active \subseteq Kids
    /\ signal \in [Kids -> {"none", "startup", "parent"}]
    /\ handle \in [Kids -> [st : Outcomes \union {"running", "settled"},
                            ans : Answers]]
    /\ worker \in [Kids -> WorkerType]
    /\ waits \in [Agents -> Kids \union {None}]
    /\ run \in [gen : 0..MaxRuns, pc : {"work", "closing", "ended"}]
    /\ stop \in 0..MaxRuns /\ stopped \subseteq 0..MaxRuns
    /\ rows \in [Cancellers -> SUBSET Kids]
    /\ events \in Nat

\* Children are drawn one after the other, and each is registered from its
\* reservation to its end.
Drawn ==
    /\ \A k \in Kids : Started(k) <=> worker[k].pc # "none"
    /\ \A j, k \in Kids : j < k /\ Started(k) => Started(j)
    /\ \A k \in Kids : k \in active <=> Alive(k)
    /\ \A k \in Kids : ~Alive(k) => signal[k] = "none"
    /\ \A k \in Kids : kin[k].gen <= run.gen
    /\ \A k \in Kids : kin[k].parent \in Kids => Started(kin[k].parent)
    /\ \A a \in Agents : waits[a] # None => Started(waits[a])

Base == Types /\ Drawn

\* Who is to be cancelled, and was, has a reason.
Reasons ==
    /\ stop # 0 => stop \in stopped
    /\ \A c \in Cancellers : \A k \in rows[c] : Started(k) /\ Doomed(k)
    /\ \A k \in Kids : signal[k] = "parent" \/ log[k].cancel =>
          Started(k) /\ Doomed(k)

\* Whose parent is over, or is being cleared away, was told or will be.
Told(c, k) == signal[k] # "none" \/ k \in rows[c]
OfThisRun(k) == kin[k].parent = Root /\ kin[k].gen = run.gen
Quiet ==
    /\ run.pc = "closing" => \A k \in active : OfThisRun(k) => Told(Root, k)
    /\ \A a \in Kids : At(a, "cascade") => \A k \in Children(a) : Told(a, k)
    /\ \A k \in active : Orphan(k) => signal[k] # "none"

\* Steers are numbered; a session has the first of them, and who has asked has
\* seen what its session has.
Begins(s, t) == Len(s) <= Len(t) /\ \A i \in 1..Len(s) : s[i] = t[i]
SteersFine(steers, saved, w) ==
    /\ \A i \in DOMAIN steers : steers[i] = i
    /\ Begins(saved, steers)
    /\ w.pc \in {"none", "boot", "first"} => saved = <<>>
    /\ \/ w.pc = "asked"
       \/ w.pc \in {"inject", "save"} /\ w.next = "end"
       => w.seen = Range(saved)
    /\ w.pc = "save" => w.batch # <<>> /\ Begins(saved \o w.batch, steers)
    /\ w.missed = {}
Steered(k) == SteersFine(log[k].steers, sess[k], worker[k])
Steers == \A k \in Kids : Steered(k)

\* What is recorded of a child, and what its handle says.
Recorded(k) ==
    /\ log[k].terminal # "none" => log[k].result.out = log[k].terminal
    /\ ~Alive(k) => handle[k].st # "running"
    /\ worker[k].pc = "none" =>
          handle[k].st = "none" /\ log[k].result = NoResult
    /\ Alive(k) =>
          /\ handle[k].st = "running" /\ log[k].terminal = "none"
          /\ \/ log[k].result = NoResult
             \/ /\ worker[k].pc \in {"cleared", "cascade"}
                /\ log[k].result = worker[k].res
    /\ worker[k].pc \in {"persist", "cleared", "cascade"} =>
          worker[k].res.ans = "first" /\ worker[k].res.out # "none"
    /\ handle[k].st \notin {"none", "running"} /\ ResultIsDurable(k) =>
          handle[k].ans \in {log[k].result.ans, "follow"}
Records == \A k \in Kids : Recorded(k)

-----------------------------------------------------------------------------
\* Names and records

LEMMA Apart ==
    /\ Root \notin Kids /\ Stop \notin Kids /\ None \notin Kids
    /\ Root # Stop /\ None # Root /\ None # Stop
    /\ Root \in Agents /\ Kids \subseteq Agents /\ None \notin Agents
    /\ Agents = Kids \union {Root}
    /\ Root \in Cancellers /\ Stop \in Cancellers /\ Agents \subseteq Cancellers
    /\ Kids \subseteq Nat /\ Kids = 1..MaxKids
BY NamesAssumption, BoundAssumption DEF Kids, Agents, Cancellers

LEMMA Small ==
    /\ NoResult \in Results /\ NoFacts \in LogType /\ Unborn \in WorkerType
    /\ NoHandle \in [st : Outcomes \union {"running", "settled"}, ans : Answers]
    /\ \A out \in Outcomes, ans \in Answers : [out |-> out, ans |-> ans] \in Results
<1>1. <<>> \in Seq(Nat) OBVIOUS
<1> QED BY <1>1 DEF NoResult, NoFacts, Unborn, NoHandle, Results, LogType,
        WorkerType, Outcomes, Answers, Stages

\* A fact is added to a child's log.
LEMMA LogLinked ==
    ASSUME NEW l \in LogType, NEW m, m = [l EXCEPT !.linked = TRUE]
    PROVE  /\ m \in LogType /\ m.steers = l.steers /\ m.cancel = l.cancel
           /\ m.result = l.result /\ m.terminal = l.terminal
BY DEF LogType

LEMMA LogCancelled ==
    ASSUME NEW l \in LogType, NEW m, m = [l EXCEPT !.cancel = TRUE]
    PROVE  /\ m \in LogType /\ m.steers = l.steers /\ m.linked = l.linked
           /\ m.result = l.result /\ m.terminal = l.terminal
BY DEF LogType

LEMMA LogResult ==
    ASSUME NEW l \in LogType, NEW r \in Results, NEW m, m = [l EXCEPT !.result = r]
    PROVE  /\ m \in LogType /\ m.steers = l.steers /\ m.cancel = l.cancel
           /\ m.result = r /\ m.terminal = l.terminal
BY DEF LogType

LEMMA LogTerminal ==
    ASSUME NEW l \in LogType, NEW t \in Outcomes, NEW m, m = [l EXCEPT !.terminal = t]
    PROVE  /\ m \in LogType /\ m.steers = l.steers /\ m.cancel = l.cancel
           /\ m.result = l.result /\ m.terminal = t
BY DEF LogType

LEMMA LogSteered ==
    ASSUME NEW l \in LogType, NEW m,
           m = [l EXCEPT !.steers = Append(l.steers, Len(l.steers) + 1)]
    PROVE  /\ m \in LogType /\ m.steers = Append(l.steers, Len(l.steers) + 1)
           /\ m.cancel = l.cancel /\ m.result = l.result /\ m.terminal = l.terminal
<1>1. l.steers \in Seq(Nat) BY DEF LogType
<1>2. Append(l.steers, Len(l.steers) + 1) \in Seq(Nat) BY <1>1
<1> QED BY <1>2 DEF LogType

-----------------------------------------------------------------------------
\* What a child's thread changes of its own state

OthersKept(k) == \A j \in Kids : j # k => worker'[j] = worker[j]

LEMMA GoesShape ==
    ASSUME Types, NEW k \in Kids, NEW pc \in Stages, Goes(k, pc)
    PROVE  /\ worker' \in [Kids -> WorkerType] /\ OthersKept(k)
           /\ worker'[k].pc = pc /\ worker'[k].missed = {}
           /\ worker'[k].res = worker[k].res
<1> DEFINE w == [Unborn EXCEPT !.pc = pc, !.res = worker[k].res]
<1>1. worker[k].res \in Results BY DEF Types, WorkerType
<1>2. /\ w \in WorkerType /\ w.pc = pc /\ w.missed = {}
      /\ w.res = worker[k].res
  BY <1>1, Small DEF Unborn, WorkerType
<1>3. worker' = [worker EXCEPT ![k] = w] BY DEF Goes, Becomes
<1> HIDE DEF w
<1> QED BY <1>2, <1>3 DEF Types, OthersKept

LEMMA EndsShape ==
    ASSUME Types, NEW k \in Kids, NEW pc \in Stages, NEW out \in Outcomes,
           Ends(k, pc, out)
    PROVE  /\ worker' \in [Kids -> WorkerType] /\ OthersKept(k)
           /\ worker'[k].pc = pc
           /\ worker'[k].missed = IF out = "completed"
                                  THEN Range(log[k].steers) \ worker[k].seen
                                  ELSE {}
           /\ worker'[k].res = [out |-> out, ans |-> "first"]
<1> DEFINE lost == IF out = "completed"
                   THEN Range(log[k].steers) \ worker[k].seen ELSE {}
           r == [out |-> out, ans |-> "first"]
           w == [Unborn EXCEPT !.pc = pc, !.res = r, !.missed = lost]
<1>1. log[k].steers \in Seq(Nat) BY DEF Types, LogType
<1>2. Range(log[k].steers) \in SUBSET Nat BY <1>1 DEF Range
<1>3. lost \in SUBSET Nat BY <1>2
<1>4. r \in Results BY Small DEF Answers
<1>5. worker' = [worker EXCEPT ![k] = w] BY DEF Ends, Becomes
<1> HIDE DEF lost, r
<1>6. w \in WorkerType /\ w.pc = pc /\ w.missed = lost /\ w.res = r
  BY <1>3, <1>4, Small DEF Unborn, WorkerType
<1> HIDE DEF w
<1> QED BY <1>5, <1>6 DEF Types, OthersKept, lost, r

LEMMA ScansShape ==
    ASSUME Types, NEW k \in Kids, NEW next \in {"ask", "round", "end"},
           Scans(k, next)
    PROVE  /\ worker' \in [Kids -> WorkerType] /\ OthersKept(k)
           /\ worker'[k].pc = "inject" /\ worker'[k].next = next
           /\ worker'[k].missed = worker[k].missed
           /\ worker'[k].seen = worker[k].seen /\ worker'[k].res = worker[k].res
<1> DEFINE w == [worker[k] EXCEPT !.pc = "inject", !.next = next]
<1>1. worker[k] \in WorkerType BY DEF Types
<1>2. /\ w \in WorkerType /\ w.pc = "inject" /\ w.next = next
      /\ w.missed = worker[k].missed /\ w.seen = worker[k].seen
      /\ w.res = worker[k].res
  BY <1>1 DEF WorkerType, Stages
<1>3. worker' = [worker EXCEPT ![k] = w] BY DEF Scans, Becomes
<1> HIDE DEF w
<1> QED BY <1>2, <1>3 DEF Types, OthersKept

LEMMA AsksShape ==
    ASSUME Types, NEW k \in Kids, NEW S \in SUBSET Nat, Asks(k, S)
    PROVE  /\ worker' \in [Kids -> WorkerType] /\ OthersKept(k)
           /\ worker'[k].pc = "asked" /\ worker'[k].seen = S
           /\ worker'[k].missed = worker[k].missed
           /\ worker'[k].res = worker[k].res
<1> DEFINE w == [worker[k] EXCEPT !.pc = "asked", !.seen = S]
<1>1. worker[k] \in WorkerType BY DEF Types
<1>2. /\ w \in WorkerType /\ w.pc = "asked" /\ w.seen = S
      /\ w.missed = worker[k].missed /\ w.res = worker[k].res
  BY <1>1 DEF WorkerType, Stages
<1>3. worker' = [worker EXCEPT ![k] = w] BY DEF Asks, Becomes
<1> HIDE DEF w
<1> QED BY <1>2, <1>3 DEF Types, OthersKept
-----------------------------------------------------------------------------
\* Numbers

Less == {ss \in Nat \X Nat : ss[1] < ss[2]}

\* A set of natural numbers that is not empty has a least one.
LEMMA LeastExists ==
    ASSUME NEW T \in SUBSET Nat, T # {}
    PROVE  \E x \in T : \A y \in T : x <= y
<1>1. IsWellFoundedOn(Less, Nat)
  BY NatLessThanWellFounded DEF OpToRel, Less
<1>2. \A R, S : IsWellFoundedOn(R, S) =>
        \A U : U \subseteq S /\ U # {} =>
           \E x \in U : \A y \in U : ~ (<<y, x>> \in R)
  BY WFMin, Zenon
<1>3. PICK x \in T : \A y \in T : ~ (<<y, x>> \in Less)
  BY <1>1, <1>2
<1>4. ASSUME NEW y \in T PROVE x <= y
  <2>1. x \in Nat /\ y \in Nat OBVIOUS
  <2>2. y < x => <<y, x>> \in Less BY <2>1 DEF Less
  <2>3. ~ (y < x) BY <1>3, <2>2, Zenon
  <2> QED BY <2>1, <2>3
<1> QED BY <1>4

\* What holds of 0 and of each number after one of which it holds, does of
\* all: the numbers up to m of which it does are given as a set.
LEMMA UpTo ==
    ASSUME NEW m \in Nat, NEW T, 0 \in T,
           \A i \in 1..m : i - 1 \in T => i \in T
    PROVE  \A i \in 0..m : i \in T
<1> DEFINE Bad == {i \in 0..m : i \notin T}
<1>1. SUFFICES ASSUME Bad # {} PROVE FALSE OBVIOUS
<1>2. Bad \in SUBSET Nat OBVIOUS
<1>3. PICK k \in Bad : \A j \in Bad : k <= j
  <2> HIDE DEF Bad
  <2> QED BY <1>1, <1>2, LeastExists
<1>4. k \in 1..m /\ k - 1 \in 0..m /\ ~ (k <= k - 1) OBVIOUS
<1>5. k - 1 \notin Bad
  <2> HIDE DEF Bad
  <2> QED BY <1>3, <1>4
<1>6. k - 1 \in T BY <1>4, <1>5
<1> QED BY <1>4, <1>6

-----------------------------------------------------------------------------
-----------------------------------------------------------------------------
\* The mailbox

\* Unread is what its recursive definition says.
LEMMA UnreadSteps ==
    ASSUME NEW k \in Kids, Len(log[k].steers) \in Nat
    PROVE  /\ Unread(k)[0] = << >>
           /\ \A i \in 1..Len(log[k].steers) : Unread(k)[i] =
                IF log[k].steers[i] \in Range(sess[k]) THEN Unread(k)[i-1]
                ELSE Append(Unread(k)[i-1], log[k].steers[i])
<1> DEFINE m == Len(log[k].steers)
           Next1(s, i) == IF log[k].steers[i] \in Range(sess[k]) THEN s
                          ELSE Append(s, log[k].steers[i])
           Is(f, n) == f = [i \in 0..n |-> IF i = 0 THEN << >> ELSE Next1(f[i-1], i)]
           Good == {n \in Nat : \E f : Is(f, n)}
<1>1. 0 \in Good
  <2> DEFINE f == [i \in 0..0 |-> << >>]
  <2>1. \A i \in 0..0 : f[i] = IF i = 0 THEN << >> ELSE Next1(f[i-1], i)
    <3>1. \A i \in 0..0 : i = 0 /\ f[i] = << >> OBVIOUS
    <3> HIDE DEF Next1, f
    <3> QED BY <3>1
  <2>2. f = [i \in 0..0 |-> f[i]] OBVIOUS
  <2>3. Is(f, 0)
    <3> HIDE DEF Next1, f
    <3> QED BY <2>1, <2>2
  <2> QED BY <2>3
<1>2. ASSUME NEW n \in 1..m, n - 1 \in Good PROVE n \in Good
  <2>1. n \in Nat /\ n # 0 /\ n - 1 \in Nat OBVIOUS
  <2>2. PICK g : Is(g, n - 1) BY <1>2
  <2> DEFINE f == [i \in 0..n |-> IF i = n THEN Next1(g[n-1], n) ELSE g[i]]
  <2>3. ASSUME NEW i \in 0..n
        PROVE  f[i] = IF i = 0 THEN << >> ELSE Next1(f[i-1], i)
    <3>1. CASE i = n
      <4>1. n \in 0..n /\ n - 1 \in 0..n /\ n - 1 # n BY <2>1
      <4>2. f[n-1] = g[n-1] /\ f[n] = Next1(g[n-1], n)
        <5> HIDE DEF Next1
        <5> QED BY <4>1
      <4> HIDE DEF Next1, f
      <4> QED BY <2>1, <3>1, <4>2
    <3>2. CASE i # n
      <4>1. i \in 0..(n-1) BY <2>1, <3>2
      <4>2. g[i] = IF i = 0 THEN << >> ELSE Next1(g[i-1], i)
        <5> HIDE DEF Next1
        <5> QED BY <2>2, <4>1
      <4>3. f[i] = g[i] BY <3>2
      <4>4. i # 0 => f[i-1] = g[i-1] BY <2>1, <4>1
      <4> HIDE DEF Next1, f
      <4> QED BY <4>2, <4>3, <4>4
    <3> QED BY <3>1, <3>2
  <2>4. f = [i \in 0..n |-> f[i]] OBVIOUS
  <2>5. Is(f, n)
    <3> HIDE DEF Next1, f
    <3> QED BY <2>3, <2>4
  <2> QED BY <2>1, <2>5
<1>3. m \in Good
  <2>1. m \in 0..m OBVIOUS
  <2> HIDE DEF Good
  <2> QED BY <1>1, <1>2, <2>1, UpTo
<1>4. \E f : Is(f, m) BY <1>3
<1>5. Unread(k) = CHOOSE f : Is(f, m) BY DEF Unread
<1>6. Is(Unread(k), m)
  <2> HIDE DEF Is
  <2> QED BY <1>4, <1>5
<1>7. 0 \in 0..m /\ \A i \in 1..m : i \in 0..m /\ i # 0 OBVIOUS
<1> HIDE DEF Next1
<1>8. Unread(k)[0] = << >> /\ \A i \in 1..m : Unread(k)[i] = Next1(Unread(k)[i-1], i)
  BY <1>6, <1>7
<1> QED BY <1>8 DEF Next1

\* Of steers that are numbered, a session with the first of them has the numbers
\* up to its length.
LEMMA RangeOfBeginning ==
    ASSUME NEW s \in Seq(Nat), NEW t \in Seq(Nat), Begins(s, t),
           \A i \in 1..Len(t) : t[i] = i
    PROVE  Range(s) = 1..Len(s)
<1>1. Len(s) \in Nat /\ Len(t) \in Nat /\ DOMAIN s = 1..Len(s) OBVIOUS
<1>2. \A i \in 1..Len(s) : s[i] = i BY <1>1 DEF Begins
<1> QED BY <1>1, <1>2 DEF Range

\* u has the numbers after n, up to i.
Rest(n, i, u) == /\ u \in Seq(Nat)
                 /\ Len(u) = IF i <= n THEN 0 ELSE i - n
                 /\ \A j \in 1..Len(u) : u[j] = n + j

LEMMA RestGrows ==
    ASSUME NEW n \in Nat, NEW i \in Nat, i > n, NEW u, Rest(n, i - 1, u)
    PROVE  Rest(n, i, Append(u, i))
<1>1. u \in Seq(Nat) /\ Len(u) \in Nat /\ Len(u) + 1 = i - n
  <2>1. u \in Seq(Nat) /\ Len(u) = IF i - 1 <= n THEN 0 ELSE (i - 1) - n BY DEF Rest
  <2> QED BY <2>1
<1> DEFINE v == Append(u, i)
<1>2. v \in Seq(Nat) /\ Len(v) = Len(u) + 1 /\ v[Len(u) + 1] = i
      /\ \A j \in 1..Len(u) : v[j] = u[j]
  BY <1>1, AppendProperties
<1> HIDE DEF v
<1>3. ASSUME NEW j \in 1..Len(v) PROVE v[j] = n + j
  <2>1. CASE j = Len(u) + 1
    <3>1. n + j = i BY <1>1, <2>1
    <3> QED BY <1>2, <2>1, <3>1
  <2>2. CASE j # Len(u) + 1
    <3>1. j \in 1..Len(u) BY <1>1, <1>2, <2>2
    <3>2. u[j] = n + j BY <3>1 DEF Rest
    <3> QED BY <1>2, <3>1, <3>2
  <2> QED BY <2>1, <2>2
<1>4. Len(v) = i - n BY <1>1, <1>2
<1>5. ~(i <= n) OBVIOUS
<1> QED BY <1>2, <1>3, <1>4, <1>5 DEF Rest, v

LEMMA RestJoins ==
    ASSUME NEW s \in Seq(Nat), NEW t \in Seq(Nat), Begins(s, t),
           \A i \in 1..Len(t) : t[i] = i,
           NEW p, Rest(Len(s), Len(t), p)
    PROVE  /\ p \in Seq(Nat) /\ Begins(s \o p, t)
           /\ p = << >> => Len(s) = Len(t)
<1>1. Len(s) \in Nat /\ Len(t) \in Nat /\ Len(s) <= Len(t) BY DEF Begins
<1>2. p \in Seq(Nat) /\ Len(p) = IF Len(t) <= Len(s) THEN 0 ELSE Len(t) - Len(s)
  BY DEF Rest
<1>3. Len(p) = Len(t) - Len(s) /\ Len(p) \in Nat BY <1>1, <1>2
<1>4. /\ s \o p \in Seq(Nat) /\ Len(s \o p) = Len(s) + Len(p)
      /\ \A i \in 1..Len(s) + Len(p) :
            (s \o p)[i] = IF i <= Len(s) THEN s[i] ELSE p[i - Len(s)]
  BY <1>2, ConcatProperties
<1> DEFINE sp == s \o p
<1> HIDE DEF sp
<1>5. Len(sp) = Len(t) BY <1>1, <1>3, <1>4 DEF sp
<1>6. ASSUME NEW i \in 1..Len(t) PROVE sp[i] = t[i]
  <2>1. sp[i] = IF i <= Len(s) THEN s[i] ELSE p[i - Len(s)]
    BY <1>1, <1>3, <1>4 DEF sp
  <2>2. t[i] = i OBVIOUS
  <2>3. CASE i <= Len(s)
    <3>1. i \in 1..Len(s) BY <1>1, <2>3
    <3>2. s[i] = t[i] BY <3>1 DEF Begins
    <3> QED BY <2>1, <2>3, <3>2
  <2>4. CASE ~(i <= Len(s))
    <3>1. i - Len(s) \in 1..Len(p) BY <1>1, <1>3, <2>4
    <3>2. p[i - Len(s)] = Len(s) + (i - Len(s)) BY <3>1 DEF Rest
    <3>3. Len(s) + (i - Len(s)) = i BY <1>1
    <3> QED BY <2>1, <2>2, <2>4, <3>2, <3>3
  <2> QED BY <2>3, <2>4
<1>7. Begins(sp, t) BY <1>1, <1>5, <1>6 DEF Begins
<1>8. p = << >> => Len(s) = Len(t)
  <2>1. p = << >> => Len(p) = 0 OBVIOUS
  <2> QED BY <1>1, <1>3, <2>1
<1> QED BY <1>2, <1>7, <1>8 DEF sp

\* The mailbox shows what comes after what the session has.
LEMMA PendingIsRest ==
    ASSUME NEW k \in Kids, log[k].steers \in Seq(Nat), sess[k] \in Seq(Nat),
           Begins(sess[k], log[k].steers),
           \A i \in DOMAIN log[k].steers : log[k].steers[i] = i
    PROVE  /\ Pending(k) \in Seq(Nat)
           /\ Begins(sess[k] \o Pending(k), log[k].steers)
           /\ Pending(k) = << >> => Len(sess[k]) = Len(log[k].steers)
<1> DEFINE t == log[k].steers
           s == sess[k]
           u == Unread(k)
           n == Len(s)
           T == {i \in 0..Len(t) : Rest(n, i, u[i])}
<1>1. /\ Len(t) \in Nat /\ n \in Nat
      /\ t \in Seq(Nat) /\ s \in Seq(Nat) /\ Begins(s, t)
      /\ \A i \in 1..Len(t) : t[i] = i
  OBVIOUS
<1>2. Range(s) = 1..n BY <1>1, RangeOfBeginning
<1>3. /\ u[0] = << >>
      /\ \A i \in 1..Len(t) : u[i] =
            IF t[i] \in Range(s) THEN u[i-1] ELSE Append(u[i-1], t[i])
  BY <1>1, UnreadSteps, Zenon
<1>4. Pending(k) = u[Len(t)] BY DEF Pending
<1> HIDE DEF s, t, u, n
<1>5. 0 \in T
  <2>1. 0 \in 0..Len(t) /\ 0 <= n BY <1>1
  <2>2. << >> \in Seq(Nat) /\ Len(<< >>) = 0 OBVIOUS
  <2>3. \A j \in 1..Len(<< >>) : << >>[j] = n + j OBVIOUS
  <2>4. Rest(n, 0, << >>) BY <2>1, <2>2, <2>3 DEF Rest
  <2> QED BY <1>3, <2>1, <2>4
<1>6. ASSUME NEW i \in 1..Len(t), i - 1 \in T PROVE i \in T
  <2>1. i \in 0..Len(t) /\ i \in Nat BY <1>1
  <2>2. Rest(n, i - 1, u[i-1]) BY <1>6
  <2>3. t[i] = i BY <1>1
  <2>4. CASE i <= n
    <3>1. u[i] = u[i-1]
      <4>1. i \in 1..n BY <1>1, <2>4
      <4> QED BY <1>2, <1>3, <2>3, <4>1
    <3>2. i - 1 <= n BY <1>1, <2>4
    <3>3. Rest(n, i, u[i-1]) BY <2>2, <2>4, <3>2 DEF Rest
    <3> QED BY <2>1, <3>1, <3>3
  <2>5. CASE ~(i <= n)
    <3>1. i > n BY <1>1, <2>5
    <3>2. u[i] = Append(u[i-1], i)
      <4>1. i \notin 1..n BY <1>1, <2>5
      <4> QED BY <1>2, <1>3, <2>3, <4>1
    <3>3. Rest(n, i, Append(u[i-1], i)) BY <1>1, <2>1, <2>2, <3>1, RestGrows
    <3> QED BY <2>1, <3>2, <3>3
  <2> QED BY <2>4, <2>5
<1>7. Len(t) \in T
  <2>1. Len(t) \in 0..Len(t) BY <1>1
  <2> HIDE DEF T
  <2> QED BY <1>1, <1>5, <1>6, <2>1, UpTo
<1>8. Rest(Len(s), Len(t), Pending(k)) BY <1>4, <1>7 DEF n
<1> QED BY <1>1, <1>8, RestJoins DEF s, t

\* The library's word for a beginning.
LEMMA BeginsIsPrefix ==
    ASSUME NEW S, NEW s \in Seq(S), NEW t \in Seq(S), Begins(s, t)
    PROVE  IsPrefix(s, t)
<1>1. Len(s) \in Nat /\ Len(t) \in Nat /\ Len(s) <= Len(t)
  /\ \A i \in 1..Len(s) : s[i] = t[i] /\ s[i] \in S
  BY DEF Begins
<1> DEFINE u == SubSeq(s, 1, Len(s))
           v == SubSeq(t, 1, Len(s))
<1>2. u \in Seq(S) /\ Len(u) = Len(s) /\ \A i \in 1..Len(s) : u[i] = s[i]
  BY <1>1, SubSeqProperties
<1>3. v \in Seq(S) /\ Len(v) = Len(s) /\ \A i \in 1..Len(s) : v[i] = t[i]
  BY <1>1, SubSeqProperties
<1> HIDE DEF u, v
<1>4. u = v BY <1>1, <1>2, <1>3, SeqEqual
<1> QED BY <1>1, <1>4 DEF IsPrefix, u, v

-----------------------------------------------------------------------------
\* A step of a child's thread that concerns nobody else

Busy(pc) == pc \notin {"none", "done", "cascade"}

Own(k) ==
    /\ Local(k)
    /\ worker' \in [Kids -> WorkerType] /\ OthersKept(k)
    /\ Busy(worker[k].pc) /\ Busy(worker'[k].pc)
    /\ log' \in [Kids -> LogType] /\ sess' \in [Kids -> Seq(Nat)]
    /\ \A j \in Kids : j # k => log'[j] = log[j] /\ sess'[j] = sess[j]
    /\ log'[k].cancel = log[k].cancel /\ log'[k].steers = log[k].steers
    /\ events' \in Nat

\* Its log and its session are left alone, or linked is added.
Quietly(k) == sess' = sess /\ log'[k].result = log[k].result
              /\ log'[k].terminal = log[k].terminal

LEMMA Counted == ASSUME Types, Counts PROVE events' \in Nat
BY DEF Types, Counts

LEMMA NotCounted == ASSUME Types, events' = events PROVE events' \in Nat
BY DEF Types

\* The log is not touched.
LEMMA OwnPlain ==
    ASSUME Types, NEW k \in Kids, Local(k), log' = log, sess' = sess,
           worker' \in [Kids -> WorkerType], OthersKept(k),
           Busy(worker[k].pc), Busy(worker'[k].pc), events' \in Nat
    PROVE  Own(k) /\ Quietly(k)
BY DEF Types, Own, Quietly

LEMMA LogOf ==
    ASSUME Types, NEW k \in Kids, NEW m \in LogType, log' = [log EXCEPT ![k] = m]
    PROVE  /\ log' \in [Kids -> LogType] /\ log'[k] = m
           /\ \A j \in Kids : j # k => log'[j] = log[j]
BY DEF Types

\* linked is added.
LEMMA OwnLinked ==
    ASSUME Types, NEW k \in Kids, Local(k), sess' = sess,
           log' = [log EXCEPT ![k] = [log[k] EXCEPT !.linked = TRUE]],
           worker' \in [Kids -> WorkerType], OthersKept(k),
           Busy(worker[k].pc), Busy(worker'[k].pc), events' \in Nat
    PROVE  Own(k) /\ Quietly(k)
<1> DEFINE m == [log[k] EXCEPT !.linked = TRUE]
<1>1. log[k] \in LogType BY DEF Types
<1>2. /\ m \in LogType /\ m.steers = log[k].steers /\ m.cancel = log[k].cancel
      /\ m.result = log[k].result /\ m.terminal = log[k].terminal
  BY <1>1, LogLinked
<1> HIDE DEF m
<1>3. log' = [log EXCEPT ![k] = m] BY DEF m
<1>4. /\ log' \in [Kids -> LogType] /\ log'[k] = m
      /\ \A j \in Kids : j # k => log'[j] = log[j]
  BY <1>2, <1>3, LogOf
<1>5. sess' \in [Kids -> Seq(Nat)] BY DEF Types
<1>6. log'[k].cancel = log[k].cancel /\ log'[k].steers = log[k].steers
  BY <1>2, <1>4, Zenon
<1>7. \A j \in Kids : sess'[j] = sess[j] OBVIOUS
<1>8. Quietly(k) BY <1>2, <1>4, Zenon DEF Quietly
<1>9. Own(k) BY <1>4, <1>5, <1>6, <1>7, ZenonT(60) DEF Own
<1> QED BY <1>8, <1>9

\* What holds of a child stays when the step is not about it.
LEMMA SteeredElsewhere ==
    ASSUME NEW j \in Kids, Steered(j), log'[j].steers = log[j].steers,
           sess'[j] = sess[j], worker'[j] = worker[j]
    PROVE  Steered(j)'
BY DEF Steered

LEMMA RecordedElsewhere ==
    ASSUME NEW j \in Kids, Recorded(j), log'[j].result = log[j].result,
           log'[j].terminal = log[j].terminal,
           handle'[j] = handle[j], worker'[j] = worker[j]
    PROVE  Recorded(j)'
BY DEF Recorded, Alive, ResultIsDurable

\* A step that only goes on, or ends, leaves the steers as they are.
LEMMA SteeredGoesOn ==
    ASSUME Types, NEW k \in Kids, Steered(k), Own(k), sess'[k] = sess[k],
           worker'[k].missed = {},
           worker'[k].pc \notin {"asked", "inject", "save"},
           worker'[k].pc \in {"boot", "first"} =>
               worker[k].pc \in {"boot", "first"}
    PROVE  Steered(k)'
BY DEF Steered, SteersFine, Own, Busy

\* A step that leaves what is recorded alone, and that is not in the last part
\* of the thread.
LEMMA RecordedGoesOn ==
    ASSUME Types, NEW k \in Kids, Recorded(k), Own(k), Quietly(k),
           worker[k].pc # "cleared",
           worker'[k].pc \in {"persist", "cleared"} =>
               worker'[k].res.ans = "first" /\ worker'[k].res.out # "none"
    PROVE  Recorded(k)'
<1>1. Alive(k) /\ Alive(k)' BY DEF Own, Busy, Alive
<1>2. handle' = handle BY DEF Own, Local
<1>3. worker[k].pc \notin {"cleared", "cascade"} BY DEF Own, Busy
<1>4. log[k].result = NoResult /\ log[k].terminal = "none"
      /\ handle[k].st = "running"
  BY <1>1, <1>3 DEF Recorded
<1>5. log'[k].result = NoResult /\ log'[k].terminal = "none"
      /\ handle'[k].st = "running"
  BY <1>2, <1>4 DEF Quietly
<1>6. worker'[k].pc \notin {"none", "cascade"} BY DEF Own, Busy
<1> QED BY <1>1, <1>5, <1>6 DEF Recorded

-----------------------------------------------------------------------------
\* The steps of a child's thread

LEMMA BootStep ==
    ASSUME Types, NEW k \in Kids, Boot(k)
    PROVE  /\ Own(k)
           /\ Steered(k) => Steered(k)'
           /\ Recorded(k) => Recorded(k)'
<1>0. Local(k) /\ sess' = sess /\ worker[k].pc = "boot" /\ Busy(worker[k].pc)
  BY DEF Boot, At, Busy
<1>1. \/ log' = [log EXCEPT ![k] = [log[k] EXCEPT !.linked = TRUE]]
      \/ log' = log
  BY DEF Boot, Appends
<1>2. events' \in Nat
  BY Counted, NotCounted DEF Boot, Appends, NoFault
<1>3. \/ Goes(k, "first") \/ Ends(k, "cleared", "failed")
      \/ Ends(k, "persist", "failed")
  BY DEF Boot
<1>4. /\ worker' \in [Kids -> WorkerType] /\ OthersKept(k)
      /\ worker'[k].pc \in {"first", "cleared", "persist"}
      /\ worker'[k].missed = {}
      /\ worker'[k].pc # "first" => worker'[k].res = [out |-> "failed", ans |-> "first"]
  <2>1. CASE Goes(k, "first") BY <2>1, GoesShape DEF Stages
  <2>2. CASE Ends(k, "cleared", "failed") BY <2>2, EndsShape DEF Stages, Outcomes
  <2>3. CASE Ends(k, "persist", "failed") BY <2>3, EndsShape DEF Stages, Outcomes
  <2> QED BY <1>3, <2>1, <2>2, <2>3
<1>5. Busy(worker'[k].pc) BY <1>4 DEF Busy
<1>6. Own(k) /\ Quietly(k)
  BY <1>0, <1>1, <1>2, <1>4, <1>5, OwnPlain, OwnLinked
<1>7. Steered(k) => Steered(k)' BY <1>0, <1>4, <1>6, SteeredGoesOn
<1>8. Recorded(k) => Recorded(k)' BY <1>0, <1>4, <1>6, RecordedGoesOn
<1> QED BY <1>6, <1>7, <1>8

\* The thread ends, with nothing missed.
LEMMA EndStep ==
    ASSUME Types, NEW k \in Kids, Local(k), log' = log, sess' = sess, events' \in Nat,
           Busy(worker[k].pc), worker[k].pc # "cleared",
           NEW pc \in {"persist", "cleared"},
           NEW out \in Outcomes \ {"none", "completed"}, Ends(k, pc, out)
    PROVE  /\ Own(k)
           /\ Steered(k) => Steered(k)'
           /\ Recorded(k) => Recorded(k)'
<1>1. /\ worker' \in [Kids -> WorkerType] /\ OthersKept(k)
      /\ worker'[k].pc = pc /\ worker'[k].missed = {}
      /\ worker'[k].res = [out |-> out, ans |-> "first"]
  BY EndsShape DEF Stages
<1>2. Busy(worker'[k].pc) BY <1>1 DEF Busy
<1>3. Own(k) /\ Quietly(k) BY <1>1, <1>2, OwnPlain
<1>4. Steered(k) => Steered(k)' BY <1>1, <1>3, SteeredGoesOn
<1>5. Recorded(k) => Recorded(k)' BY <1>1, <1>3, RecordedGoesOn
<1> QED BY <1>3, <1>4, <1>5

\* It goes on to its tools, or to the next round.
LEMMA GoStep ==
    ASSUME Types, NEW k \in Kids, Local(k), log' = log, sess' = sess, events' \in Nat,
           Busy(worker[k].pc), worker[k].pc # "cleared",
           NEW pc \in {"tool", "round"}, Goes(k, pc)
    PROVE  /\ Own(k)
           /\ Steered(k) => Steered(k)'
           /\ Recorded(k) => Recorded(k)'
<1>1. /\ worker' \in [Kids -> WorkerType] /\ OthersKept(k)
      /\ worker'[k].pc = pc /\ worker'[k].missed = {}
  BY GoesShape DEF Stages
<1>2. Busy(worker'[k].pc) BY <1>1 DEF Busy
<1>3. Own(k) /\ Quietly(k) BY <1>1, <1>2, OwnPlain
<1>4. Steered(k) => Steered(k)' BY <1>1, <1>3, SteeredGoesOn
<1>5. Recorded(k) => Recorded(k)' BY <1>1, <1>3, RecordedGoesOn
<1> QED BY <1>3, <1>4, <1>5

\* It looks at the mailbox, after an answer or before the next question.
LEMMA ScanStep ==
    ASSUME Types, NEW k \in Kids, Local(k), log' = log, sess' = sess, events' \in Nat,
           Busy(worker[k].pc), worker[k].pc # "cleared",
           worker[k].pc \notin {"boot", "first"},
           NEW next \in {"ask", "round", "end"}, Scans(k, next),
           next = "end" => worker[k].pc = "asked"
    PROVE  /\ Own(k)
           /\ Steered(k) => Steered(k)'
           /\ Recorded(k) => Recorded(k)'
<1>1. /\ worker' \in [Kids -> WorkerType] /\ OthersKept(k)
      /\ worker'[k].pc = "inject" /\ worker'[k].next = next
      /\ worker'[k].missed = worker[k].missed /\ worker'[k].seen = worker[k].seen
  BY ScansShape
<1>2. Busy(worker'[k].pc) BY <1>1 DEF Busy
<1>3. Own(k) /\ Quietly(k) BY <1>1, <1>2, OwnPlain
<1>4. Steered(k) => Steered(k)'
  <2>1. SUFFICES ASSUME Steered(k) PROVE Steered(k)' OBVIOUS
  <2>2. next = "end" => worker[k].seen = Range(sess[k])
    BY <2>1 DEF Steered, SteersFine
  <2>3. sess'[k] = sess[k] /\ log'[k] = log[k] BY DEF Types
  <2> QED BY <1>1, <2>1, <2>2, <2>3 DEF Steered, SteersFine
<1>5. Recorded(k) => Recorded(k)' BY <1>1, <1>3, RecordedGoesOn
<1> QED BY <1>3, <1>4, <1>5

\* It asks the model, with what its session has.
LEMMA AskStep ==
    ASSUME Types, NEW k \in Kids, Local(k), log' = log, events' \in Nat,
           sess' \in [Kids -> Seq(Nat)],
           \A j \in Kids : j # k => sess'[j] = sess[j],
           Busy(worker[k].pc), worker[k].pc # "cleared",
           Asks(k, Range(sess'[k]))
    PROVE  /\ Own(k)
           /\ Steered(k) /\ Begins(sess'[k], log[k].steers) => Steered(k)'
           /\ Recorded(k) => Recorded(k)'
<1>1. PICK S : S = Range(sess'[k]) OBVIOUS
<1>2. S \in SUBSET Nat
  <2>1. sess'[k] \in Seq(Nat) OBVIOUS
  <2> QED BY <1>1, <2>1 DEF Range
<1>3. /\ worker' \in [Kids -> WorkerType] /\ OthersKept(k)
      /\ worker'[k].pc = "asked" /\ worker'[k].seen = S
      /\ worker'[k].missed = worker[k].missed
  BY <1>1, <1>2, AsksShape
<1>4. Busy(worker'[k].pc) BY <1>3 DEF Busy
<1>5. Own(k) BY <1>3, <1>4 DEF Own, Types
<1>6. Steered(k) /\ Begins(sess'[k], log[k].steers) => Steered(k)'
  <2>1. SUFFICES ASSUME Steered(k), Begins(sess'[k], log[k].steers)
                 PROVE  Steered(k)'
    OBVIOUS
  <2>2. worker'[k].seen = Range(sess'[k]) BY <1>1, <1>3
  <2> QED BY <1>3, <2>1, <2>2 DEF Steered, SteersFine
<1>7. Recorded(k) => Recorded(k)'
  <2>1. Alive(k) /\ Alive(k)' BY <1>3 DEF Busy, Alive
  <2>2. handle' = handle BY DEF Local
  <2>3. worker[k].pc \notin {"cleared", "cascade"} BY DEF Busy
  <2> QED BY <1>3, <2>1, <2>2, <2>3 DEF Recorded, ResultIsDurable
<1> QED BY <1>5, <1>6, <1>7
\* What a step of k's thread gives.
Done(k) ==
    /\ Own(k)
    /\ Steered(k) => Steered(k)'
    /\ Recorded(k) => Recorded(k)'

LEMMA RoundBeginsStep ==
    ASSUME Types, NEW k \in Kids, Steered(k), RoundBegins(k)
    PROVE  Done(k)
<1>1. /\ Local(k) /\ log' = log /\ sess' = sess
      /\ worker[k].pc \in {"first", "round"}
  BY DEF RoundBegins, facts, At
<1>2. events' \in Nat BY Counted, NotCounted DEF RoundBegins, NoFault
<1>3. Busy(worker[k].pc) BY <1>1 DEF Busy
<1>4. CASE Ends(k, "persist", "cancelled")
  BY <1>1, <1>2, <1>3, <1>4, EndStep DEF Done, Outcomes
<1>5. CASE worker[k].pc = "first" /\ Asks(k, {})
  <2>1. sess[k] = << >> /\ Begins(sess[k], log[k].steers)
    BY <1>5 DEF Steered, SteersFine
  <2>2. Range(sess'[k]) = {} BY <1>1, <2>1 DEF Range
  <2>3. sess' \in [Kids -> Seq(Nat)] BY <1>1 DEF Types
  <2>4. Asks(k, Range(sess'[k])) BY <1>5, <2>2
  <2>5. Begins(sess'[k], log[k].steers) BY <1>1, <2>1
  <2>6. \A j \in Kids : sess'[j] = sess[j] BY <1>1
  <2> QED BY <1>1, <1>2, <1>3, <1>5, <2>3, <2>4, <2>5, <2>6, AskStep DEF Done
<1>6. CASE worker[k].pc # "first" /\ Scans(k, "ask")
  BY <1>1, <1>2, <1>3, <1>6, ScanStep DEF Done
<1>7. CASE Ends(k, "persist", "refused")
  BY <1>1, <1>2, <1>3, <1>7, EndStep DEF Done, Outcomes
<1> QED BY <1>4, <1>5, <1>6, <1>7 DEF RoundBegins, At

LEMMA RoundsEndStep ==
    ASSUME Types, NEW k \in Kids, RoundsEnd(k)
    PROVE  Done(k)
<1>1. /\ Local(k) /\ log' = log /\ sess' = sess /\ worker[k].pc = "round"
      /\ Ends(k, "persist", "failed")
  BY DEF RoundsEnd, facts, At
<1>2. events' \in Nat BY Counted DEF RoundsEnd
<1>3. Busy(worker[k].pc) BY <1>1 DEF Busy
<1> QED BY <1>1, <1>2, <1>3, EndStep DEF Done, Outcomes

LEMMA AnsweredStep ==
    ASSUME Types, NEW k \in Kids, Answered(k)
    PROVE  Done(k)
<1>1. /\ Local(k) /\ log' = log /\ sess' = sess /\ worker[k].pc = "asked"
  BY DEF Answered, facts, At
<1>2. events' \in Nat BY Counted, NotCounted DEF Answered, NoFault
<1>3. Busy(worker[k].pc) BY <1>1 DEF Busy
<1>4. CASE Ends(k, "persist", "cancelled")
  BY <1>1, <1>2, <1>3, <1>4, EndStep DEF Done, Outcomes
<1>5. CASE Scans(k, "end") BY <1>1, <1>2, <1>3, <1>5, ScanStep DEF Done
<1>6. CASE Goes(k, "tool") BY <1>1, <1>2, <1>3, <1>6, GoStep DEF Done
<1>7. CASE Ends(k, "persist", "failed")
  BY <1>1, <1>2, <1>3, <1>7, EndStep DEF Done, Outcomes
<1>8. CASE Goes(k, "round") BY <1>1, <1>2, <1>3, <1>8, GoStep DEF Done
<1> QED BY <1>4, <1>5, <1>6, <1>7, <1>8 DEF Answered

LEMMA ToolDoneStep ==
    ASSUME Types, NEW k \in Kids, ToolDone(k)
    PROVE  Done(k)
<1>1. /\ Local(k) /\ log' = log /\ sess' = sess /\ worker[k].pc = "tool"
  BY DEF ToolDone, facts, At
<1>2. events' \in Nat BY NotCounted DEF ToolDone
<1>3. Busy(worker[k].pc) BY <1>1 DEF Busy
<1>4. CASE Ends(k, "persist", "cancelled")
  BY <1>1, <1>2, <1>3, <1>4, EndStep DEF Done, Outcomes
<1>5. CASE Scans(k, "round") BY <1>1, <1>2, <1>3, <1>5, ScanStep DEF Done
<1> QED BY <1>4, <1>5 DEF ToolDone

\* The thread has its answer, and everything queued was in its session when it
\* asked.
LEMMA CompletedStep ==
    ASSUME Types, NEW k \in Kids, Local(k), log' = log, sess' = sess, events' \in Nat,
           worker[k].pc = "inject", worker[k].next = "end", Steered(k),
           Len(sess[k]) = Len(log[k].steers), Ends(k, "persist", "completed")
    PROVE  Done(k)
<1>1. /\ log[k].steers \in Seq(Nat) /\ sess[k] \in Seq(Nat)
      /\ Begins(sess[k], log[k].steers)
      /\ \A i \in DOMAIN log[k].steers : log[k].steers[i] = i
      /\ worker[k].seen = Range(sess[k])
  BY DEF Types, LogType, Steered, SteersFine
<1>2. Range(sess[k]) = 1..Len(sess[k])
  <2>1. \A i \in 1..Len(log[k].steers) : log[k].steers[i] = i BY <1>1
  <2> QED BY <1>1, <2>1, RangeOfBeginning
<1>3. Range(log[k].steers) \subseteq 1..Len(log[k].steers)
  <2>1. DOMAIN log[k].steers = 1..Len(log[k].steers) BY <1>1
  <2> QED BY <1>1, <2>1 DEF Range
<1>4. /\ worker' \in [Kids -> WorkerType] /\ OthersKept(k)
      /\ worker'[k].pc = "persist"
      /\ worker'[k].missed = Range(log[k].steers) \ worker[k].seen
      /\ worker'[k].res = [out |-> "completed", ans |-> "first"]
  BY EndsShape DEF Stages, Outcomes
<1>5. worker'[k].missed = {} BY <1>1, <1>2, <1>3, <1>4
<1>6. Busy(worker[k].pc) /\ Busy(worker'[k].pc) BY <1>4 DEF Busy
<1>7. Own(k) /\ Quietly(k) BY <1>4, <1>6, OwnPlain
<1>8. Steered(k) => Steered(k)' BY <1>4, <1>5, <1>7, SteeredGoesOn
<1>9. Recorded(k) => Recorded(k)' BY <1>4, <1>7, RecordedGoesOn
<1> QED BY <1>7, <1>8, <1>9 DEF Done

LEMMA InjectReadStep ==
    ASSUME Types, NEW k \in Kids, Steered(k), InjectRead(k)
    PROVE  Done(k)
<1>1. /\ Local(k) /\ log' = log /\ sess' = sess /\ worker[k].pc = "inject"
  BY DEF InjectRead, facts, At
<1>2. events' \in Nat BY NotCounted DEF InjectRead
<1>3. Busy(worker[k].pc) BY <1>1 DEF Busy
<1>4. /\ log[k].steers \in Seq(Nat) /\ sess[k] \in Seq(Nat)
      /\ Begins(sess[k], log[k].steers)
      /\ \A i \in DOMAIN log[k].steers : log[k].steers[i] = i
  BY DEF Types, LogType, Steered, SteersFine
<1>5. /\ Pending(k) \in Seq(Nat)
      /\ Begins(sess[k] \o Pending(k), log[k].steers)
      /\ Pending(k) = << >> => Len(sess[k]) = Len(log[k].steers)
  BY <1>4, PendingIsRest
<1>6. CASE Pending(k) = << >>
  <2>1. Injected(k) BY <1>6 DEF InjectRead
  <2>2. CASE Asks(k, Range(sess'[k]))
    <3>1. sess' \in [Kids -> Seq(Nat)] BY <1>1 DEF Types
    <3>2. Begins(sess'[k], log[k].steers) BY <1>1, <1>4
    <3>3. \A j \in Kids : sess'[j] = sess[j] BY <1>1
    <3> QED BY <1>1, <1>2, <1>3, <2>2, <3>1, <3>2, <3>3, AskStep DEF Done
  <2>3. CASE worker[k].next = "end" /\ Ends(k, "persist", "completed")
    BY <1>1, <1>2, <1>5, <1>6, <2>3, CompletedStep
  <2>4. CASE Goes(k, "round") BY <1>1, <1>2, <1>3, <2>4, GoStep DEF Done
  <2> QED BY <2>1, <2>2, <2>3, <2>4 DEF Injected
<1>7. CASE Pending(k) # << >>
  <2>1. PICK b \in Seq(Nat) : b = Pending(k) BY <1>5
  <2> DEFINE w == [worker[k] EXCEPT !.pc = "save", !.batch = b]
  <2>2. worker' = [worker EXCEPT ![k] = w]
    BY <1>7, <2>1 DEF InjectRead, Becomes
  <2>3. worker[k] \in WorkerType BY DEF Types
  <2>4. /\ w \in WorkerType /\ w.pc = "save" /\ w.batch = b
        /\ w.next = worker[k].next /\ w.seen = worker[k].seen
        /\ w.missed = worker[k].missed
    BY <2>3 DEF WorkerType, Stages
  <2> HIDE DEF w
  <2>5. worker' \in [Kids -> WorkerType] /\ OthersKept(k) /\ worker'[k] = w
    BY <2>2, <2>4 DEF Types, OthersKept
  <2>6. Busy(worker'[k].pc) BY <2>4, <2>5 DEF Busy
  <2>7. Own(k) /\ Quietly(k) BY <1>1, <1>2, <1>3, <2>5, <2>6, OwnPlain
  <2>8. Steered(k)'
    <3>1. /\ worker[k].next = "end" => worker[k].seen = Range(sess[k])
          /\ worker[k].missed = {}
      BY <1>1 DEF Steered, SteersFine
    <3>2. SteersFine(log[k].steers, sess[k], w)
      BY <1>4, <1>5, <1>7, <2>1, <2>4, <3>1 DEF SteersFine
    <3> QED BY <1>1, <2>5, <3>2 DEF Steered
  <2>9. Recorded(k) => Recorded(k)'
    BY <1>1, <2>4, <2>5, <2>7, RecordedGoesOn
  <2> QED BY <2>7, <2>8, <2>9 DEF Done
<1> QED BY <1>6, <1>7

LEMMA Longer == ASSUME NEW n \in Nat, NEW m \in Nat, m # 0 PROVE n + m # n
OBVIOUS

LEMMA InjectSaveStep ==
    ASSUME Types, NEW k \in Kids, Steered(k), InjectSave(k)
    PROVE  Done(k)
<1>1. /\ Local(k) /\ log' = log /\ worker[k].pc = "save"
  BY DEF InjectSave, At
<1>2. events' \in Nat BY Counted, NotCounted DEF InjectSave, NoFault
<1>3. Busy(worker[k].pc) BY <1>1 DEF Busy
<1>4. CASE sess' = sess /\ Ends(k, "persist", "failed")
  BY <1>1, <1>2, <1>3, <1>4, EndStep DEF Done, Outcomes
<1>5. CASE sess' = [sess EXCEPT ![k] = sess[k] \o worker[k].batch] /\ Injected(k)
  <2>1. PICK s : s = sess[k] \o worker[k].batch OBVIOUS
  <2>2. sess[k] \in Seq(Nat) /\ worker[k].batch \in Seq(Nat)
    BY DEF Types, WorkerType
  <2>3. worker[k].batch # << >> /\ Begins(s, log[k].steers)
    BY <1>1, <2>1 DEF Steered, SteersFine
  <2>4. s \in Seq(Nat) /\ Len(s) = Len(sess[k]) + Len(worker[k].batch)
    BY <2>1, <2>2, ConcatProperties
  <2>5. /\ sess' \in [Kids -> Seq(Nat)] /\ sess'[k] = s
        /\ \A j \in Kids : j # k => sess'[j] = sess[j]
    BY <1>5, <2>1, <2>4 DEF Types
  <2>6. sess'[k] # sess[k]
    <3>1. Len(worker[k].batch) \in Nat /\ Len(worker[k].batch) # 0
      BY <2>2, <2>3, EmptySeq
    <3>2. Len(sess[k]) \in Nat BY <2>2
    <3>3. Len(s) # Len(sess[k]) BY <2>4, <3>1, <3>2, Longer
    <3> QED BY <2>5, <3>3
  <2>7. CASE Asks(k, Range(sess'[k]))
    BY <1>1, <1>2, <1>3, <2>3, <2>5, <2>7, AskStep DEF Done
  <2>8. CASE Goes(k, "round")
    <3>1. /\ worker' \in [Kids -> WorkerType] /\ OthersKept(k)
          /\ worker'[k].pc = "round" /\ worker'[k].missed = {}
      BY <2>8, GoesShape DEF Stages
    <3>2. Busy(worker'[k].pc) BY <3>1 DEF Busy
    <3>3. Own(k) BY <1>1, <1>2, <1>3, <2>5, <3>1, <3>2 DEF Own, Types
    <3>4. Steered(k)'
      <4>1. \A i \in DOMAIN log[k].steers : log[k].steers[i] = i
        BY DEF Steered, SteersFine
      <4>2. SteersFine(log[k].steers, s, worker'[k])
        BY <2>3, <3>1, <4>1 DEF SteersFine
      <4> QED BY <1>1, <2>5, <4>2 DEF Steered
    <3>5. Recorded(k) => Recorded(k)'
      <4>1. Alive(k) /\ Alive(k)' BY <1>3, <3>2 DEF Busy, Alive
      <4>2. handle' = handle BY <1>1 DEF Local
      <4> QED BY <1>1, <3>1, <4>1, <4>2 DEF Recorded, ResultIsDurable
    <3> QED BY <3>3, <3>4, <3>5 DEF Done
  <2> QED BY <1>5, <2>6, <2>7, <2>8 DEF Injected
<1> QED BY <1>4, <1>5 DEF InjectSave

LEMMA PersistStep ==
    ASSUME Types, NEW k \in Kids, Persist(k)
    PROVE  Done(k)
<1>1. Local(k) /\ sess' = sess /\ worker[k].pc = "persist" /\ Goes(k, "cleared")
  BY DEF Persist, At
<1>2. events' \in Nat
  BY Counted, NotCounted DEF Persist, Appends, AppendFails, NoFault
<1>3. /\ worker' \in [Kids -> WorkerType] /\ OthersKept(k)
      /\ worker'[k].pc = "cleared" /\ worker'[k].missed = {}
      /\ worker'[k].res = worker[k].res
  BY <1>1, GoesShape DEF Stages
<1>4. Busy(worker[k].pc) /\ Busy(worker'[k].pc) BY <1>1, <1>3 DEF Busy
<1>5. worker[k].res \in Results /\ log[k] \in LogType BY DEF Types, WorkerType
<1>6. PICK m \in LogType :
        /\ log'[k] = m /\ m.steers = log[k].steers /\ m.cancel = log[k].cancel
        /\ m.terminal = log[k].terminal
        /\ m.result \in {log[k].result, worker[k].res}
        /\ log' \in [Kids -> LogType]
        /\ \A j \in Kids : j # k => log'[j] = log[j]
  <2>1. CASE log' = log BY <1>5, <2>1 DEF Types
  <2>2. CASE log' = [log EXCEPT ![k] = [log[k] EXCEPT !.result = worker[k].res]]
    <3> DEFINE m == [log[k] EXCEPT !.result = worker[k].res]
    <3>1. /\ m \in LogType /\ m.steers = log[k].steers /\ m.cancel = log[k].cancel
          /\ m.result = worker[k].res /\ m.terminal = log[k].terminal
      BY <1>5, LogResult
    <3>2. log' = [log EXCEPT ![k] = m] BY <2>2
    <3> HIDE DEF m
    <3>3. /\ log' \in [Kids -> LogType] /\ log'[k] = m
          /\ \A j \in Kids : j # k => log'[j] = log[j]
      BY <3>1, <3>2, LogOf
    <3> QED BY <3>1, <3>3
  <2> QED BY <2>1, <2>2 DEF Persist, Appends, AppendFails
<1>7. Own(k)
  <2>1. sess' \in [Kids -> Seq(Nat)] BY <1>1 DEF Types
  <2> QED BY <1>1, <1>2, <1>3, <1>4, <1>6, <2>1 DEF Own
<1>8. Steered(k) => Steered(k)' BY <1>1, <1>3, <1>7, SteeredGoesOn
<1>9. Recorded(k) => Recorded(k)'
  <2>1. Alive(k) /\ Alive(k)' BY <1>4 DEF Busy, Alive
  <2>2. handle' = handle BY <1>1 DEF Local
  <2> QED BY <1>1, <1>3, <1>6, <2>1, <2>2 DEF Recorded
<1> QED BY <1>7, <1>8, <1>9 DEF Done

\* The refused child's thread never started; the parent's does this in its place.
LEMMA StartRefusedStep ==
    ASSUME Types, NEW a \in Agents, StartRefused(a)
    PROVE  \E k \in Kids : k = waits[a] /\ Done(k)
<1>1. PICK k : k = waits[a] OBVIOUS
<1>2. /\ k # None /\ worker[k].pc = "boot" /\ Ends(k, "cleared", "refused")
      /\ Local(k) /\ log' = log /\ sess' = sess
  BY <1>1 DEF StartRefused, facts, At, Local
<1>3. k \in Kids BY <1>1, <1>2 DEF Types
<1>4. events' \in Nat BY Counted DEF StartRefused
<1>5. Busy(worker[k].pc) BY <1>2 DEF Busy
<1> QED BY <1>1, <1>2, <1>3, <1>4, <1>5, EndStep DEF Done, Outcomes

-----------------------------------------------------------------------------
\* A step of one child's thread preserves the invariants

LEMMA OwnBase ==
    ASSUME Base, NEW k \in Kids, Own(k)
    PROVE  Base'
<1>1. /\ kin' = kin /\ active' = active /\ waits' = waits /\ signal' = signal
      /\ handle' = handle /\ run' = run /\ stop' = stop /\ stopped' = stopped
      /\ rows' = rows
  BY DEF Own, Local, tree, parent
<1>2. Types' BY <1>1 DEF Base, Types, Own
<1>3. \A j \in Kids : /\ worker'[j].pc = "none" <=> worker[j].pc = "none"
                      /\ worker'[j].pc = "done" <=> worker[j].pc = "done"
  BY DEF Own, Busy, OthersKept
<1>4. Drawn' BY <1>1, <1>3 DEF Base, Drawn, Started, Alive
<1> QED BY <1>2, <1>4 DEF Base

LEMMA OwnReasons ==
    ASSUME Base, Reasons, NEW k \in Kids, Own(k)
    PROVE  Reasons'
<1>1. /\ kin' = kin /\ signal' = signal /\ run' = run /\ stop' = stop
      /\ stopped' = stopped /\ rows' = rows
  BY DEF Own, Local, tree, parent
<1>2. \A j \in Kids : log'[j].cancel = log[j].cancel BY DEF Own
<1>3. \A j \in Kids : worker'[j].pc \in {"cascade", "done"} <=>
                      worker[j].pc \in {"cascade", "done"}
  BY DEF Own, Busy, OthersKept
<1>4. ASSUME NEW j \in Kids, Started(j) PROVE Doomed(j)' <=> Doomed(j)
  <2>1. kin[j].parent \in Kids \union {Root}
    BY <1>4 DEF Base, Types, Started, Agents
  <2> QED BY <1>1, <1>3, <2>1 DEF Doomed
<1>5. \A j \in Kids : Started(j)' <=> Started(j) BY <1>1 DEF Started
<1>6. \A c \in Cancellers : rows[c] \subseteq Kids BY DEF Base, Types
<1> QED BY <1>1, <1>2, <1>4, <1>5, <1>6 DEF Reasons

LEMMA OwnQuiet ==
    ASSUME Base, Quiet, NEW k \in Kids, Own(k)
    PROVE  Quiet'
<1>1. /\ kin' = kin /\ active' = active /\ signal' = signal /\ run' = run
      /\ rows' = rows /\ broken' = broken
  BY DEF Own, Local, tree, parent
<1>2. \A j \in Kids : /\ worker'[j].pc = "done" <=> worker[j].pc = "done"
                      /\ worker'[j].pc = "cascade" <=> worker[j].pc = "cascade"
  BY DEF Own, Busy, OthersKept
<1>3. ASSUME NEW j \in active PROVE Orphan(j)' <=> Orphan(j)
  <2>1. j \in Kids /\ Started(j) BY <1>3 DEF Base, Types, Drawn, Alive
  <2>2. kin[j].parent \in Kids \union {Root}
    BY <2>1 DEF Base, Types, Started, Agents
  <2> QED BY <1>1, <1>2, <2>2 DEF Orphan, At
<1> QED BY <1>1, <1>2, <1>3 DEF Quiet, Children, OfThisRun, Told, At

LEMMA OwnSteers ==
    ASSUME Steers, NEW k \in Kids, Done(k)
    PROVE  Steers'
<1>1. ASSUME NEW j \in Kids PROVE Steered(j)'
  <2>1. CASE j = k BY <2>1 DEF Steers, Done
  <2>2. CASE j # k
    <3>1. log'[j] = log[j] /\ sess'[j] = sess[j] /\ worker'[j] = worker[j]
      BY <2>2 DEF Done, Own, OthersKept
    <3> QED BY <3>1, SteeredElsewhere DEF Steers
  <2> QED BY <2>1, <2>2
<1> QED BY <1>1 DEF Steers

LEMMA OwnRecords ==
    ASSUME Records, NEW k \in Kids, Done(k)
    PROVE  Records'
<1>1. ASSUME NEW j \in Kids PROVE Recorded(j)'
  <2>1. CASE j = k BY <2>1 DEF Records, Done
  <2>2. CASE j # k
    <3>1. log'[j] = log[j] /\ handle'[j] = handle[j] /\ worker'[j] = worker[j]
      BY <2>2 DEF Done, Own, Local, OthersKept
    <3> QED BY <3>1, RecordedElsewhere DEF Records
  <2> QED BY <2>1, <2>2
<1> QED BY <1>1 DEF Records
-----------------------------------------------------------------------------
\* Types and Drawn, for the steps that more than one actor takes part in

\* The child that is drawn next.
LEMMA DrawnNext ==
    ASSUME Base, NEW k \in Kids,
           k = 1 + Cardinality({c \in Kids : kin[c].parent # None})
    PROVE  \A j \in Kids : Started(j) <=> j < k
<1> DEFINE S == {c \in Kids : Started(c)}
           T == {c \in Kids : ~Started(c)}
<1>1. k = 1 + Cardinality(S) BY DEF Started
<1>2. CASE T = {}
  <2>1. S = 1..MaxKids BY <1>2 DEF Kids
  <2>2. Cardinality(S) = MaxKids
    <3>1. 1 \in Int /\ MaxKids \in Int BY BoundAssumption
    <3>2. Cardinality(1..MaxKids) = IF 1 > MaxKids THEN 0 ELSE MaxKids - 1 + 1
      BY <3>1, FS_Interval, Zenon
    <3>3. (IF 1 > MaxKids THEN 0 ELSE MaxKids - 1 + 1) = MaxKids BY BoundAssumption
    <3> HIDE DEF S
    <3> QED BY <2>1, <3>2, <3>3
  <2>3. k = 1 + MaxKids /\ k \in 1..MaxKids BY <1>1, <2>2 DEF Kids
  <2> QED BY <2>3, BoundAssumption
<1>3. CASE T # {}
  <2>1. T \in SUBSET Nat BY BoundAssumption DEF Kids
  <2>2. PICK m \in T : \A x \in T : m <= x
    <3> HIDE DEF T
    <3> QED BY <1>3, <2>1, LeastExists
  <2>3. m \in Kids /\ ~Started(m) /\ m \in Nat /\ m >= 1
    BY BoundAssumption DEF Kids
  <2>4. ASSUME NEW j \in Kids PROVE Started(j) <=> j < m
    <3>1. j \in Nat BY BoundAssumption DEF Kids
    <3>2. CASE j < m
      <4>1. j \notin T BY <2>2, <2>3, <3>1, <3>2
      <4> QED BY <3>2, <4>1
    <3>3. CASE ~(j < m)
      <4>1. j = m \/ m < j BY <2>3, <3>1, <3>3
      <4>2. m < j /\ Started(j) => Started(m) BY <2>3 DEF Base, Drawn
      <4> QED BY <2>3, <3>3, <4>1, <4>2
    <3> QED BY <3>2, <3>3
  <2>5. S = 1..(m - 1)
    <3>1. \A j : j \in S <=> j \in Kids /\ j < m BY <2>4
    <3>2. \A j : j \in Kids /\ j < m <=> j \in 1..(m - 1)
      BY <2>3, BoundAssumption DEF Kids
    <3> HIDE DEF S
    <3> QED BY <3>1, <3>2
  <2>6. Cardinality(S) = m - 1
    <3>1. 1 \in Int /\ m - 1 \in Int BY <2>3
    <3>2. Cardinality(1..(m-1)) = IF 1 > m - 1 THEN 0 ELSE (m - 1) - 1 + 1
      BY <3>1, FS_Interval, Zenon
    <3>3. (IF 1 > m - 1 THEN 0 ELSE (m - 1) - 1 + 1) = m - 1 BY <2>3
    <3> HIDE DEF S
    <3> QED BY <2>5, <3>2, <3>3
  <2>7. k = m BY <1>1, <2>3, <2>6
  <2> QED BY <2>4, <2>7
<1> QED BY <1>2, <1>3

\* What the parts of a reservation come to.
LEMMA ReserveShape ==
    ASSUME Base, NEW a \in Agents, NEW k \in Kids, Reserve(a, k)
    PROVE  /\ ~Started(k) /\ \A j \in Kids : Started(j) <=> j < k
           /\ worker' \in [Kids -> WorkerType] /\ OthersKept(k)
           /\ worker'[k].pc = "boot"
           /\ worker'[k].missed = worker[k].missed
           /\ kin' \in [Kids -> [parent : Agents \union {None}, gen : 0..MaxRuns]]
           /\ kin'[k].parent = a
           /\ kin'[k].gen = IF a = Root THEN run.gen ELSE 0
           /\ \A j \in Kids : j # k => kin'[j] = kin[j]
           /\ a # k
           /\ a \in Kids => Started(a) /\ worker[a].pc = "tool"
<1>1. k = 1 + Cardinality({c \in Kids : kin[c].parent # None})
      /\ Working(a)
      /\ kin' = [kin EXCEPT ![k] = [parent |-> a, gen |-> IF a = Root THEN run.gen ELSE 0]]
  BY DEF Reserve
<1>2. \A j \in Kids : Started(j) <=> j < k BY <1>1, DrawnNext
<1>3. ~Started(k)
  <2>1. ~(k < k) BY BoundAssumption DEF Kids
  <2> QED BY <1>2, <2>1
<1> DEFINE w == [worker[k] EXCEPT !.pc = "boot"]
<1>4. worker' = [worker EXCEPT ![k] = w] BY DEF Reserve
<1>5. w \in WorkerType /\ w.pc = "boot" /\ w.missed = worker[k].missed
  <2>1. worker[k] \in WorkerType BY DEF Base, Types
  <2> QED BY <2>1 DEF WorkerType, Stages
<1>6. /\ worker' \in [Kids -> WorkerType] /\ OthersKept(k) /\ worker'[k] = w
  <2> HIDE DEF w
  <2> QED BY <1>4, <1>5 DEF Base, Types, OthersKept
<1>7. a \in Kids => Started(a) /\ worker[a].pc = "tool"
  BY <1>1, Apart DEF Working, At, Base, Drawn
<1>8. a # k BY <1>3, <1>7
<1>9. PICK g \in 0..MaxRuns : g = IF a = Root THEN run.gen ELSE 0
  BY BoundAssumption DEF Base, Types
<1>10. kin' = [kin EXCEPT ![k] = [parent |-> a, gen |-> g]] BY <1>1, <1>9
<1>11. /\ kin' \in [Kids -> [parent : Agents \union {None}, gen : 0..MaxRuns]]
       /\ kin'[k].parent = a /\ kin'[k].gen = g
       /\ \A j \in Kids : j # k => kin'[j] = kin[j]
  BY <1>10 DEF Base, Types
<1> HIDE DEF w
<1> QED BY <1>2, <1>3, <1>5, <1>6, <1>7, <1>8, <1>9, <1>11 DEF w

LEMMA ReserveBase ==
    ASSUME Base, NEW a \in Agents, NEW k \in Kids, Reserve(a, k)
    PROVE  Base'
<1>1. /\ ~Started(k) /\ \A j \in Kids : Started(j) <=> j < k
      /\ worker' \in [Kids -> WorkerType] /\ OthersKept(k)
      /\ worker'[k].pc = "boot"
      /\ kin' \in [Kids -> [parent : Agents \union {None}, gen : 0..MaxRuns]]
      /\ kin'[k].parent = a
      /\ kin'[k].gen = IF a = Root THEN run.gen ELSE 0
      /\ \A j \in Kids : j # k => kin'[j] = kin[j]
      /\ a \in Kids => Started(a)
  BY ReserveShape
<1>2. /\ log' = log /\ sess' = sess /\ signal' = signal /\ run' = run
      /\ stop' = stop /\ stopped' = stopped /\ rows' = rows
      /\ active' = active \union {k} /\ waits' = [waits EXCEPT ![a] = k]
      /\ handle' = [handle EXCEPT ![k] = [st |-> "running", ans |-> "none"]]
      /\ Counts
  BY DEF Reserve, facts, parent
<1>3. events' \in Nat BY <1>2, Counted DEF Base
<1>4. /\ active' \subseteq Kids /\ waits' \in [Agents -> Kids \union {None}]
      /\ handle' \in [Kids -> [st : Outcomes \union {"running", "settled"},
                               ans : Answers]]
  BY <1>2 DEF Base, Types, Answers
<1>5. Types' BY <1>1, <1>2, <1>3, <1>4 DEF Base, Types
<1>6. \A j \in Kids : Started(j)' <=> (Started(j) \/ j = k)
  BY <1>1, Apart DEF Started
<1>7. \A j \in Kids : worker'[j].pc # "none" <=> (worker[j].pc # "none" \/ j = k)
  BY <1>1 DEF OthersKept
<1>8. \A j \in Kids : Started(j)' <=> worker'[j].pc # "none"
  BY <1>6, <1>7 DEF Base, Drawn
<1>9. ASSUME NEW i \in Kids, NEW j \in Kids, i < j, Started(j)' PROVE Started(i)'
  <2>1. CASE j = k BY <1>1, <1>6, <1>9, <2>1
  <2>2. CASE Started(j)
    <3>1. Started(i) BY <1>9, <2>2 DEF Base, Drawn
    <3> QED BY <1>6, <3>1
  <2> QED BY <1>6, <1>9, <2>1, <2>2
<1>10. \A j \in Kids : Alive(j)' <=> (Alive(j) \/ j = k)
  BY <1>1 DEF OthersKept, Alive
<1>11. \A j \in Kids : j \in active' <=> Alive(j)'
  BY <1>2, <1>10 DEF Base, Drawn
<1>12. \A j \in Kids : ~Alive(j)' => signal'[j] = "none"
  BY <1>2, <1>10 DEF Base, Drawn
<1>13. \A j \in Kids : kin'[j].gen <= run'.gen
  <2>1. 0 <= run.gen /\ run.gen <= run.gen BY BoundAssumption DEF Base, Types
  <2> QED BY <1>1, <1>2, <2>1 DEF Base, Drawn
<1>14. \A j \in Kids : kin'[j].parent \in Kids => kin'[kin'[j].parent].parent # None
  <2>1. ASSUME NEW j \in Kids, NEW p \in Kids, p = kin'[j].parent
        PROVE  kin'[p].parent # None
    <3>1. Started(p) BY <1>1, <2>1 DEF Base, Drawn
    <3> QED BY <1>6, <3>1 DEF Started
  <2> QED BY <2>1
<1>15. \A b \in Agents : waits'[b] # None => kin'[waits'[b]].parent # None
  <2>1. ASSUME NEW b \in Agents, waits'[b] # None
        PROVE  kin'[waits'[b]].parent # None
    <3>1. CASE b = a BY <1>2, <1>6, <3>1 DEF Base, Types, Started
    <3>2. CASE b # a
      <4>1. waits'[b] = waits[b] /\ waits[b] \in Kids
        BY <1>2, <2>1, <3>2 DEF Base, Types
      <4>2. Started(waits[b]) BY <2>1, <4>1 DEF Base, Drawn
      <4> QED BY <1>6, <4>1, <4>2 DEF Started
    <3> QED BY <3>1, <3>2
  <2> QED BY <2>1
<1>16. Drawn' BY <1>8, <1>9, <1>11, <1>12, <1>13, <1>14, <1>15 DEF Drawn, Started
<1> QED BY <1>5, <1>16 DEF Base
LEMMA CascadeBase ==
    ASSUME Base, NEW k \in Kids, Cascade(k)
    PROVE  /\ Base'
           /\ OthersKept(k) /\ worker[k].pc = "cleared"
           /\ worker'[k].pc = "cascade" /\ worker'[k].missed = {}
           /\ worker'[k].res = worker[k].res
<1>1. /\ worker[k].pc = "cleared" /\ Goes(k, "cascade")
      /\ rows' = [rows EXCEPT ![k] = Children(k)]
      /\ log' = log /\ sess' = sess /\ kin' = kin /\ active' = active
      /\ waits' = waits /\ signal' = signal /\ handle' = handle /\ run' = run
      /\ stop' = stop /\ stopped' = stopped /\ events' = events
  BY DEF Cascade, At, facts, tree, parent, Descendants
<1>2. /\ worker' \in [Kids -> WorkerType] /\ OthersKept(k)
      /\ worker'[k].pc = "cascade" /\ worker'[k].missed = {}
      /\ worker'[k].res = worker[k].res
  BY <1>1, GoesShape DEF Stages, Base
<1>3. Children(k) \in SUBSET Kids BY DEF Children, Base, Types
<1>4. rows' \in [Cancellers -> SUBSET Kids]
  <2> HIDE DEF Children
  <2> QED BY <1>1, <1>3 DEF Base, Types
<1>5. Types' BY <1>1, <1>2, <1>4 DEF Base, Types
<1>6. \A j \in Kids : /\ worker'[j].pc = "none" <=> worker[j].pc = "none"
                      /\ Alive(j)' <=> Alive(j)
  BY <1>1, <1>2 DEF OthersKept, Alive
<1>7. Drawn' BY <1>1, <1>6 DEF Base, Drawn, Started
<1> QED BY <1>1, <1>2, <1>5, <1>7 DEF Base

LEMMA FinalizeShape ==
    ASSUME Types, NEW k \in Kids, Finalize(k)
    PROVE  /\ worker' \in [Kids -> WorkerType] /\ OthersKept(k)
           /\ worker[k].pc = "cascade" /\ rows[k] = {}
           /\ worker'[k].pc = "done" /\ worker'[k].missed = {}
           /\ log' \in [Kids -> LogType]
           /\ \A j \in Kids : j # k => log'[j] = log[j]
           /\ \A j \in Kids : /\ log'[j].steers = log[j].steers
                              /\ log'[j].cancel = log[j].cancel
                              /\ log'[j].result = log[j].result
           /\ \/ log'[k].terminal = log[k].terminal
              \/ log[k].result # NoResult /\ log'[k].terminal = worker[k].res.out
           /\ events' \in Nat
           /\ handle' \in [Kids -> [st : Outcomes \union {"running", "settled"},
                                    ans : Answers]]
           /\ handle'[k].st = worker[k].res.out
           /\ handle'[k].ans = IF Isolated THEN "noted" ELSE "first"
           /\ \A j \in Kids : j # k => handle'[j] = handle[j]
<1>1. worker[k].pc = "cascade" /\ rows[k] = {} BY DEF Finalize, At
<1>2. events' \in Nat
  BY Counted, NotCounted DEF Finalize, Appends, AppendFails, NoFault
<1> DEFINE w == [Unborn EXCEPT !.pc = "done"]
<1>3. w \in WorkerType /\ w.pc = "done" /\ w.missed = {}
  BY Small DEF Unborn, WorkerType, Stages
<1>4. worker' = [worker EXCEPT ![k] = w] BY DEF Finalize
<1> HIDE DEF w
<1>5. /\ worker' \in [Kids -> WorkerType] /\ OthersKept(k)
      /\ worker'[k].pc = "done" /\ worker'[k].missed = {}
  BY <1>3, <1>4 DEF Types, OthersKept
<1>6. worker[k].res.out \in Outcomes /\ log[k] \in LogType
  BY DEF Types, WorkerType, Results
<1>7. PICK m \in LogType :
        /\ log'[k] = m /\ m.steers = log[k].steers /\ m.cancel = log[k].cancel
        /\ m.result = log[k].result
        /\ \/ m.terminal = log[k].terminal
           \/ log[k].result # NoResult /\ m.terminal = worker[k].res.out
        /\ log' \in [Kids -> LogType]
        /\ \A j \in Kids : j # k => log'[j] = log[j]
  <2>1. CASE log' = log BY <1>6, <2>1 DEF Types
  <2>2. CASE /\ log[k].result # NoResult
             /\ log' = [log EXCEPT ![k] = [log[k] EXCEPT !.terminal = worker[k].res.out]]
    <3> DEFINE m == [log[k] EXCEPT !.terminal = worker[k].res.out]
    <3>1. /\ m \in LogType /\ m.steers = log[k].steers /\ m.cancel = log[k].cancel
          /\ m.result = log[k].result /\ m.terminal = worker[k].res.out
      BY <1>6, LogTerminal
    <3>2. log' = [log EXCEPT ![k] = m] BY <2>2
    <3> HIDE DEF m
    <3>3. /\ log' \in [Kids -> LogType] /\ log'[k] = m
          /\ \A j \in Kids : j # k => log'[j] = log[j]
      BY <3>1, <3>2, LogOf
    <3> QED BY <2>2, <3>1, <3>3
  <2> QED BY <2>1, <2>2 DEF Finalize, Appends, AppendFails, ResultIsDurable
<1>8. \A j \in Kids : /\ log'[j].steers = log[j].steers
                      /\ log'[j].cancel = log[j].cancel
                      /\ log'[j].result = log[j].result
  BY <1>7
<1> DEFINE h == [st |-> worker[k].res.out,
                 ans |-> IF Isolated THEN "noted" ELSE "first"]
<1>9. /\ h \in [st : Outcomes \union {"running", "settled"}, ans : Answers]
      /\ h.st = worker[k].res.out
      /\ h.ans = IF Isolated THEN "noted" ELSE "first"
  BY <1>6 DEF Answers
<1>10. handle' = [handle EXCEPT ![k] = h] BY DEF Finalize
<1> HIDE DEF h
<1>11. /\ handle' \in [Kids -> [st : Outcomes \union {"running", "settled"},
                                ans : Answers]]
       /\ handle'[k] = h
       /\ \A j \in Kids : j # k => handle'[j] = handle[j]
  BY <1>9, <1>10 DEF Types
<1> QED BY <1>1, <1>2, <1>5, <1>7, <1>8, <1>9, <1>11

LEMMA FinalizeBase ==
    ASSUME Base, NEW k \in Kids, Finalize(k)
    PROVE  Base'
<1>1. /\ worker' \in [Kids -> WorkerType] /\ OthersKept(k)
      /\ worker[k].pc = "cascade" /\ worker'[k].pc = "done"
      /\ log' \in [Kids -> LogType] /\ events' \in Nat
      /\ handle' \in [Kids -> [st : Outcomes \union {"running", "settled"},
                               ans : Answers]]
  BY FinalizeShape DEF Base
<1>2. /\ sess' = sess /\ kin' = kin /\ waits' = waits /\ run' = run
      /\ stop' = stop /\ stopped' = stopped /\ rows' = rows
      /\ active' = active \ {k} /\ signal' = [signal EXCEPT ![k] = "none"]
  BY DEF Finalize, parent
<1>3. active' \subseteq Kids /\ signal' \in [Kids -> {"none", "startup", "parent"}]
  BY <1>2 DEF Base, Types
<1>4. Types' BY <1>1, <1>2, <1>3 DEF Base, Types
<1>5. \A j \in Kids : /\ worker'[j].pc = "none" <=> worker[j].pc = "none"
                      /\ Alive(j)' <=> Alive(j) /\ j # k
  BY <1>1 DEF OthersKept, Alive
<1>6. \A j \in Kids : j \in active' <=> Alive(j)'
  BY <1>2, <1>5 DEF Base, Drawn
<1>7. \A j \in Kids : ~Alive(j)' => signal'[j] = "none"
  BY <1>2, <1>5 DEF Base, Drawn, Types
<1>8. Drawn' BY <1>2, <1>5, <1>6, <1>7 DEF Base, Drawn, Started
<1> QED BY <1>4, <1>8 DEF Base

LEMMA StartReturnsBase ==
    ASSUME Base, NEW a \in Agents, StartReturns(a)
    PROVE  Base'
<1>1. /\ log' = log /\ sess' = sess /\ kin' = kin /\ active' = active
      /\ signal' = signal /\ handle' = handle /\ worker' = worker /\ run' = run
      /\ stop' = stop /\ stopped' = stopped /\ rows' = rows /\ events' = events
      /\ waits' = [waits EXCEPT ![a] = None]
  BY DEF StartReturns, facts, parent
<1>2. Types' BY <1>1 DEF Base, Types
<1>3. \A b \in Agents : waits'[b] # None => waits'[b] = waits[b]
  BY <1>1 DEF Base, Types
<1>4. Drawn' BY <1>1, <1>3 DEF Base, Drawn, Started, Alive
<1> QED BY <1>2, <1>4 DEF Base

LEMMA StartTimesOutShape ==
    ASSUME Base, NEW a \in Agents, StartTimesOut(a)
    PROVE  \E k \in Kids :
             /\ k = waits[a] /\ worker[k].pc = "boot"
             /\ signal' = [signal EXCEPT ![k] = IF signal[k] = "none"
                                                THEN "startup" ELSE signal[k]]
             /\ waits' = [waits EXCEPT ![a] = None]
             /\ Counts
             /\ UNCHANGED <<facts, kin, active, handle, worker, parent, rows>>
<1>1. PICK k : k = waits[a] OBVIOUS
<1>2. k \in Kids BY <1>1 DEF StartTimesOut, Base, Types
<1> QED BY <1>1, <1>2 DEF StartTimesOut, At

LEMMA StartTimesOutBase ==
    ASSUME Base, NEW a \in Agents, StartTimesOut(a)
    PROVE  Base'
<1>1. PICK k \in Kids :
        /\ worker[k].pc = "boot"
        /\ signal' = [signal EXCEPT ![k] = IF signal[k] = "none"
                                           THEN "startup" ELSE signal[k]]
        /\ waits' = [waits EXCEPT ![a] = None]
        /\ Counts
        /\ UNCHANGED <<facts, kin, active, handle, worker, parent, rows>>
  BY StartTimesOutShape
<1>2. /\ log' = log /\ sess' = sess /\ kin' = kin /\ active' = active
      /\ handle' = handle /\ worker' = worker /\ run' = run
      /\ stop' = stop /\ stopped' = stopped /\ rows' = rows
  BY <1>1 DEF facts, parent
<1>3. events' \in Nat BY <1>1, Counted DEF Base
<1>4. PICK s \in {"startup", "parent"} : signal' = [signal EXCEPT ![k] = s]
  BY <1>1 DEF Base, Types
<1>5. Types' BY <1>1, <1>2, <1>3, <1>4 DEF Base, Types
<1>6. \A b \in Agents : waits'[b] # None => waits'[b] = waits[b]
  BY <1>1 DEF Base, Types
<1>7. \A j \in Kids : ~Alive(j)' => signal'[j] = "none"
  BY <1>1, <1>2, <1>4 DEF Base, Drawn, Alive, Types
<1>8. Drawn' BY <1>2, <1>6, <1>7 DEF Base, Drawn, Started, Alive
<1> QED BY <1>5, <1>8 DEF Base

\* What a step of cancel_parent comes to.
LEMMA CancelShape ==
    ASSUME Base, NEW c \in Cancellers, CancelStep(c)
    PROVE  \E k \in rows[c] :
             /\ k \in Kids
             /\ log' \in [Kids -> LogType]
             /\ \A j \in Kids : j # k => log'[j].cancel = log[j].cancel
             /\ \A j \in Kids : /\ log'[j].steers = log[j].steers
                                /\ log'[j].result = log[j].result
                                /\ log'[j].terminal = log[j].terminal
             /\ events' \in Nat
             /\ signal' \in [Kids -> {"none", "startup", "parent"}]
             /\ \A j \in Kids : j # k => signal'[j] = signal[j]
             /\ k \in active => signal'[k] # "none"
             /\ k \notin active => signal'[k] = signal[k]
             /\ rows' \in [Cancellers -> SUBSET Kids]
             /\ \A d \in Cancellers : d # c => rows'[d] = rows[d]
             /\ rows'[c] = (rows[c] \ {k}) \union
                           (IF k \in active THEN Children(k) ELSE {})
<1>1. PICK k \in rows[c] :
        /\ Appends(k, [log[k] EXCEPT !.cancel = TRUE]) \/ AppendFails
        /\ IF k \in active
           THEN /\ signal' = [signal EXCEPT ![k] = IF signal[k] = "none"
                                                   THEN "parent" ELSE signal[k]]
                /\ rows' = [rows EXCEPT ![c] = (rows[c] \ {k}) \union Children(k)]
           ELSE /\ rows' = [rows EXCEPT ![c] = rows[c] \ {k}]
                /\ UNCHANGED signal
  BY DEF CancelStep
<1>2. k \in Kids BY DEF Base, Types
<1>3. events' \in Nat
  BY <1>1, Counted, NotCounted DEF Appends, AppendFails, NoFault, Base
<1>4. log[k] \in LogType BY <1>2 DEF Base, Types
<1>5. PICK m \in LogType :
        /\ m.steers = log[k].steers
        /\ m.result = log[k].result /\ m.terminal = log[k].terminal
        /\ log' \in [Kids -> LogType] /\ log'[k] = m
        /\ \A j \in Kids : j # k => log'[j] = log[j]
  <2>1. CASE log' = log BY <1>2, <1>4, <2>1 DEF Base, Types
  <2>2. CASE log' = [log EXCEPT ![k] = [log[k] EXCEPT !.cancel = TRUE]]
    <3> DEFINE m == [log[k] EXCEPT !.cancel = TRUE]
    <3>1. /\ m \in LogType /\ m.steers = log[k].steers
          /\ m.result = log[k].result /\ m.terminal = log[k].terminal
      BY <1>4, LogCancelled
    <3>2. log' = [log EXCEPT ![k] = m] BY <2>2
    <3> HIDE DEF m
    <3>3. /\ log' \in [Kids -> LogType] /\ log'[k] = m
          /\ \A j \in Kids : j # k => log'[j] = log[j]
      BY <1>2, <3>1, <3>2, LogOf DEF Base
    <3> QED BY <3>1, <3>3
  <2> QED BY <1>1, <2>1, <2>2 DEF Appends, AppendFails
<1>6. /\ \A j \in Kids : j # k => log'[j].cancel = log[j].cancel
      /\ \A j \in Kids : /\ log'[j].steers = log[j].steers
                         /\ log'[j].result = log[j].result
                         /\ log'[j].terminal = log[j].terminal
  BY <1>5
<1>7. Children(k) \in SUBSET Kids BY DEF Children, Base, Types
<1>8. /\ signal' \in [Kids -> {"none", "startup", "parent"}]
      /\ \A j \in Kids : j # k => signal'[j] = signal[j]
      /\ k \in active => signal'[k] # "none"
      /\ k \notin active => signal'[k] = signal[k]
  <2>1. CASE k \in active
    <3>1. PICK s \in {"startup", "parent"} : signal' = [signal EXCEPT ![k] = s]
      BY <1>1, <1>2, <2>1 DEF Base, Types
    <3> QED BY <1>2, <2>1, <3>1 DEF Base, Types
  <2>2. CASE k \notin active BY <1>1, <2>2 DEF Base, Types
  <2> QED BY <2>1, <2>2
<1>9. PICK C \in SUBSET Kids : C = IF k \in active THEN Children(k) ELSE {}
  BY <1>7
<1>10. rows' = [rows EXCEPT ![c] = (rows[c] \ {k}) \union C]
  BY <1>1, <1>9
<1>11. /\ rows' \in [Cancellers -> SUBSET Kids]
       /\ \A d \in Cancellers : d # c => rows'[d] = rows[d]
       /\ rows'[c] = (rows[c] \ {k}) \union C
  BY <1>10 DEF Base, Types
<1> QED BY <1>2, <1>3, <1>5, <1>6, <1>8, <1>9, <1>11

LEMMA CancelBase ==
    ASSUME Base, NEW c \in Cancellers, CancelStep(c)
    PROVE  Base'
<1>1. PICK k \in Kids :
        /\ log' \in [Kids -> LogType] /\ events' \in Nat
        /\ signal' \in [Kids -> {"none", "startup", "parent"}]
        /\ \A j \in Kids : j # k => signal'[j] = signal[j]
        /\ k \notin active => signal'[k] = signal[k]
        /\ rows' \in [Cancellers -> SUBSET Kids]
  BY CancelShape
<1>2. /\ sess' = sess /\ kin' = kin /\ active' = active /\ waits' = waits
      /\ handle' = handle /\ worker' = worker /\ run' = run /\ stop' = stop
      /\ stopped' = stopped
  BY DEF CancelStep, tree, parent
<1>3. Types' BY <1>1, <1>2 DEF Base, Types
<1>4. \A j \in Kids : ~Alive(j)' => signal'[j] = "none"
  BY <1>1, <1>2 DEF Base, Drawn, Alive
<1>5. Drawn' BY <1>2, <1>4 DEF Base, Drawn, Started, Alive
<1> QED BY <1>3, <1>5 DEF Base
\* The root's steps that leave the children's own state alone.
LEMMA RootBase ==
    ASSUME Base,
           log' \in [Kids -> LogType], sess' = sess, kin' = kin, active' = active,
           signal' = signal, worker' = worker, waits' = waits,
           handle' \in [Kids -> [st : Outcomes \union {"running", "settled"},
                                 ans : Answers]],
           run' \in [gen : 0..MaxRuns, pc : {"work", "closing", "ended"}],
           run'.gen = run.gen \/ run'.gen = run.gen + 1,
           stop' \in 0..MaxRuns, stopped' \in SUBSET (0..MaxRuns),
           rows' \in [Cancellers -> SUBSET Kids], events' \in Nat
    PROVE  Base'
<1>1. Types' BY DEF Base, Types
<1>2. \A j \in Kids : kin'[j].gen <= run'.gen
  <2>1. ASSUME NEW j \in Kids PROVE kin[j].gen <= run'.gen
    <3>1. kin[j].gen \in 0..MaxRuns /\ run.gen \in 0..MaxRuns
          /\ kin[j].gen <= run.gen
      BY DEF Base, Types, Drawn
    <3>2. PICK n \in Nat : n = kin[j].gen BY <3>1, BoundAssumption
    <3>3. PICK g \in Nat : g = run.gen BY <3>1, BoundAssumption
    <3>4. n <= g /\ n <= g + 1 BY <3>1, <3>2, <3>3
    <3> QED BY <3>2, <3>3, <3>4
  <2> QED BY <2>1
<1>3. Drawn' BY <1>2 DEF Base, Drawn, Started, Alive
<1> QED BY <1>1, <1>3 DEF Base

LEMMA OfRunType == ASSUME Base, NEW g PROVE OfRun(g) \in SUBSET Kids
BY DEF OfRun, Children, Base, Types

LEMMA StartRunBase ==
    ASSUME Base, StartRun
    PROVE  Base' /\ run'.gen = run.gen + 1 /\ run'.pc = "work" /\ run.gen \in Nat
<1>1. /\ run.gen < MaxRuns /\ run' = [gen |-> run.gen + 1, pc |-> "work"]
      /\ log' = log /\ sess' = sess /\ kin' = kin /\ active' = active
      /\ signal' = signal /\ worker' = worker /\ waits' = waits
      /\ handle' = handle /\ stop' = stop /\ stopped' = stopped /\ rows' = rows
  BY DEF StartRun, facts, tree
<1>2. events' \in Nat BY Counted DEF StartRun, Base
<1>3. run.gen + 1 \in 0..MaxRuns /\ run.gen \in Nat
  BY <1>1, BoundAssumption DEF Base, Types
<1>4. run' \in [gen : 0..MaxRuns, pc : {"work", "closing", "ended"}]
      /\ run'.gen = run.gen + 1 /\ run'.pc = "work"
  BY <1>1, <1>3
<1>5. /\ log \in [Kids -> LogType] /\ rows \in [Cancellers -> SUBSET Kids]
      /\ handle \in [Kids -> [st : Outcomes \union {"running", "settled"},
                              ans : Answers]]
      /\ stop \in 0..MaxRuns /\ stopped \in SUBSET (0..MaxRuns)
  BY DEF Base, Types
<1> QED BY <1>1, <1>2, <1>3, <1>4, <1>5, RootBase

LEMMA RunFinishesBase ==
    ASSUME Base, RunFinishes
    PROVE  /\ Base'
           /\ run'.gen = run.gen /\ run.pc = "work" /\ run'.pc = "closing"
           /\ rows'[Root] = OfRun(run.gen)
           /\ \A c \in Cancellers : c # Root => rows'[c] = rows[c]
<1>1. /\ run.pc = "work" /\ run' = [run EXCEPT !.pc = "closing"]
      /\ rows' = [rows EXCEPT ![Root] = OfRun(run.gen)]
      /\ log' = log /\ sess' = sess /\ kin' = kin /\ active' = active
      /\ signal' = signal /\ worker' = worker /\ waits' = waits
      /\ handle' = handle /\ stop' = stop /\ stopped' = stopped
      /\ events' = events
  BY DEF RunFinishes, Free, Targets, facts, tree
<1>2. run' \in [gen : 0..MaxRuns, pc : {"work", "closing", "ended"}]
      /\ run'.gen = run.gen /\ run'.pc = "closing"
  BY <1>1 DEF Base, Types
<1>3. PICK C \in SUBSET Kids : C = OfRun(run.gen) BY OfRunType
<1>4. rows' \in [Cancellers -> SUBSET Kids] /\ rows'[Root] = C
      /\ \A c \in Cancellers : c # Root => rows'[c] = rows[c]
  BY <1>1, <1>3, Apart DEF Base, Types
<1>5. /\ log \in [Kids -> LogType] /\ events \in Nat
      /\ handle \in [Kids -> [st : Outcomes \union {"running", "settled"},
                              ans : Answers]]
      /\ stop \in 0..MaxRuns /\ stopped \in SUBSET (0..MaxRuns)
  BY DEF Base, Types
<1> QED BY <1>1, <1>2, <1>3, <1>4, <1>5, RootBase

LEMMA RunEndsBase ==
    ASSUME Base, RunEnds
    PROVE  /\ Base'
           /\ run'.gen = run.gen /\ run.pc = "closing" /\ run'.pc = "ended"
<1>1. /\ run.pc = "closing" /\ run' = [run EXCEPT !.pc = "ended"]
      /\ log' = log /\ sess' = sess /\ kin' = kin /\ active' = active
      /\ signal' = signal /\ worker' = worker /\ waits' = waits
      /\ handle' = handle /\ stop' = stop /\ stopped' = stopped /\ rows' = rows
      /\ events' = events
  BY DEF RunEnds, facts, tree
<1>2. run' \in [gen : 0..MaxRuns, pc : {"work", "closing", "ended"}]
      /\ run'.gen = run.gen /\ run'.pc = "ended"
  BY <1>1 DEF Base, Types
<1>5. /\ log \in [Kids -> LogType] /\ rows \in [Cancellers -> SUBSET Kids]
      /\ handle \in [Kids -> [st : Outcomes \union {"running", "settled"},
                              ans : Answers]]
      /\ stop \in 0..MaxRuns /\ stopped \in SUBSET (0..MaxRuns)
      /\ events \in Nat
  BY DEF Base, Types
<1> QED BY <1>1, <1>2, <1>5, RootBase

LEMMA RunBreaksBase ==
    ASSUME Base, RunBreaks
    PROVE  /\ Base'
           /\ run'.gen = run.gen /\ run.pc = "work" /\ run'.pc = "ended"
           /\ broken' = broken \union {run.gen}
<1>1. /\ run.pc = "work" /\ run' = [run EXCEPT !.pc = "ended"]
      /\ log' = log /\ sess' = sess /\ kin' = kin /\ active' = active
      /\ signal' = signal /\ worker' = worker /\ waits' = waits
      /\ handle' = handle /\ stop' = stop /\ stopped' = stopped /\ rows' = rows
      /\ broken' = broken \union {run.gen}
  BY DEF RunBreaks, Free, facts, tree
<1>2. events' \in Nat BY Counted DEF RunBreaks, Base
<1>3. run' \in [gen : 0..MaxRuns, pc : {"work", "closing", "ended"}]
      /\ run'.gen = run.gen /\ run'.pc = "ended"
  BY <1>1 DEF Base, Types
<1>4. /\ log \in [Kids -> LogType] /\ rows \in [Cancellers -> SUBSET Kids]
      /\ handle \in [Kids -> [st : Outcomes \union {"running", "settled"},
                              ans : Answers]]
      /\ stop \in 0..MaxRuns /\ stopped \in SUBSET (0..MaxRuns)
  BY DEF Base, Types
<1> QED BY <1>1, <1>2, <1>3, <1>4, RootBase

LEMMA StopRequestBase ==
    ASSUME Base, StopRequest
    PROVE  Base'
<1>1. /\ stop' = run.gen /\ stopped' = stopped \union {run.gen} /\ run' = run
      /\ log' = log /\ sess' = sess /\ kin' = kin /\ active' = active
      /\ signal' = signal /\ worker' = worker /\ waits' = waits
      /\ handle' = handle /\ rows' = rows
  BY DEF StopRequest, facts, tree
<1>2. events' \in Nat BY Counted DEF StopRequest, Base
<1>3. stop' \in 0..MaxRuns /\ stopped' \in SUBSET (0..MaxRuns)
  BY <1>1 DEF Base, Types
<1>4. /\ log \in [Kids -> LogType] /\ rows \in [Cancellers -> SUBSET Kids]
      /\ handle \in [Kids -> [st : Outcomes \union {"running", "settled"},
                              ans : Answers]]
      /\ run \in [gen : 0..MaxRuns, pc : {"work", "closing", "ended"}]
  BY DEF Base, Types
<1> QED BY <1>1, <1>2, <1>3, <1>4, RootBase

LEMMA StopCancelsBase ==
    ASSUME Base, StopCancels
    PROVE  /\ Base'
           /\ rows'[Stop] = OfRun(stop)
           /\ \A c \in Cancellers : c # Stop => rows'[c] = rows[c]
<1>1. /\ rows' = [rows EXCEPT ![Stop] = OfRun(stop)] /\ stop' = 0
      /\ log' = log /\ sess' = sess /\ kin' = kin /\ active' = active
      /\ signal' = signal /\ worker' = worker /\ waits' = waits
      /\ handle' = handle /\ run' = run /\ stopped' = stopped
      /\ events' = events
  BY DEF StopCancels, Targets, facts, tree
<1>2. PICK C \in SUBSET Kids : C = OfRun(stop) BY OfRunType
<1>3. rows' \in [Cancellers -> SUBSET Kids] /\ rows'[Stop] = C
      /\ \A c \in Cancellers : c # Stop => rows'[c] = rows[c]
  BY <1>1, <1>2, Apart DEF Base, Types
<1>4. /\ log \in [Kids -> LogType] /\ events \in Nat
      /\ handle \in [Kids -> [st : Outcomes \union {"running", "settled"},
                              ans : Answers]]
      /\ stop' \in 0..MaxRuns /\ stopped \in SUBSET (0..MaxRuns)
      /\ run \in [gen : 0..MaxRuns, pc : {"work", "closing", "ended"}]
  BY <1>1, BoundAssumption DEF Base, Types
<1> QED BY <1>1, <1>2, <1>3, <1>4, RootBase

LEMMA SteerBase ==
    ASSUME Base, NEW k \in Kids, Steer(k)
    PROVE  /\ Base'
           /\ \A j \in Kids : j # k => log'[j] = log[j]
           /\ log'[k].steers = Append(log[k].steers, Len(log[k].steers) + 1)
           /\ \A j \in Kids : /\ log'[j].cancel = log[j].cancel
                              /\ log'[j].result = log[j].result
                              /\ log'[j].terminal = log[j].terminal
<1>1. /\ log' = [log EXCEPT ![k].steers = Append(log[k].steers, Len(log[k].steers) + 1)]
      /\ sess' = sess /\ kin' = kin /\ active' = active
      /\ signal' = signal /\ worker' = worker /\ waits' = waits
      /\ handle' = handle /\ run' = run /\ stop' = stop /\ stopped' = stopped
      /\ rows' = rows
  BY DEF Steer, tree, parent
<1>2. events' \in Nat BY Counted DEF Steer, Base
<1> DEFINE m == [log[k] EXCEPT !.steers = Append(log[k].steers, Len(log[k].steers) + 1)]
<1>3. log[k] \in LogType BY DEF Base, Types
<1>4. /\ m \in LogType
      /\ m.steers = Append(log[k].steers, Len(log[k].steers) + 1)
      /\ m.cancel = log[k].cancel /\ m.result = log[k].result
      /\ m.terminal = log[k].terminal
  BY <1>3, LogSteered
<1>5. log' = [log EXCEPT ![k] = m] BY <1>1
<1> HIDE DEF m
<1>6. /\ log' \in [Kids -> LogType] /\ log'[k] = m
      /\ \A j \in Kids : j # k => log'[j] = log[j]
  BY <1>4, <1>5, LogOf DEF Base
<1>7. /\ rows \in [Cancellers -> SUBSET Kids]
      /\ handle \in [Kids -> [st : Outcomes \union {"running", "settled"},
                              ans : Answers]]
      /\ run \in [gen : 0..MaxRuns, pc : {"work", "closing", "ended"}]
      /\ stop \in 0..MaxRuns /\ stopped \in SUBSET (0..MaxRuns)
  BY DEF Base, Types
<1>8. Base' BY <1>1, <1>2, <1>6, <1>7, RootBase
<1> QED BY <1>4, <1>6, <1>8

LEMMA FollowUpBase ==
    ASSUME Base, NEW k \in Kids, FollowUp(k)
    PROVE  /\ Base'
           /\ handle[k].st # "running"
           /\ handle[k].st = "none" => log[k].terminal # "none"
           /\ \A j \in Kids : j # k => log'[j] = log[j] /\ handle'[j] = handle[j]
           /\ \A j \in Kids : /\ log'[j].steers = log[j].steers
                              /\ log'[j].cancel = log[j].cancel
                              /\ log'[j].terminal = log[j].terminal
           /\ \/ log'[k].result = log[k].result
              \/ log[k].result = NoResult
                 /\ log'[k].result = [out |-> "completed", ans |-> "follow"]
           /\ \/ handle'[k] = handle[k] /\ handle[k].st = "none"
              \/ handle[k].st # "none"
                 /\ handle'[k].st = "settled" /\ handle'[k].ans = "follow"
<1>1. /\ sess' = sess /\ kin' = kin /\ active' = active
      /\ signal' = signal /\ worker' = worker /\ waits' = waits
      /\ run' = run /\ stop' = stop /\ stopped' = stopped
      /\ rows' = rows
      /\ handle[k].st # "running"
      /\ handle[k].st = "none" => log[k].terminal # "none"
  BY DEF FollowUp, tree, parent
<1>2. events' \in Nat BY Counted DEF FollowUp, Base
<1>3. log[k] \in LogType /\ log \in [Kids -> LogType] BY DEF Base, Types
<1> DEFINE r == [out |-> "completed", ans |-> "follow"]
           m == [log[k] EXCEPT !.result = r]
<1>4. /\ m \in LogType /\ m.steers = log[k].steers /\ m.cancel = log[k].cancel
      /\ m.result = r /\ m.terminal = log[k].terminal
  <2>1. r \in Results BY Small DEF Outcomes, Answers
  <2> HIDE DEF r
  <2> QED BY <1>3, <2>1, LogResult
<1>5. \/ log' = log
      \/ log[k].result = NoResult /\ log' = [log EXCEPT ![k] = m]
  BY DEF FollowUp, ResultIsDurable
<1> HIDE DEF m
<1>6. /\ log' \in [Kids -> LogType]
      /\ \A j \in Kids : j # k => log'[j] = log[j]
      /\ \A j \in Kids : /\ log'[j].steers = log[j].steers
                         /\ log'[j].cancel = log[j].cancel
                         /\ log'[j].terminal = log[j].terminal
      /\ \/ log'[k].result = log[k].result
         \/ log[k].result = NoResult /\ log'[k].result = r
  <2> HIDE DEF r
  <2>1. CASE log' = log BY <1>3, <2>1
  <2>2. CASE log[k].result = NoResult /\ log' = [log EXCEPT ![k] = m]
    <3>1. /\ log' \in [Kids -> LogType] /\ log'[k] = m
          /\ \A j \in Kids : j # k => log'[j] = log[j]
      BY <1>4, <2>2, LogOf DEF Base
    <3> QED BY <1>4, <2>2, <3>1
  <2> QED BY <1>5, <2>1, <2>2
<1> DEFINE h == [st |-> "settled", ans |-> "follow"]
<1>7. h \in [st : Outcomes \union {"running", "settled"}, ans : Answers]
      /\ h.st = "settled" /\ h.ans = "follow"
  BY DEF Answers
<1>8. \/ handle' = handle /\ handle[k].st = "none"
      \/ handle[k].st # "none" /\ handle' = [handle EXCEPT ![k] = h]
  BY DEF FollowUp
<1> HIDE DEF h
<1>9. /\ handle' \in [Kids -> [st : Outcomes \union {"running", "settled"},
                               ans : Answers]]
      /\ \A j \in Kids : j # k => handle'[j] = handle[j]
      /\ \/ handle'[k] = handle[k] /\ handle[k].st = "none"
         \/ handle[k].st # "none" /\ handle'[k] = h
  <2>1. handle \in [Kids -> [st : Outcomes \union {"running", "settled"},
                             ans : Answers]]
    BY DEF Base, Types
  <2>2. CASE handle' = handle /\ handle[k].st = "none" BY <2>1, <2>2
  <2>3. CASE handle[k].st # "none" /\ handle' = [handle EXCEPT ![k] = h]
    BY <1>7, <2>1, <2>3
  <2> QED BY <1>8, <2>2, <2>3
<1>10. /\ rows \in [Cancellers -> SUBSET Kids]
       /\ run \in [gen : 0..MaxRuns, pc : {"work", "closing", "ended"}]
       /\ stop \in 0..MaxRuns /\ stopped \in SUBSET (0..MaxRuns)
  BY DEF Base, Types
<1>11. Base' BY <1>1, <1>2, <1>6, <1>9, <1>10, RootBase
<1> QED BY <1>1, <1>6, <1>7, <1>9, <1>11

LEMMA PruneBase ==
    ASSUME Base, NEW k \in Kids, Prune(k)
    PROVE  /\ Base'
           /\ handle[k].st \notin {"none", "running"} /\ handle'[k] = NoHandle
           /\ \A j \in Kids : j # k => handle'[j] = handle[j]
<1>1. /\ log' = log /\ sess' = sess /\ kin' = kin /\ active' = active
      /\ signal' = signal /\ worker' = worker /\ waits' = waits
      /\ run' = run /\ stop' = stop /\ stopped' = stopped /\ rows' = rows
      /\ handle[k].st \notin {"none", "running"}
      /\ handle' = [handle EXCEPT ![k] = NoHandle]
  BY DEF Prune, facts, tree, parent
<1>2. events' \in Nat BY Counted DEF Prune, Base
<1>3. /\ handle' \in [Kids -> [st : Outcomes \union {"running", "settled"},
                               ans : Answers]]
      /\ handle'[k] = NoHandle
      /\ \A j \in Kids : j # k => handle'[j] = handle[j]
  BY <1>1, Small DEF Base, Types
<1>4. /\ log \in [Kids -> LogType] /\ rows \in [Cancellers -> SUBSET Kids]
      /\ run \in [gen : 0..MaxRuns, pc : {"work", "closing", "ended"}]
      /\ stop \in 0..MaxRuns /\ stopped \in SUBSET (0..MaxRuns)
  BY DEF Base, Types
<1> QED BY <1>1, <1>2, <1>3, <1>4, RootBase

\* A crash leaves what is durable, and who was drawn.
LEMMA CrashShape ==
    ASSUME Types, Crash
    PROVE  /\ log' = log /\ sess' = sess /\ kin' = kin /\ stopped' = stopped
           /\ active' = {} /\ stop' = 0 /\ events' \in Nat
           /\ \A k \in Kids : signal'[k] = "none" /\ handle'[k] = NoHandle
           /\ \A k \in Kids : worker'[k].missed = {}
           /\ \A k \in Kids : ~Started(k) => worker'[k].pc = "none"
           /\ \A k \in Kids : Started(k) => worker'[k].pc = "done"
           /\ run'.gen = run.gen /\ run'.pc = "ended"
           /\ \A c \in Cancellers : rows'[c] = {}
           /\ \A a \in Agents : waits'[a] = None
           /\ Types'
<1>1. /\ log' = log /\ sess' = sess /\ kin' = kin /\ stopped' = stopped
      /\ active' = {} /\ stop' = 0
      /\ signal' = [k \in Kids |-> "none"]
      /\ handle' = [k \in Kids |-> NoHandle]
      /\ worker' = [k \in Kids |-> IF kin[k].parent = None THEN Unborn
                                    ELSE [Unborn EXCEPT !.pc = "done"]]
      /\ waits' = [a \in Agents |-> None]
      /\ run' = [run EXCEPT !.pc = "ended"]
      /\ rows' = [c \in Cancellers |-> {}]
  BY DEF Crash, facts
<1>2. events' \in Nat BY Counted DEF Crash
<1> DEFINE w == [Unborn EXCEPT !.pc = "done"]
<1>3. /\ w \in WorkerType /\ w.pc = "done" /\ w.missed = {}
      /\ Unborn \in WorkerType /\ Unborn.pc = "none" /\ Unborn.missed = {}
  BY Small DEF Unborn, WorkerType, Stages
<1>4. \A k \in Kids : worker'[k] = IF Started(k) THEN w ELSE Unborn
  BY <1>1 DEF Started
<1>5. worker' \in [Kids -> WorkerType]
  <2>1. worker' = [k \in Kids |-> worker'[k]] BY <1>1
  <2> HIDE DEF w
  <2> QED BY <1>3, <1>4, <2>1
<1> HIDE DEF w
<1>6. /\ \A k \in Kids : worker'[k].missed = {}
      /\ \A k \in Kids : ~Started(k) => worker'[k].pc = "none"
      /\ \A k \in Kids : Started(k) => worker'[k].pc = "done"
  BY <1>3, <1>4
<1>7. run' \in [gen : 0..MaxRuns, pc : {"work", "closing", "ended"}]
      /\ run'.gen = run.gen /\ run'.pc = "ended"
  BY <1>1 DEF Types
<1>8. /\ signal' \in [Kids -> {"none", "startup", "parent"}]
      /\ handle' \in [Kids -> [st : Outcomes \union {"running", "settled"},
                               ans : Answers]]
      /\ waits' \in [Agents -> Kids \union {None}]
      /\ rows' \in [Cancellers -> SUBSET Kids]
  BY <1>1, Small
<1>9. stop' \in 0..MaxRuns /\ stopped' \subseteq 0..MaxRuns
  BY <1>1, BoundAssumption DEF Types
<1>10. log' \in [Kids -> LogType] /\ sess' \in [Kids -> Seq(Nat)]
       /\ kin' \in [Kids -> [parent : Agents \union {None}, gen : 0..MaxRuns]]
       /\ active' \subseteq Kids
  BY <1>1 DEF Types
<1>11. Types' BY <1>2, <1>5, <1>7, <1>8, <1>9, <1>10 DEF Types
<1>12. /\ \A k \in Kids : signal'[k] = "none" /\ handle'[k] = NoHandle
       /\ \A c \in Cancellers : rows'[c] = {}
       /\ \A a \in Agents : waits'[a] = None
  BY <1>1
<1> QED BY <1>1, <1>2, <1>6, <1>7, <1>11, <1>12

LEMMA CrashBase ==
    ASSUME Base, Crash
    PROVE  Base'
<1>1. /\ kin' = kin /\ active' = {} /\ run'.gen = run.gen /\ Types'
      /\ \A k \in Kids : signal'[k] = "none"
      /\ \A k \in Kids : ~Started(k) => worker'[k].pc = "none"
      /\ \A k \in Kids : Started(k) => worker'[k].pc = "done"
      /\ \A a \in Agents : waits'[a] = None
  BY CrashShape DEF Base
<1>2. \A k \in Kids : ~Alive(k)' BY <1>1 DEF Alive
<1>3. \A k \in Kids : Started(k)' <=> Started(k) BY <1>1 DEF Started
<1>4. Drawn' BY <1>1, <1>2, <1>3 DEF Base, Drawn, Started
<1> QED BY <1>1, <1>4 DEF Base

LEMMA SameBase ==
    ASSUME Base, UNCHANGED vars
    PROVE  Base'
BY DEF Base, Types, Drawn, Started, Alive, vars, facts, tree, parent

LEMMA BaseInit == Init => Base
<1> SUFFICES ASSUME Init PROVE Base OBVIOUS
<1>1. /\ log = [k \in Kids |-> NoFacts] /\ sess = [k \in Kids |-> << >>]
      /\ kin = [k \in Kids |-> [parent |-> None, gen |-> 0]]
      /\ active = {} /\ signal = [k \in Kids |-> "none"]
      /\ handle = [k \in Kids |-> NoHandle]
      /\ worker = [k \in Kids |-> Unborn]
      /\ waits = [a \in Agents |-> None]
      /\ run = [gen |-> 0, pc |-> "ended"] /\ stop = 0 /\ stopped = {}
      /\ rows = [c \in Cancellers |-> {}] /\ events = 0
  BY DEF Init
<1>2. << >> \in Seq(Nat) /\ 0 \in 0..MaxRuns /\ 0 <= 0 BY BoundAssumption
<1>3. log \in [Kids -> LogType] /\ sess \in [Kids -> Seq(Nat)]
  BY <1>1, <1>2, Small
<1>4. /\ kin \in [Kids -> [parent : Agents \union {None}, gen : 0..MaxRuns]]
      /\ \A k \in Kids : kin[k].parent = None /\ kin[k].gen = 0
  BY <1>1, <1>2
<1>5. /\ handle \in [Kids -> [st : Outcomes \union {"running", "settled"},
                              ans : Answers]]
      /\ worker \in [Kids -> WorkerType]
      /\ \A k \in Kids : worker[k] = Unborn
  BY <1>1, Small
<1>6. run \in [gen : 0..MaxRuns, pc : {"work", "closing", "ended"}] /\ run.gen = 0
  BY <1>1, <1>2
<1>7. Types BY <1>1, <1>2, <1>3, <1>4, <1>5, <1>6 DEF Types
<1>8. \A k \in Kids : ~Started(k) /\ worker[k].pc = "none" /\ ~Alive(k)
  BY <1>4, <1>5 DEF Started, Alive, Unborn
<1>9. \A a \in Agents : waits[a] = None BY <1>1
<1>10. \A k \in Kids : signal[k] = "none" BY <1>1
<1>11. \A k \in Kids : kin[k].parent \notin Kids BY <1>4, Apart
<1>12. \A k \in Kids : kin[k].gen <= run.gen BY <1>2, <1>4, <1>6
<1>13. Drawn BY <1>1, <1>8, <1>9, <1>10, <1>11, <1>12 DEF Drawn
<1> QED BY <1>7, <1>13 DEF Base
-----------------------------------------------------------------------------
\* The steps, and which of them are one thread's own

OwnStep(k) ==
    \/ Boot(k) \/ RoundBegins(k) \/ RoundsEnd(k) \/ InjectRead(k) \/ InjectSave(k)
    \/ Answered(k) \/ ToolDone(k) \/ Persist(k)

OneThread == (\E k \in Kids : OwnStep(k)) \/ (\E a \in Agents : StartRefused(a))

LEMMA OneThreadIsDone ==
    ASSUME Base, Steers, OneThread
    PROVE  \E k \in Kids : Done(k)
<1>1. ASSUME NEW k \in Kids, OwnStep(k) PROVE Done(k)
  <2>1. Types /\ Steered(k) BY DEF Base, Steers
  <2> QED BY <1>1, <2>1, BootStep, RoundBeginsStep, RoundsEndStep, InjectReadStep,
          InjectSaveStep, AnsweredStep, ToolDoneStep, PersistStep DEF OwnStep, Done
<1>2. ASSUME NEW a \in Agents, StartRefused(a) PROVE \E k \in Kids : Done(k)
  BY <1>2, StartRefusedStep DEF Base
<1> QED BY <1>1, <1>2 DEF OneThread

\* The steps that leave all threads where they are, and nobody's registration,
\* steers or session changed.
Aside ==
    \/ \E a \in Agents : StartReturns(a) \/ StartTimesOut(a)
    \/ \E c \in Cancellers : CancelStep(c)
    \/ StartRun \/ RunFinishes \/ RunEnds \/ RunBreaks
    \/ StopRequest \/ StopCancels
    \/ \E k \in Kids : FollowUp(k) \/ Prune(k)
    \/ UNCHANGED vars

LEMMA Steps ==
    ASSUME [Next]_vars
    PROVE  \/ OneThread \/ Aside \/ Crash
           \/ \E a \in Agents, k \in Kids : Reserve(a, k)
           \/ \E k \in Kids : Cascade(k) \/ Finalize(k) \/ Steer(k)
<1>1. ASSUME NEW a \in Agents, AgentStep(a)
      PROVE  OneThread \/ Aside \/ \E k \in Kids : Reserve(a, k)
  BY <1>1 DEF AgentStep, OneThread, Aside
<1>2. ASSUME NEW k \in Kids, ChildStep(k)
      PROVE  OneThread \/ Cascade(k) \/ Finalize(k)
  BY <1>2 DEF ChildStep, OneThread, OwnStep
<1>3. ASSUME RootStep
      PROVE  Aside \/ Crash \/ \E k \in Kids : Steer(k)
  BY <1>3 DEF RootStep, Aside
<1>4. (\E c \in Cancellers : CancelStep(c)) \/ UNCHANGED vars => Aside
  BY DEF Aside
<1> QED BY <1>1, <1>2, <1>3, <1>4 DEF Next

LEMMA AsideShape ==
    ASSUME Base, Aside
    PROVE  /\ Base' /\ sess' = sess /\ kin' = kin /\ active' = active
           /\ worker' = worker
           /\ \A j \in Kids : log'[j].steers = log[j].steers
<1>1. ASSUME NEW a \in Agents, StartReturns(a) PROVE Base'
  BY <1>1, StartReturnsBase
<1>2. ASSUME NEW a \in Agents, StartTimesOut(a) PROVE Base'
  BY <1>2, StartTimesOutBase
<1>3. ASSUME NEW c \in Cancellers, CancelStep(c)
      PROVE  Base' /\ \A j \in Kids : log'[j].steers = log[j].steers
  BY <1>3, CancelBase, CancelShape
<1>4. \/ StartRun \/ RunFinishes \/ RunEnds \/ RunBreaks
      \/ StopRequest \/ StopCancels
      => Base'
  BY StartRunBase, RunFinishesBase, RunEndsBase, RunBreaksBase, StopRequestBase,
     StopCancelsBase
<1>5. ASSUME NEW k \in Kids, FollowUp(k)
      PROVE  Base' /\ \A j \in Kids : log'[j].steers = log[j].steers
  BY <1>5, FollowUpBase
<1>6. ASSUME NEW k \in Kids, Prune(k) PROVE Base' BY <1>6, PruneBase
<1>7. UNCHANGED vars => Base' BY SameBase
<1>8. Base' BY <1>1, <1>2, <1>3, <1>4, <1>5, <1>6, <1>7 DEF Aside
<1>9. sess' = sess /\ kin' = kin /\ active' = active /\ worker' = worker
  BY DEF Aside, StartReturns, StartTimesOut, CancelStep, StartRun, RunFinishes,
     RunEnds, RunBreaks, StopRequest, StopCancels, FollowUp, Prune, vars, facts,
     tree
<1>10. \A j \in Kids : log'[j].steers = log[j].steers
  <2>1. ASSUME ~(\E c \in Cancellers : CancelStep(c)), ~(\E k \in Kids : FollowUp(k))
        PROVE  log' = log
    BY <2>1 DEF Aside, StartReturns, StartTimesOut, StartRun, RunFinishes,
       RunEnds, RunBreaks, StopRequest, StopCancels, Prune, vars, facts
  <2> QED BY <1>3, <1>5, <2>1
<1> QED BY <1>8, <1>9, <1>10

LEMMA BaseStep ==
    ASSUME Base, Steers, [Next]_vars
    PROVE  Base'
<1>1. CASE OneThread BY <1>1, OneThreadIsDone, OwnBase DEF Done
<1>2. CASE Aside BY <1>2, AsideShape
<1>3. CASE Crash BY <1>3, CrashBase
<1>4. CASE \E a \in Agents, k \in Kids : Reserve(a, k) BY <1>4, ReserveBase
<1>5. ASSUME NEW k \in Kids, Cascade(k) PROVE Base' BY <1>5, CascadeBase
<1>6. ASSUME NEW k \in Kids, Finalize(k) PROVE Base' BY <1>6, FinalizeBase
<1>7. ASSUME NEW k \in Kids, Steer(k) PROVE Base' BY <1>7, SteerBase
<1> QED BY <1>1, <1>2, <1>3, <1>4, <1>5, <1>6, <1>7, Steps

-----------------------------------------------------------------------------
\* Steers are answered

\* A thread is where no claim is made about what it has seen.
LEMMA SteersGo ==
    ASSUME Steers, NEW k \in Kids, OthersKept(k), sess' = sess,
           \A j \in Kids : log'[j].steers = log[j].steers,
           worker'[k].missed = {}, worker'[k].pc \in {"boot", "cascade", "done"},
           worker'[k].pc = "boot" => worker[k].pc = "none"
    PROVE  Steers'
<1>1. ASSUME NEW j \in Kids PROVE Steered(j)'
  <2>1. CASE j = k
    <3>1. SteersFine(log[k].steers, sess[k], worker'[k])
      BY DEF Steers, Steered, SteersFine
    <3> QED BY <2>1, <3>1 DEF Steered
  <2>2. CASE j # k BY <2>2, SteeredElsewhere DEF Steers, OthersKept
  <2> QED BY <2>1, <2>2
<1> QED BY <1>1 DEF Steers

LEMMA SteerGrows ==
    ASSUME NEW s \in Seq(Nat), NEW t \in Seq(Nat), Begins(s, t), NEW x
    PROVE  Begins(s, Append(t, x))
<1>1. /\ Len(Append(t, x)) = Len(t) + 1
      /\ \A i \in 1..Len(t) : Append(t, x)[i] = t[i]
      /\ Len(s) \in Nat /\ Len(t) \in Nat
  OBVIOUS
<1> QED BY <1>1 DEF Begins

LEMMA SteerSteers ==
    ASSUME Base, Steers, NEW k \in Kids, Steer(k)
    PROVE  Steers'
<1>1. /\ \A j \in Kids : j # k => log'[j] = log[j]
      /\ log'[k].steers = Append(log[k].steers, Len(log[k].steers) + 1)
  BY SteerBase
<1>2. sess' = sess /\ worker' = worker BY DEF Steer
<1> DEFINE t == log[k].steers
           u == Append(t, Len(t) + 1)
           s == sess[k]
           w == worker[k]
<1>3. /\ t \in Seq(Nat) /\ s \in Seq(Nat) /\ w.batch \in Seq(Nat)
  BY DEF Base, Types, LogType, WorkerType
<1>4. SteersFine(t, s, w) BY DEF Steers, Steered
<1>5. SteersFine(u, s, w)
  <2> HIDE DEF t, s, w, u
  <2>1. Begins(s, u) BY <1>3, <1>4, SteerGrows DEF SteersFine, u
  <2>2. s \o w.batch \in Seq(Nat) BY <1>3
  <2>3. w.pc = "save" => Begins(s \o w.batch, u)
    BY <1>3, <1>4, <2>2, SteerGrows DEF SteersFine, u
  <2>4. \A i \in DOMAIN u : u[i] = i
    <3>1. /\ DOMAIN u = 1..Len(t) + 1 /\ u[Len(t) + 1] = Len(t) + 1
          /\ \A i \in 1..Len(t) : u[i] = t[i]
          /\ DOMAIN t = 1..Len(t) /\ Len(t) \in Nat
      BY <1>3 DEF u
    <3>2. \A i \in 1..Len(t) : t[i] = i BY <1>4, <3>1 DEF SteersFine
    <3>3. \A i \in 1..Len(t) + 1 : i \in 1..Len(t) \/ i = Len(t) + 1 BY <3>1
    <3> QED BY <3>1, <3>2, <3>3
  <2> QED BY <1>4, <2>1, <2>3, <2>4 DEF SteersFine
<1>6. ASSUME NEW j \in Kids PROVE Steered(j)'
  <2>1. CASE j = k BY <1>1, <1>2, <1>5, <2>1 DEF Steered
  <2>2. CASE j # k BY <1>1, <1>2, <2>2, SteeredElsewhere DEF Steers
  <2> QED BY <2>1, <2>2
<1> QED BY <1>6 DEF Steers

LEMMA SteersStep ==
    ASSUME Base, Steers, [Next]_vars
    PROVE  Steers'
<1>1. CASE OneThread BY <1>1, OneThreadIsDone, OwnSteers
<1>2. CASE Aside BY <1>2, AsideShape, SteeredElsewhere DEF Steers
<1>3. CASE Crash
  <2>1. /\ log' = log /\ sess' = sess
        /\ \A k \in Kids : worker'[k].missed = {}
        /\ \A k \in Kids : ~Started(k) => worker'[k].pc = "none"
        /\ \A k \in Kids : Started(k) => worker'[k].pc = "done"
    BY <1>3, CrashShape DEF Base
  <2>2. ASSUME NEW j \in Kids PROVE Steered(j)'
    <3>1. Started(j) <=> worker[j].pc # "none" BY DEF Base, Drawn
    <3>2. SteersFine(log[j].steers, sess[j], worker'[j])
      BY <2>1, <3>1 DEF Steers, Steered, SteersFine
    <3> QED BY <2>1, <3>2 DEF Steered
  <2> QED BY <2>2 DEF Steers
<1>4. ASSUME NEW a \in Agents, NEW k \in Kids, Reserve(a, k) PROVE Steers'
  <2>1. /\ ~Started(k) /\ OthersKept(k) /\ worker'[k].pc = "boot"
        /\ worker'[k].missed = worker[k].missed
    BY <1>4, ReserveShape
  <2>2. log' = log /\ sess' = sess BY <1>4 DEF Reserve, facts
  <2>3. worker[k].pc = "none" /\ worker[k].missed = {}
    BY <2>1 DEF Base, Drawn, Steers, Steered, SteersFine
  <2> QED BY <2>1, <2>2, <2>3, SteersGo
<1>5. ASSUME NEW k \in Kids, Cascade(k) PROVE Steers'
  <2>1. log' = log /\ sess' = sess BY <1>5 DEF Cascade, facts
  <2> QED BY <1>5, <2>1, CascadeBase, SteersGo
<1>6. ASSUME NEW k \in Kids, Finalize(k) PROVE Steers'
  <2>1. sess' = sess BY <1>6 DEF Finalize
  <2> QED BY <1>6, <2>1, FinalizeShape, SteersGo DEF Base
<1>7. ASSUME NEW k \in Kids, Steer(k) PROVE Steers' BY <1>7, SteerSteers
<1> QED BY <1>1, <1>2, <1>3, <1>4, <1>5, <1>6, <1>7, Steps

LEMMA SteersInit == Init => Steers
<1> SUFFICES ASSUME Init, NEW k \in Kids PROVE Steered(k) BY DEF Steers
<1>1. log[k].steers = << >> /\ sess[k] = << >> /\ worker[k] = Unborn
  BY DEF Init, NoFacts
<1>2. Begins(<< >>, << >>)
  <2>1. Len(<< >>) = 0 /\ 0 <= 0 /\ 1..0 = {} OBVIOUS
  <2> QED BY <2>1 DEF Begins
<1>3. DOMAIN << >> = {} OBVIOUS
<1>4. Unborn.pc = "none" /\ Unborn.missed = {} BY DEF Unborn
<1>5. SteersFine(<< >>, << >>, Unborn) BY <1>2, <1>3, <1>4 DEF SteersFine
<1> QED BY <1>1, <1>5 DEF Steered
-----------------------------------------------------------------------------
\* Transcripts are true

\* A step after which only k's record may be different.
LEMMA RecordsBut ==
    ASSUME Records, NEW k \in Kids, Recorded(k)',
           \A j \in Kids : j # k =>
              /\ log'[j].result = log[j].result /\ log'[j].terminal = log[j].terminal
              /\ handle'[j] = handle[j] /\ worker'[j] = worker[j]
    PROVE  Records'
<1>1. ASSUME NEW j \in Kids PROVE Recorded(j)'
  <2>1. CASE j = k BY <2>1
  <2>2. CASE j # k BY <2>2, RecordedElsewhere DEF Records
  <2> QED BY <2>1, <2>2
<1> QED BY <1>1 DEF Records

LEMMA AsideRecords ==
    ASSUME Base, Records, Aside
    PROVE  Records'
<1>1. worker' = worker BY AsideShape
<1>2. ASSUME ~(\E k \in Kids : FollowUp(k) \/ Prune(k))
      PROVE  /\ handle' = handle
             /\ \A j \in Kids : /\ log'[j].result = log[j].result
                                /\ log'[j].terminal = log[j].terminal
  <2>1. handle' = handle
    BY <1>2 DEF Aside, StartReturns, StartTimesOut, CancelStep, StartRun,
       RunFinishes, RunEnds, RunBreaks, StopRequest, StopCancels, vars
  <2>2. ASSUME NEW c \in Cancellers, CancelStep(c)
        PROVE  \A j \in Kids : /\ log'[j].result = log[j].result
                               /\ log'[j].terminal = log[j].terminal
    BY <2>2, CancelShape
  <2>3. ASSUME ~(\E c \in Cancellers : CancelStep(c)) PROVE log' = log
    BY <1>2, <2>3 DEF Aside, StartReturns, StartTimesOut, StartRun,
       RunFinishes, RunEnds, RunBreaks, StopRequest, StopCancels, vars, facts
  <2> QED BY <2>1, <2>2, <2>3
<1>3. CASE ~(\E k \in Kids : FollowUp(k) \/ Prune(k))
  BY <1>1, <1>2, <1>3, RecordedElsewhere DEF Records
<1>4. ASSUME NEW k \in Kids, Prune(k) PROVE Records'
  <2>1. /\ handle[k].st \notin {"none", "running"} /\ handle'[k] = NoHandle
        /\ \A j \in Kids : j # k => handle'[j] = handle[j]
    BY <1>4, PruneBase
  <2>2. log' = log BY <1>4 DEF Prune, facts
  <2>3. Recorded(k) BY DEF Records
  <2>4. ~Alive(k) /\ worker[k].pc # "none" BY <2>1, <2>3 DEF Recorded
  <2>5. worker[k].pc = "done" BY <2>4 DEF Alive
  <2>6. Recorded(k)'
    BY <1>1, <2>1, <2>2, <2>3, <2>5 DEF Recorded, Alive, NoHandle
  <2> QED BY <1>1, <2>1, <2>2, <2>6, RecordsBut
<1>5. ASSUME NEW k \in Kids, FollowUp(k) PROVE Records'
  <2>1. /\ handle[k].st # "running"
        /\ handle[k].st = "none" => log[k].terminal # "none"
        /\ \A j \in Kids : j # k => log'[j] = log[j] /\ handle'[j] = handle[j]
        /\ log'[k].terminal = log[k].terminal
        /\ \/ log'[k].result = log[k].result
           \/ log[k].result = NoResult
              /\ log'[k].result = [out |-> "completed", ans |-> "follow"]
        /\ \/ handle'[k] = handle[k] /\ handle[k].st = "none"
           \/ handle[k].st # "none"
              /\ handle'[k].st = "settled" /\ handle'[k].ans = "follow"
    BY <1>5, FollowUpBase
  <2>2. Recorded(k) BY DEF Records
  <2>3. ~Alive(k) BY <2>1, <2>2 DEF Recorded
  <2>4. log[k].result = NoResult => log[k].terminal = "none"
    BY <2>2 DEF Recorded, NoResult
  <2>5. worker[k].pc = "done" BY <2>1, <2>2, <2>3, <2>4 DEF Recorded, Alive
  <2>6. Recorded(k)'
    <3>1. CASE handle'[k] = handle[k] /\ handle[k].st = "none"
      <4>1. log[k].result # NoResult BY <2>1, <2>4, <3>1
      <4>2. log'[k].result = log[k].result BY <2>1, <4>1
      <4> QED BY <1>1, <2>1, <2>2, <2>5, <3>1, <4>2
              DEF Recorded, Alive, ResultIsDurable
    <3>2. CASE handle'[k].st = "settled" /\ handle'[k].ans = "follow"
      <4>1. log'[k].terminal # "none" => log'[k].result.out = log'[k].terminal
        BY <2>1, <2>2, <2>4 DEF Recorded
      <4>2. worker'[k].pc = "done" BY <1>1, <2>5
      <4> QED BY <3>2, <4>1, <4>2 DEF Recorded, Alive
    <3> QED BY <2>1, <3>1, <3>2
  <2> QED BY <1>1, <2>1, <2>6, RecordsBut
<1> QED BY <1>3, <1>4, <1>5

LEMMA RecordsStep ==
    ASSUME NotIsolated, Base, Steers, Records, [Next]_vars
    PROVE  Records'
<1>1. CASE OneThread BY <1>1, OneThreadIsDone, OwnRecords
<1>2. CASE Aside BY <1>2, AsideRecords
<1>3. CASE Crash
  <2>1. /\ log' = log
        /\ \A k \in Kids : handle'[k] = NoHandle
        /\ \A k \in Kids : ~Started(k) => worker'[k].pc = "none"
        /\ \A k \in Kids : Started(k) => worker'[k].pc = "done"
    BY <1>3, CrashShape DEF Base
  <2>2. ASSUME NEW k \in Kids PROVE Recorded(k)'
    <3>1. worker'[k].pc \in {"none", "done"} BY <2>1
    <3>2. worker'[k].pc = "none" => worker[k].pc = "none"
      BY <2>1 DEF Base, Drawn
    <3> QED BY <2>1, <3>1, <3>2 DEF Records, Recorded, Alive, NoHandle
  <2> QED BY <2>2 DEF Records
<1>4. ASSUME NEW a \in Agents, NEW k \in Kids, Reserve(a, k) PROVE Records'
  <2>1. ~Started(k) /\ OthersKept(k) /\ worker'[k].pc = "boot"
    BY <1>4, ReserveShape
  <2>2. /\ log' = log
        /\ handle' = [handle EXCEPT ![k] = [st |-> "running", ans |-> "none"]]
    BY <1>4 DEF Reserve, facts
  <2>3. worker[k].pc = "none" BY <2>1 DEF Base, Drawn
  <2>4. log[k].result = NoResult /\ log[k].terminal = "none"
    BY <2>3 DEF Records, Recorded, NoResult
  <2>5. handle'[k].st = "running" /\ \A j \in Kids : j # k => handle'[j] = handle[j]
    BY <2>2 DEF Base, Types
  <2>6. Recorded(k)' BY <2>1, <2>2, <2>4, <2>5 DEF Recorded, Alive
  <2> QED BY <2>1, <2>2, <2>5, <2>6, RecordsBut DEF OthersKept
<1>5. ASSUME NEW k \in Kids, Cascade(k) PROVE Records'
  <2>1. /\ OthersKept(k) /\ worker[k].pc = "cleared"
        /\ worker'[k].pc = "cascade" /\ worker'[k].res = worker[k].res
    BY <1>5, CascadeBase
  <2>2. log' = log /\ handle' = handle BY <1>5 DEF Cascade, facts
  <2>3. Recorded(k)' BY <2>1, <2>2 DEF Records, Recorded, Alive, ResultIsDurable
  <2> QED BY <2>1, <2>2, <2>3, RecordsBut DEF OthersKept
<1>6. ASSUME NEW k \in Kids, Finalize(k) PROVE Records'
  <2>1. /\ OthersKept(k) /\ worker[k].pc = "cascade" /\ worker'[k].pc = "done"
        /\ \A j \in Kids : j # k => log'[j] = log[j] /\ handle'[j] = handle[j]
        /\ log'[k].result = log[k].result
        /\ \/ log'[k].terminal = log[k].terminal
           \/ log[k].result # NoResult /\ log'[k].terminal = worker[k].res.out
        /\ handle'[k].st = worker[k].res.out
        /\ handle'[k].ans = IF Isolated THEN "noted" ELSE "first"
    BY <1>6, FinalizeShape DEF Base
  <2>2. worker[k].res.out \in Outcomes BY DEF Base, Types, WorkerType, Results
  <2>3. Recorded(k) BY DEF Records
  <2>4. /\ log[k].terminal = "none"
        /\ log[k].result # NoResult => log[k].result = worker[k].res
        /\ worker[k].res.ans = "first"
    BY <2>1, <2>3 DEF Recorded, Alive
  <2>5. handle'[k].ans = "first" /\ handle'[k].st # "running"
    BY <2>1, <2>2 DEF NotIsolated, Outcomes
  <2>6. log'[k].terminal # "none" => log'[k].result.out = log'[k].terminal
    BY <2>1, <2>4
  <2>7. log'[k].result # NoResult => log'[k].result.ans = "first"
    BY <2>1, <2>4
  <2>8. Recorded(k)'
    BY <2>1, <2>5, <2>6, <2>7 DEF Recorded, Alive, ResultIsDurable
  <2> QED BY <2>1, <2>8, RecordsBut DEF OthersKept
<1>7. ASSUME NEW k \in Kids, Steer(k) PROVE Records'
  <2>1. /\ \A j \in Kids : /\ log'[j].result = log[j].result
                           /\ log'[j].terminal = log[j].terminal
    BY <1>7, SteerBase
  <2>2. handle' = handle /\ worker' = worker BY <1>7 DEF Steer
  <2> QED BY <2>1, <2>2, RecordedElsewhere DEF Records
<1> QED BY <1>1, <1>2, <1>3, <1>4, <1>5, <1>6, <1>7, Steps

LEMMA RecordsInit == Init => Records
<1> SUFFICES ASSUME Init, NEW k \in Kids PROVE Recorded(k) BY DEF Records
<1>1. /\ log[k].terminal = "none" /\ log[k].result = NoResult
      /\ handle[k] = NoHandle /\ worker[k].pc = "none"
  BY DEF Init, NoFacts, Unborn
<1> QED BY <1>1 DEF Recorded, Alive, NoHandle, ResultIsDurable
-----------------------------------------------------------------------------
\* A cancelled child has a reason

LEMMA StartedParent ==
    ASSUME Base, NEW j \in Kids, Started(j)
    PROVE  /\ kin[j].parent \in Kids \union {Root}
           /\ kin[j].parent \in Kids => Started(kin[j].parent)
BY DEF Base, Types, Drawn, Started, Agents

\* What dooms a child does so for good.
LEMMA DoomedKept ==
    ASSUME Base, NEW j \in Kids, Started(j), Doomed(j), kin'[j] = kin[j],
           stopped \subseteq stopped',
           run'.gen = run.gen, run.pc # "work" => run'.pc # "work",
           \A p \in Kids : Started(p) =>
              /\ worker[p].pc \in {"cascade", "done"} =>
                    worker'[p].pc \in {"cascade", "done"}
              /\ signal[p] # "none" =>
                    signal'[p] # "none" \/ worker'[p].pc \in {"cascade", "done"}
    PROVE  Doomed(j)'
<1>1. PICK p : p = kin[j].parent OBVIOUS
<1>2. p \in Kids \union {Root} /\ (p \in Kids => Started(p))
  BY <1>1, StartedParent
<1>3. kin'[j].parent = p /\ kin'[j].gen = kin[j].gen BY <1>1
<1>4. CASE p = Root BY <1>1, <1>3, <1>4 DEF Doomed
<1>5. CASE p # Root
  <2>1. p \in Kids /\ Started(p) BY <1>2, <1>5
  <2>2. signal[p] # "none" \/ worker[p].pc \in {"cascade", "done"}
    BY <1>1, <1>5 DEF Doomed
  <2>3. signal'[p] # "none" \/ worker'[p].pc \in {"cascade", "done"}
    BY <2>1, <2>2
  <2> QED BY <1>3, <1>5, <2>3 DEF Doomed
<1> QED BY <1>4, <1>5

\* A step that cancels nobody, and has nobody new to visit.
LEMMA ReasonsKept ==
    ASSUME Base, Reasons,
           \A j \in Kids : Started(j) => kin'[j] = kin[j],
           \A j \in Kids : Started(j) /\ Doomed(j) => Doomed(j)',
           \A j \in Kids : signal'[j] = "parent" => signal[j] = "parent",
           \A j \in Kids : log'[j].cancel = log[j].cancel,
           stop' # 0 => stop' \in stopped',
           \A c \in Cancellers : rows'[c] \subseteq rows[c]
    PROVE  Reasons'
<1>1. \A j \in Kids : Started(j) => Started(j)' BY DEF Started
<1>2. \A c \in Cancellers : \A j \in rows'[c] : Started(j)' /\ Doomed(j)'
  <2>1. \A c \in Cancellers : \A j \in rows'[c] : j \in Kids /\ j \in rows[c]
    BY DEF Base, Types
  <2> QED BY <1>1, <2>1 DEF Reasons
<1>3. ASSUME NEW j \in Kids, signal'[j] = "parent" \/ log'[j].cancel
      PROVE  Started(j)' /\ Doomed(j)'
  <2>1. signal[j] = "parent" \/ log[j].cancel BY <1>3
  <2> QED BY <1>1, <2>1 DEF Reasons
<1> QED BY <1>2, <1>3 DEF Reasons

LEMMA CancelReasons ==
    ASSUME Base, Reasons, NEW c \in Cancellers, CancelStep(c)
    PROVE  Reasons'
<1>1. PICK k \in rows[c] :
        /\ k \in Kids
        /\ \A j \in Kids : j # k => log'[j].cancel = log[j].cancel
        /\ \A j \in Kids : j # k => signal'[j] = signal[j]
        /\ k \in active => signal'[k] # "none"
        /\ k \notin active => signal'[k] = signal[k]
        /\ \A d \in Cancellers : d # c => rows'[d] = rows[d]
        /\ rows'[c] = (rows[c] \ {k}) \union
                      (IF k \in active THEN Children(k) ELSE {})
  BY CancelShape
<1>2. /\ kin' = kin /\ worker' = worker /\ run' = run /\ stop' = stop
      /\ stopped' = stopped /\ active' = active
  BY DEF CancelStep, tree, parent
<1>3. \A j \in Kids : signal[j] # "none" => signal'[j] # "none"
  BY <1>1
<1>4. ASSUME NEW j \in Kids, Started(j), Doomed(j) PROVE Doomed(j)'
  BY <1>2, <1>3, <1>4, DoomedKept
<1>5. \A j \in Kids : Started(j)' <=> Started(j) BY <1>2 DEF Started
<1>6. ASSUME k \in active, NEW j \in Children(k)
      PROVE  j \in Kids /\ Started(j) /\ Doomed(j)'
  <2>1. j \in Kids /\ kin[j].parent = k BY DEF Children, Base, Types
  <2>2. k # Root /\ k # None BY <1>1, Apart
  <2> QED BY <1>1, <1>2, <1>6, <2>1, <2>2 DEF Started, Doomed
<1>7. ASSUME NEW d \in Cancellers, NEW j \in rows'[d]
      PROVE  Started(j)' /\ Doomed(j)'
  <2>1. ASSUME j \in rows[d] PROVE Started(j)' /\ Doomed(j)'
    <3>1. j \in Kids BY <2>1 DEF Base, Types
    <3> QED BY <1>4, <1>5, <2>1, <3>1 DEF Reasons
  <2>2. CASE j \notin rows[d]
    <3>1. d = c /\ k \in active /\ j \in Children(k) BY <1>1, <1>7, <2>2
    <3> QED BY <1>5, <1>6, <3>1
  <2> QED BY <2>1, <2>2
<1>8. ASSUME NEW j \in Kids, signal'[j] = "parent" \/ log'[j].cancel
      PROVE  Started(j)' /\ Doomed(j)'
  <2>1. CASE j = k BY <1>1, <1>4, <1>5, <2>1 DEF Reasons
  <2>2. CASE j # k
    <3>1. signal[j] = "parent" \/ log[j].cancel BY <1>1, <1>8, <2>2
    <3> QED BY <1>4, <1>5, <3>1 DEF Reasons
  <2> QED BY <2>1, <2>2
<1> QED BY <1>2, <1>7, <1>8 DEF Reasons

\* More children are to be visited, all of which are doomed.
LEMMA RunFinishesReasons ==
    ASSUME Base, Reasons, RunFinishes
    PROVE  Reasons'
<1>1. /\ run'.gen = run.gen /\ run'.pc = "closing" /\ rows'[Root] = OfRun(run.gen)
      /\ \A c \in Cancellers : c # Root => rows'[c] = rows[c]
  BY RunFinishesBase
<1>2. /\ kin' = kin /\ worker' = worker /\ signal' = signal /\ log' = log
      /\ stop' = stop /\ stopped' = stopped
  BY DEF RunFinishes, facts, tree
<1>3. ASSUME NEW j \in Kids, Started(j), Doomed(j) PROVE Doomed(j)'
  BY <1>1, <1>2, <1>3, DoomedKept
<1>4. \A j \in Kids : Started(j)' <=> Started(j) BY <1>2 DEF Started
<1>5. ASSUME NEW j \in OfRun(run.gen) PROVE Started(j)' /\ Doomed(j)'
  <2>1. j \in Kids /\ kin[j].parent = Root
    BY DEF OfRun, Children, Base, Types
  <2> QED BY <1>1, <1>2, <1>4, <2>1, Apart DEF Started, Doomed
<1>6. ASSUME NEW d \in Cancellers, NEW j \in rows'[d]
      PROVE  Started(j)' /\ Doomed(j)'
  <2>1. CASE d = Root BY <1>1, <1>5, <2>1, <1>6
  <2>2. CASE d # Root
    <3>1. j \in rows[d] /\ j \in Kids BY <1>1, <1>6, <2>2 DEF Base, Types
    <3> QED BY <1>3, <1>4, <3>1 DEF Reasons
  <2> QED BY <2>1, <2>2
<1> QED BY <1>2, <1>3, <1>4, <1>6 DEF Reasons

LEMMA StopCancelsReasons ==
    ASSUME Base, Reasons, StopCancels
    PROVE  Reasons'
<1>1. /\ rows'[Stop] = OfRun(stop)
      /\ \A c \in Cancellers : c # Stop => rows'[c] = rows[c]
  BY StopCancelsBase
<1>2. /\ kin' = kin /\ worker' = worker /\ signal' = signal /\ log' = log
      /\ stopped' = stopped /\ run' = run /\ stop # 0 /\ stop' = 0
  BY DEF StopCancels, facts, tree
<1>3. ASSUME NEW j \in Kids, Started(j), Doomed(j) PROVE Doomed(j)'
  BY <1>2, <1>3, DoomedKept
<1>4. \A j \in Kids : Started(j)' <=> Started(j) BY <1>2 DEF Started
<1>5. ASSUME NEW j \in OfRun(stop) PROVE Started(j)' /\ Doomed(j)'
  <2>1. j \in Kids /\ kin[j].parent = Root /\ kin[j].gen = stop
    BY DEF OfRun, Children, Base, Types
  <2>2. stop \in stopped BY <1>2 DEF Reasons
  <2> QED BY <1>2, <1>4, <2>1, <2>2, Apart DEF Started, Doomed
<1>6. ASSUME NEW d \in Cancellers, NEW j \in rows'[d]
      PROVE  Started(j)' /\ Doomed(j)'
  <2>1. CASE d = Stop BY <1>1, <1>5, <2>1, <1>6
  <2>2. CASE d # Stop
    <3>1. j \in rows[d] /\ j \in Kids BY <1>1, <1>6, <2>2 DEF Base, Types
    <3> QED BY <1>3, <1>4, <3>1 DEF Reasons
  <2> QED BY <2>1, <2>2
<1> QED BY <1>2, <1>3, <1>4, <1>6 DEF Reasons

LEMMA CascadeReasons ==
    ASSUME Base, Reasons, NEW k \in Kids, Cascade(k)
    PROVE  Reasons'
<1>1. OthersKept(k) /\ worker[k].pc = "cleared" /\ worker'[k].pc = "cascade"
  BY CascadeBase
<1>2. /\ kin' = kin /\ signal' = signal /\ log' = log
      /\ stopped' = stopped /\ run' = run /\ stop' = stop
      /\ rows' = [rows EXCEPT ![k] = Children(k)]
  BY DEF Cascade, Descendants, facts, tree, parent
<1>3. ASSUME NEW j \in Kids, Started(j), Doomed(j) PROVE Doomed(j)'
  <2>1. \A p \in Kids : worker[p].pc \in {"cascade", "done"} =>
            worker'[p].pc \in {"cascade", "done"}
    BY <1>1 DEF OthersKept
  <2> QED BY <1>2, <1>3, <2>1, DoomedKept
<1>4. \A j \in Kids : Started(j)' <=> Started(j) BY <1>2 DEF Started
<1>5. ASSUME NEW j \in Children(k) PROVE Started(j)' /\ Doomed(j)'
  <2>1. j \in Kids /\ kin[j].parent = k BY DEF Children, Base, Types
  <2>2. k # Root /\ k # None BY Apart
  <2> QED BY <1>1, <1>2, <1>4, <2>1, <2>2 DEF Started, Doomed
<1>6. ASSUME NEW d \in Cancellers, NEW j \in rows'[d]
      PROVE  Started(j)' /\ Doomed(j)'
  <2>1. j \in Children(k) \/ j \in rows[d]
    <3> HIDE DEF Children
    <3> QED BY <1>2, <1>6 DEF Base, Types
  <2>2. ASSUME j \in rows[d] PROVE Started(j)' /\ Doomed(j)'
    <3>1. j \in Kids BY <2>2 DEF Base, Types
    <3> QED BY <1>3, <1>4, <2>2, <3>1 DEF Reasons
  <2> QED BY <1>5, <2>1, <2>2
<1> QED BY <1>2, <1>3, <1>4, <1>6 DEF Reasons

LEMMA ReserveReasons ==
    ASSUME Base, Reasons, NEW a \in Agents, NEW k \in Kids, Reserve(a, k)
    PROVE  Reasons'
<1>1. /\ ~Started(k) /\ OthersKept(k) /\ worker'[k].pc = "boot"
      /\ \A j \in Kids : j # k => kin'[j] = kin[j]
  BY ReserveShape
<1>2. /\ log' = log /\ signal' = signal /\ run' = run
      /\ stop' = stop /\ stopped' = stopped /\ rows' = rows
  BY DEF Reserve, facts, parent
<1>3. \A j \in Kids : Started(j) => kin'[j] = kin[j] BY <1>1
<1>4. \A p \in Kids : Started(p) => worker'[p] = worker[p]
  BY <1>1 DEF OthersKept
<1>5. ASSUME NEW j \in Kids, Started(j), Doomed(j) PROVE Doomed(j)'
  <2>1. kin'[j] = kin[j] BY <1>3, <1>5
  <2> QED BY <1>2, <1>4, <1>5, <2>1, DoomedKept
<1>6. stop' # 0 => stop' \in stopped' BY <1>2 DEF Reasons
<1> QED BY <1>2, <1>3, <1>5, <1>6, ReasonsKept

LEMMA FinalizeReasons ==
    ASSUME Base, Reasons, NEW k \in Kids, Finalize(k)
    PROVE  Reasons'
<1>1. /\ OthersKept(k) /\ worker[k].pc = "cascade" /\ worker'[k].pc = "done"
      /\ \A j \in Kids : log'[j].cancel = log[j].cancel
  BY FinalizeShape DEF Base
<1>2. /\ kin' = kin /\ run' = run /\ stop' = stop /\ stopped' = stopped
      /\ rows' = rows /\ signal' = [signal EXCEPT ![k] = "none"]
  BY DEF Finalize, parent
<1>3. /\ signal'[k] = "none"
      /\ \A j \in Kids : j # k => signal'[j] = signal[j]
  BY <1>2 DEF Base, Types
<1>4. ASSUME NEW p \in Kids
      PROVE  /\ worker[p].pc \in {"cascade", "done"} =>
                    worker'[p].pc \in {"cascade", "done"}
             /\ signal[p] # "none" =>
                    signal'[p] # "none" \/ worker'[p].pc \in {"cascade", "done"}
  BY <1>1, <1>3 DEF OthersKept
<1>5. ASSUME NEW j \in Kids, Started(j), Doomed(j) PROVE Doomed(j)'
  BY <1>2, <1>4, <1>5, DoomedKept
<1>6. \A j \in Kids : signal'[j] = "parent" => signal[j] = "parent"
  BY <1>3
<1>7. stop' # 0 => stop' \in stopped' BY <1>2 DEF Reasons
<1> QED BY <1>1, <1>2, <1>5, <1>6, <1>7, ReasonsKept

LEMMA StartRunReasons ==
    ASSUME Base, Reasons, StartRun
    PROVE  Reasons'
<1>1. run'.gen = run.gen + 1 /\ run'.pc = "work" /\ run.gen \in Nat
  BY StartRunBase
<1>2. /\ log' = log /\ kin' = kin /\ signal' = signal /\ worker' = worker
      /\ stop' = stop /\ stopped' = stopped /\ rows' = rows
  BY DEF StartRun, facts, tree
<1>3. ASSUME NEW j \in Kids, Started(j), Doomed(j) PROVE Doomed(j)'
  <2>1. kin[j].gen \in Nat /\ kin[j].gen <= run.gen
    BY BoundAssumption DEF Base, Types, Drawn
  <2>2. run'.gen > kin'[j].gen
    <3>1. PICK n \in Nat : n = kin[j].gen BY <2>1
    <3>2. PICK g \in Nat : g = run.gen BY <1>1
    <3>3. g + 1 > n BY <2>1, <3>1, <3>2
    <3> QED BY <1>1, <1>2, <3>1, <3>2, <3>3
  <2> QED BY <1>2, <1>3, <2>2 DEF Doomed
<1>4. stop' # 0 => stop' \in stopped' BY <1>2 DEF Reasons
<1> QED BY <1>2, <1>3, <1>4, ReasonsKept

LEMMA CrashReasons ==
    ASSUME Base, Reasons, Crash
    PROVE  Reasons'
<1>1. /\ log' = log /\ kin' = kin /\ stopped' = stopped /\ stop' = 0
      /\ run'.gen = run.gen /\ run'.pc = "ended"
      /\ \A k \in Kids : signal'[k] = "none"
      /\ \A k \in Kids : Started(k) => worker'[k].pc = "done"
      /\ \A c \in Cancellers : rows'[c] = {}
  BY CrashShape DEF Base
<1>2. ASSUME NEW j \in Kids, Started(j), Doomed(j) PROVE Doomed(j)'
  BY <1>1, <1>2, DoomedKept
<1>3. \A c \in Cancellers : rows'[c] \subseteq rows[c] BY <1>1
<1> QED BY <1>1, <1>2, <1>3, ReasonsKept

LEMMA ReasonsStep ==
    ASSUME Base, Steers, Reasons, [Next]_vars
    PROVE  Reasons'
<1>1. CASE OneThread BY <1>1, OneThreadIsDone, OwnReasons DEF Done
<1>2. CASE Aside
  <2>1. ASSUME NEW c \in Cancellers, CancelStep(c) PROVE Reasons'
    BY <2>1, CancelReasons
  <2>2. CASE StartRun \/ RunFinishes \/ StopCancels
    BY <2>2, StartRunReasons, RunFinishesReasons, StopCancelsReasons
  <2>3. ASSUME kin' = kin, worker' = worker, rows' = rows, stopped \subseteq stopped',
               run'.gen = run.gen, run.pc # "work" => run'.pc # "work",
               \A p \in Kids : signal[p] # "none" => signal'[p] # "none",
               \A j \in Kids : signal'[j] = "parent" => signal[j] = "parent",
               \A j \in Kids : log'[j].cancel = log[j].cancel,
               stop' # 0 => stop' \in stopped'
        PROVE  Reasons'
    <3>1. ASSUME NEW j \in Kids, Started(j), Doomed(j) PROVE Doomed(j)'
      BY <2>3, <3>1, DoomedKept
    <3> QED BY <2>3, <3>1, ReasonsKept
  <2>4. kin' = kin /\ worker' = worker BY <1>2, AsideShape
  <2>5. stop # 0 => stop \in stopped BY DEF Reasons
  <2>6. ASSUME NEW a \in Agents, StartReturns(a) PROVE Reasons'
    <3>1. /\ rows' = rows /\ stopped' = stopped /\ stop' = stop /\ run' = run
          /\ signal' = signal /\ log' = log
      BY <2>6 DEF StartReturns, facts, parent
    <3> QED BY <2>3, <2>4, <2>5, <3>1
  <2>7. ASSUME NEW a \in Agents, StartTimesOut(a) PROVE Reasons'
    <3>1. PICK k \in Kids :
            /\ signal' = [signal EXCEPT ![k] = IF signal[k] = "none"
                                               THEN "startup" ELSE signal[k]]
            /\ UNCHANGED <<facts, kin, active, handle, worker, parent, rows>>
      BY <2>7, StartTimesOutShape
    <3>2. /\ rows' = rows /\ stopped' = stopped /\ stop' = stop /\ run' = run
          /\ log' = log
      BY <3>1 DEF facts, parent
    <3>3. /\ \A p \in Kids : signal[p] # "none" => signal'[p] # "none"
          /\ \A j \in Kids : signal'[j] = "parent" => signal[j] = "parent"
      BY <3>1 DEF Base, Types
    <3> QED BY <2>3, <2>4, <2>5, <3>2, <3>3
  <2>8. CASE RunEnds \/ RunBreaks
    <3>1. run'.gen = run.gen /\ run'.pc = "ended"
      BY <2>8, RunEndsBase, RunBreaksBase
    <3>2. /\ rows' = rows /\ stopped' = stopped /\ stop' = stop
          /\ signal' = signal /\ log' = log
      BY <2>8 DEF RunEnds, RunBreaks, facts
    <3> QED BY <2>3, <2>4, <2>5, <3>1, <3>2
  <2>9. CASE StopRequest
    <3>1. /\ rows' = rows /\ stopped' = stopped \union {run.gen}
          /\ stop' = run.gen /\ run' = run
          /\ signal' = signal /\ log' = log
      BY <2>9 DEF StopRequest, facts
    <3> QED BY <2>3, <2>4, <3>1
  <2>10. ASSUME NEW k \in Kids, FollowUp(k) PROVE Reasons'
    <3>1. \A j \in Kids : log'[j].cancel = log[j].cancel
      BY <2>10, FollowUpBase
    <3>2. /\ rows' = rows /\ stopped' = stopped /\ stop' = stop /\ run' = run
          /\ signal' = signal
      BY <2>10 DEF FollowUp, parent
    <3> QED BY <2>3, <2>4, <2>5, <3>1, <3>2
  <2>11. ASSUME NEW k \in Kids, Prune(k) PROVE Reasons'
    <3>1. /\ rows' = rows /\ stopped' = stopped /\ stop' = stop /\ run' = run
          /\ signal' = signal /\ log' = log
      BY <2>11 DEF Prune, parent, facts
    <3> QED BY <2>3, <2>4, <2>5, <3>1
  <2>12. CASE UNCHANGED vars
    <3>1. /\ rows' = rows /\ stopped' = stopped /\ stop' = stop /\ run' = run
          /\ signal' = signal /\ log' = log
      BY <2>12 DEF vars, parent, facts
    <3> QED BY <2>3, <2>4, <2>5, <3>1
  <2> QED BY <1>2, <2>1, <2>2, <2>6, <2>7, <2>8, <2>9, <2>10, <2>11, <2>12
          DEF Aside
<1>3. CASE Crash BY <1>3, CrashReasons
<1>4. ASSUME NEW a \in Agents, NEW k \in Kids, Reserve(a, k) PROVE Reasons'
  BY <1>4, ReserveReasons
<1>5. ASSUME NEW k \in Kids, Cascade(k) PROVE Reasons' BY <1>5, CascadeReasons
<1>6. ASSUME NEW k \in Kids, Finalize(k) PROVE Reasons' BY <1>6, FinalizeReasons
<1>7. ASSUME NEW k \in Kids, Steer(k) PROVE Reasons'
  <2>1. \A j \in Kids : log'[j].cancel = log[j].cancel BY <1>7, SteerBase
  <2>2. /\ rows' = rows /\ stopped' = stopped /\ stop' = stop /\ run' = run
        /\ signal' = signal /\ kin' = kin /\ worker' = worker
    BY <1>7 DEF Steer, parent, tree
  <2>3. ASSUME NEW j \in Kids, Started(j), Doomed(j) PROVE Doomed(j)'
    BY <2>2, <2>3, DoomedKept
  <2>4. stop' # 0 => stop' \in stopped' BY <2>2 DEF Reasons
  <2> QED BY <2>1, <2>2, <2>3, <2>4, ReasonsKept
<1> QED BY <1>1, <1>2, <1>3, <1>4, <1>5, <1>6, <1>7, Steps

LEMMA ReasonsInit == Init => Reasons
<1> SUFFICES ASSUME Init PROVE Reasons OBVIOUS
<1>1. stop = 0 /\ \A c \in Cancellers : rows[c] = {} BY DEF Init
<1>2. \A k \in Kids : signal[k] = "none" /\ ~log[k].cancel
  BY DEF Init, NoFacts
<1> QED BY <1>1, <1>2 DEF Reasons
-----------------------------------------------------------------------------
\* The tree is quiet

LEMMA QuietKept ==
    ASSUME Base, Quiet, kin' = kin, active' = active, worker' = worker,
           run' = run, broken' = broken,
           \A j \in Kids : signal[j] # "none" => signal'[j] # "none",
           \A a \in Agents : \A j \in active : Told(a, j) =>
              signal'[j] # "none" \/ j \in rows'[a]
    PROVE  Quiet'
<1>1. \A j : (Orphan(j)' <=> Orphan(j)) BY DEF Orphan, At
<1>2. \A a : Children(a)' = Children(a) /\ Children(a) \subseteq active
  BY DEF Children
<1>3. active \subseteq Kids BY DEF Base, Types
<1>4. ASSUME run'.pc = "closing", NEW j \in active', OfThisRun(j)'
      PROVE  Told(Root, j)'
  <2>1. OfThisRun(j) BY <1>4 DEF OfThisRun
  <2>2. Told(Root, j) BY <1>4, <2>1 DEF Quiet
  <2> QED BY <2>2, Apart DEF Told
<1>5. \A a \in Kids : At(a, "cascade")' => \A j \in Children(a)' : Told(a, j)'
  <2>1. ASSUME NEW a \in Kids, At(a, "cascade")', NEW j \in Children(a)'
        PROVE  Told(a, j)'
    <3>1. At(a, "cascade") /\ j \in Children(a) /\ j \in active
      BY <1>2, <2>1 DEF At
    <3>2. Told(a, j) BY <3>1 DEF Quiet
    <3> QED BY <3>1, <3>2, Apart DEF Told
  <2> QED BY <2>1
<1>6. \A j \in active' : Orphan(j)' => signal'[j] # "none"
  BY <1>1, <1>3 DEF Quiet
<1> QED BY <1>4, <1>5, <1>6 DEF Quiet

LEMMA CancelQuiet ==
    ASSUME Base, Quiet, NEW c \in Cancellers, CancelStep(c)
    PROVE  Quiet'
<1>1. PICK k \in rows[c] :
        /\ k \in Kids
        /\ \A j \in Kids : j # k => signal'[j] = signal[j]
        /\ k \in active => signal'[k] # "none"
        /\ k \notin active => signal'[k] = signal[k]
        /\ \A d \in Cancellers : d # c => rows'[d] = rows[d]
        /\ rows'[c] = (rows[c] \ {k}) \union
                      (IF k \in active THEN Children(k) ELSE {})
  BY CancelShape
<1>2. /\ kin' = kin /\ worker' = worker /\ run' = run /\ active' = active
      /\ broken' = broken
  BY DEF CancelStep, tree, parent
<1>3. \A j \in Kids : signal[j] # "none" => signal'[j] # "none" BY <1>1
<1>4. ASSUME NEW a \in Agents, NEW j \in active, Told(a, j)
      PROVE  signal'[j] # "none" \/ j \in rows'[a]
  <2>1. j \in Kids /\ a \in Cancellers BY Apart DEF Base, Types
  <2>2. CASE signal[j] # "none" BY <1>3, <2>1, <2>2
  <2>3. CASE j \in rows[a]
    <3>1. CASE j = k BY <1>1, <3>1
    <3>2. CASE j # k BY <1>1, <2>1, <2>3, <3>2
    <3> QED BY <3>1, <3>2
  <2> QED BY <1>4, <2>2, <2>3 DEF Told
<1> QED BY <1>2, <1>3, <1>4, QuietKept

LEMMA CascadeQuiet ==
    ASSUME Base, Quiet, NEW k \in Kids, Cascade(k)
    PROVE  Quiet'
<1>1. OthersKept(k) /\ worker[k].pc = "cleared" /\ worker'[k].pc = "cascade"
  BY CascadeBase
<1>2. /\ kin' = kin /\ signal' = signal /\ run' = run /\ active' = active
      /\ broken' = broken /\ rows' = [rows EXCEPT ![k] = Children(k)]
  BY DEF Cascade, Descendants, tree, parent
<1>3. /\ \A c \in Cancellers : c # k => rows'[c] = rows[c]
      /\ rows'[k] = Children(k)
  <2> HIDE DEF Children
  <2> QED BY <1>2, Apart DEF Base, Types
<1>4. \A a : Children(a)' = Children(a) BY <1>2 DEF Children
<1>5. \A j : OfThisRun(j)' <=> OfThisRun(j) BY <1>2 DEF OfThisRun
<1>6. ASSUME run'.pc = "closing", NEW j \in active', OfThisRun(j)'
      PROVE  Told(Root, j)'
  <2>1. rows'[Root] = rows[Root] BY <1>3, Apart
  <2>2. Told(Root, j) BY <1>2, <1>5, <1>6 DEF Quiet
  <2> QED BY <1>2, <2>1, <2>2 DEF Told
<1>7. ASSUME NEW a \in Kids, worker'[a].pc = "cascade", NEW j \in Children(a)
      PROVE  Told(a, j)'
  <2>1. CASE a = k BY <1>3, <1>7, <2>1 DEF Told
  <2>2. CASE a # k
    <3>1. At(a, "cascade") BY <1>1, <1>7, <2>2 DEF OthersKept, At
    <3>2. Told(a, j) BY <1>7, <3>1 DEF Quiet
    <3>3. rows'[a] = rows[a] BY <1>3, <2>2, Apart
    <3> QED BY <1>2, <3>2, <3>3 DEF Told
  <2> QED BY <2>1, <2>2
<1>8. ASSUME NEW j \in active' PROVE Orphan(j)' => signal'[j] # "none"
  <2>1. j \in active /\ j \in Kids /\ Started(j)
    BY <1>2, <1>8 DEF Base, Types, Drawn, Alive
  <2>2. kin[j].parent \in Kids \union {Root} BY <2>1, StartedParent
  <2>3. \A a \in Kids : worker'[a].pc = "done" => worker[a].pc = "done"
    BY <1>1 DEF OthersKept
  <2>4. Orphan(j)' => Orphan(j) BY <1>2, <2>2, <2>3 DEF Orphan, At
  <2> QED BY <1>2, <2>1, <2>4 DEF Quiet
<1>9. \A a \in Kids : At(a, "cascade")' => \A j \in Children(a)' : Told(a, j)'
  BY <1>4, <1>7 DEF At
<1> QED BY <1>6, <1>8, <1>9 DEF Quiet

LEMMA FinalizeQuiet ==
    ASSUME Base, Quiet, NEW k \in Kids, Finalize(k)
    PROVE  Quiet'
<1>1. /\ OthersKept(k) /\ worker[k].pc = "cascade" /\ worker'[k].pc = "done"
      /\ rows[k] = {}
  BY FinalizeShape DEF Base
<1>2. /\ kin' = kin /\ run' = run /\ rows' = rows /\ active' = active \ {k}
      /\ broken' = broken /\ signal' = [signal EXCEPT ![k] = "none"]
  BY DEF Finalize, parent
<1>3. \A j \in Kids : j # k => signal'[j] = signal[j]
  BY <1>2 DEF Base, Types
<1>4. \A a : \A j : j \in Children(a)' => j \in Children(a) /\ j # k
  BY <1>2 DEF Children
<1>5. \A j : OfThisRun(j)' <=> OfThisRun(j) BY <1>2 DEF OfThisRun
<1>6. active \subseteq Kids BY DEF Base, Types
<1>7. \A a, j : j \in active /\ j # k /\ Told(a, j) => Told(a, j)'
  BY <1>2, <1>3, <1>6 DEF Told
<1>8. ASSUME run'.pc = "closing", NEW j \in active', OfThisRun(j)'
      PROVE  Told(Root, j)'
  <2>1. j \in active /\ j # k BY <1>2, <1>8
  <2>2. Told(Root, j) BY <1>2, <1>5, <1>8, <2>1 DEF Quiet
  <2> QED BY <1>7, <2>1, <2>2
<1>9. ASSUME NEW a \in Kids, At(a, "cascade")', NEW j \in Children(a)'
      PROVE  Told(a, j)'
  <2>1. a # k /\ At(a, "cascade") BY <1>1, <1>9 DEF At, OthersKept
  <2>2. j \in Children(a) /\ j # k BY <1>4, <1>9
  <2>3. j \in active BY <2>2 DEF Children
  <2>4. Told(a, j) BY <2>1, <2>2 DEF Quiet
  <2> QED BY <1>7, <2>2, <2>3, <2>4
<1>10. ASSUME NEW j \in active', Orphan(j)' PROVE signal'[j] # "none"
  <2>1. j \in active /\ j # k /\ j \in Kids /\ Started(j)
    BY <1>2, <1>10 DEF Base, Types, Drawn, Alive
  <2>2. kin[j].parent \in Kids \union {Root} BY <2>1, StartedParent
  <2>3. CASE kin[j].parent = k
    <3>1. j \in Children(k) BY <2>1, <2>3 DEF Children
    <3>2. Told(k, j) BY <1>1, <3>1 DEF Quiet, At
    <3>3. signal[j] # "none" BY <1>1, <3>2 DEF Told
    <3> QED BY <1>3, <2>1, <3>3
  <2>4. CASE kin[j].parent # k
    <3>1. Orphan(j) BY <1>1, <1>2, <1>10, <2>2, <2>4 DEF Orphan, At, OthersKept
    <3> QED BY <1>3, <2>1, <3>1 DEF Quiet
  <2> QED BY <2>3, <2>4
<1> QED BY <1>8, <1>9, <1>10 DEF Quiet

LEMMA ReserveQuiet ==
    ASSUME NoLateSpawn, Base, Quiet, NEW a \in Agents, NEW k \in Kids, Reserve(a, k)
    PROVE  Quiet'
<1>1. /\ ~Started(k) /\ OthersKept(k) /\ worker'[k].pc = "boot"
      /\ kin'[k].parent = a
      /\ kin'[k].gen = IF a = Root THEN run.gen ELSE 0
      /\ \A j \in Kids : j # k => kin'[j] = kin[j]
      /\ a # k
      /\ a \in Kids => worker[a].pc = "tool"
  BY ReserveShape
<1>2. /\ signal' = signal /\ run' = run /\ rows' = rows
      /\ broken' = broken /\ active' = active \union {k}
  BY DEF Reserve, parent
<1>3. a = Root => run.pc = "work" BY DEF Reserve, Working, NoLateSpawn
<1>4. a \in Kids \/ a = Root BY DEF Agents
<1>5. active \subseteq Kids /\ k \notin active /\ worker[k].pc = "none"
  BY <1>1 DEF Base, Types, Drawn, Alive
<1>6. \A p, j : j \in Children(p)' => j \in Children(p) \/ (j = k /\ p = a)
  BY <1>1, <1>2, <1>5 DEF Children
<1>7. ASSUME run'.pc = "closing", NEW j \in active', OfThisRun(j)'
      PROVE  Told(Root, j)'
  <2>1. a # Root BY <1>2, <1>3, <1>7
  <2>2. j \in active /\ OfThisRun(j)
    BY <1>1, <1>2, <1>5, <1>7, <2>1 DEF OfThisRun
  <2>3. Told(Root, j) BY <1>2, <1>7, <2>2 DEF Quiet
  <2> QED BY <1>2, <2>3 DEF Told
<1>8. ASSUME NEW p \in Kids, At(p, "cascade")', NEW j \in Children(p)'
      PROVE  Told(p, j)'
  <2>1. p # k /\ At(p, "cascade") BY <1>1, <1>8 DEF At, OthersKept
  <2>2. p # a BY <1>1, <2>1 DEF At
  <2>3. j \in Children(p) BY <1>6, <1>8, <2>2
  <2>4. Told(p, j) BY <2>1, <2>3 DEF Quiet
  <2> QED BY <1>2, <2>4 DEF Told
<1>9. ASSUME NEW j \in active', Orphan(j)' PROVE signal'[j] # "none"
  <2>1. CASE j = k
    <3>1. CASE a = Root
      <4>1. run'.pc = "work" /\ run'.gen = kin'[k].gen BY <1>1, <1>2, <1>3, <3>1
      <4>2. run'.gen \in Nat BY <1>2, BoundAssumption DEF Base, Types
      <4>3. ~(run'.gen > kin'[k].gen) BY <4>1, <4>2
      <4> QED BY <1>1, <1>9, <2>1, <3>1, <4>1, <4>3 DEF Orphan
    <3>2. CASE a # Root
      <4>1. a \in Kids /\ worker'[a].pc = "tool"
        BY <1>1, <1>4, <3>2 DEF OthersKept
      <4> QED BY <1>1, <1>9, <2>1, <3>2, <4>1 DEF Orphan, At
    <3> QED BY <3>1, <3>2
  <2>2. CASE j # k
    <3>1. j \in active /\ j \in Kids /\ Started(j) /\ kin'[j] = kin[j]
      BY <1>1, <1>2, <1>5, <1>9, <2>2 DEF Base, Drawn, Alive
    <3>2. kin[j].parent \in Kids \union {Root} BY <3>1, StartedParent
    <3>3. \A p \in Kids : worker'[p].pc = "done" => worker[p].pc = "done"
      BY <1>1 DEF OthersKept
    <3>4. Orphan(j) BY <1>2, <1>9, <3>1, <3>2, <3>3 DEF Orphan, At
    <3> QED BY <1>2, <3>1, <3>4 DEF Quiet
  <2> QED BY <2>1, <2>2
<1> QED BY <1>2, <1>7, <1>8, <1>9 DEF Quiet

\* The four steps of a run.
LEMMA RunQuiet ==
    ASSUME Base, Quiet, StartRun \/ RunFinishes \/ RunEnds \/ RunBreaks
    PROVE  Quiet'
<1>1. /\ kin' = kin /\ active' = active /\ worker' = worker /\ signal' = signal
      /\ broken' = broken \/ RunBreaks
  BY DEF StartRun, RunFinishes, RunEnds, RunBreaks, tree
<1>2. active \subseteq Kids BY DEF Base, Types
<1>3. \A c \in Kids : rows'[c] = rows[c]
  <2>1. CASE RunFinishes BY <2>1, RunFinishesBase, Apart
  <2>2. CASE StartRun \/ RunEnds \/ RunBreaks
    BY <2>2 DEF StartRun, RunEnds, RunBreaks
  <2> QED BY <2>1, <2>2
<1>4. ASSUME NEW a \in Kids, At(a, "cascade")', NEW j \in Children(a)'
      PROVE  Told(a, j)'
  <2>1. At(a, "cascade") /\ j \in Children(a)
    BY <1>1, <1>4 DEF At, Children
  <2>2. Told(a, j) BY <2>1 DEF Quiet
  <2> QED BY <1>1, <1>3, <2>2 DEF Told
<1>5. ASSUME run'.pc = "closing", NEW j \in active', OfThisRun(j)'
      PROVE  Told(Root, j)'
  <2>1. RunFinishes BY <1>5, StartRunBase, RunEndsBase, RunBreaksBase
  <2>2. run'.gen = run.gen /\ rows'[Root] = OfRun(run.gen)
    BY <2>1, RunFinishesBase
  <2>3. j \in OfRun(run.gen)
    BY <1>1, <1>5, <2>2 DEF OfThisRun, OfRun, Children
  <2> QED BY <2>2, <2>3 DEF Told
<1>6. ASSUME NEW j \in active', Orphan(j)' PROVE signal'[j] # "none"
  <2>1. j \in active /\ j \in Kids /\ Started(j)
    BY <1>1, <1>2, <1>6 DEF Base, Drawn, Alive
  <2>2. CASE kin[j].parent # Root
    <3>1. Orphan(j) BY <1>1, <1>6, <2>2 DEF Orphan, At
    <3> QED BY <1>1, <2>1, <3>1 DEF Quiet
  <2>3. CASE kin[j].parent = Root
    <3>1. kin[j].gen \notin broken' BY <1>1, <1>6, <2>3 DEF Orphan
    <3>2. kin[j].gen \notin broken BY <1>1, <3>1, RunBreaksBase
    <3>3. CASE StartRun
      <4>1. run.pc = "ended" BY <3>3 DEF StartRun
      <4>2. Orphan(j) BY <2>3, <3>2, <4>1 DEF Orphan
      <4> QED BY <1>1, <2>1, <4>2 DEF Quiet
    <3>4. CASE RunFinishes
      <4>1. run'.gen = run.gen /\ run'.pc = "closing" BY <3>4, RunFinishesBase
      <4>2. Orphan(j) BY <1>1, <1>6, <2>3, <3>2, <4>1 DEF Orphan
      <4> QED BY <1>1, <2>1, <4>2 DEF Quiet
    <3>5. kin[j].gen \in Nat /\ run.gen \in Nat /\ kin[j].gen <= run.gen
      BY <2>1, BoundAssumption DEF Base, Types, Drawn
    <3>6. CASE RunEnds
      <4>1. run.pc = "closing" /\ rows[Root] = {} BY <3>6 DEF RunEnds
      <4>3. CASE kin[j].gen = run.gen
        <5>1. OfThisRun(j) BY <2>3, <4>3 DEF OfThisRun
        <5>2. Told(Root, j) BY <2>1, <4>1, <5>1 DEF Quiet
        <5> QED BY <1>1, <4>1, <5>2 DEF Told
      <4>4. CASE kin[j].gen # run.gen
        <5>1. run.gen > kin[j].gen BY <3>5, <4>4
        <5>2. Orphan(j) BY <2>3, <3>2, <5>1 DEF Orphan
        <5> QED BY <1>1, <2>1, <5>2 DEF Quiet
      <4> QED BY <4>3, <4>4
    <3>7. CASE RunBreaks
      <4>1. kin[j].gen # run.gen BY <3>7, <3>1, RunBreaksBase
      <4>2. run.gen > kin[j].gen BY <3>5, <4>1
      <4>3. Orphan(j) BY <2>3, <3>2, <4>2 DEF Orphan
      <4> QED BY <1>1, <2>1, <4>3 DEF Quiet
    <3> QED BY <3>3, <3>4, <3>6, <3>7
  <2> QED BY <2>2, <2>3
<1> QED BY <1>4, <1>5, <1>6 DEF Quiet

LEMMA QuietStep ==
    ASSUME NoLateSpawn, Base, Steers, Quiet, [Next]_vars
    PROVE  Quiet'
<1>1. CASE OneThread BY <1>1, OneThreadIsDone, OwnQuiet DEF Done
<1>2. CASE Aside
  <2>1. kin' = kin /\ active' = active /\ worker' = worker
    BY <1>2, AsideShape
  <2>2. ASSUME NEW c \in Cancellers, CancelStep(c) PROVE Quiet'
    BY <2>2, CancelQuiet
  <2>3. CASE StartRun \/ RunFinishes \/ RunEnds \/ RunBreaks BY <2>3, RunQuiet
  <2>4. ASSUME run' = run, broken' = broken,
               \A j \in Kids : signal[j] # "none" => signal'[j] # "none",
               \A a \in Agents : rows'[a] = rows[a]
        PROVE  Quiet'
    <3>1. \A j \in active : j \in Kids BY DEF Base, Types
    <3> QED BY <2>1, <2>4, <3>1, QuietKept DEF Told
  <2>5. ASSUME NEW a \in Agents, StartTimesOut(a) PROVE Quiet'
    <3>1. PICK k \in Kids :
            /\ signal' = [signal EXCEPT ![k] = IF signal[k] = "none"
                                               THEN "startup" ELSE signal[k]]
            /\ UNCHANGED <<facts, kin, active, handle, worker, parent, rows>>
      BY <2>5, StartTimesOutShape
    <3>2. rows' = rows /\ run' = run /\ broken' = broken BY <3>1 DEF parent
    <3>3. \A p \in Kids : signal[p] # "none" => signal'[p] # "none"
      BY <3>1 DEF Base, Types
    <3> QED BY <2>4, <3>2, <3>3
  <2>6. CASE StopCancels
    <3>1. \A c \in Agents : rows'[c] = rows[c]
      <4>1. Stop \notin Agents BY Apart
      <4> QED BY <2>6, <4>1, StopCancelsBase, Apart
    <3>2. run' = run /\ broken' = broken /\ signal' = signal
      BY <2>6 DEF StopCancels
    <3> QED BY <2>4, <3>1, <3>2
  <2>7. ASSUME \/ \E a \in Agents : StartReturns(a)
               \/ StopRequest \/ UNCHANGED vars
               \/ \E k \in Kids : FollowUp(k) \/ Prune(k)
        PROVE  /\ run' = run /\ broken' = broken /\ signal' = signal
               /\ rows' = rows
    BY <2>7 DEF StartReturns, StopRequest, FollowUp, Prune, vars, parent
  <2> QED BY <1>2, <2>2, <2>3, <2>4, <2>5, <2>6, <2>7 DEF Aside
<1>3. CASE Crash
  <2>1. /\ active' = {} /\ run'.pc = "ended"
        /\ \A k \in Kids : worker'[k].pc \in {"none", "done"}
    BY <1>3, CrashShape DEF Base
  <2> QED BY <2>1 DEF Quiet, At
<1>4. ASSUME NEW a \in Agents, NEW k \in Kids, Reserve(a, k) PROVE Quiet'
  BY <1>4, ReserveQuiet
<1>5. ASSUME NEW k \in Kids, Cascade(k) PROVE Quiet' BY <1>5, CascadeQuiet
<1>6. ASSUME NEW k \in Kids, Finalize(k) PROVE Quiet' BY <1>6, FinalizeQuiet
<1>7. ASSUME NEW k \in Kids, Steer(k) PROVE Quiet'
  <2>1. /\ run' = run /\ signal' = signal /\ rows' = rows /\ kin' = kin
        /\ active' = active /\ worker' = worker /\ broken' = broken
    BY <1>7 DEF Steer, parent, tree
  <2> QED BY <2>1, QuietKept DEF Told
<1> QED BY <1>1, <1>2, <1>3, <1>4, <1>5, <1>6, <1>7, Steps

LEMMA QuietInit == Init => Quiet
<1> SUFFICES ASSUME Init PROVE Quiet OBVIOUS
<1>1. active = {} /\ run.pc = "ended" /\ \A k \in Kids : worker[k].pc = "none"
  BY DEF Init, Unborn
<1> QED BY <1>1 DEF Quiet, At

-----------------------------------------------------------------------------
\* The theorems

LEMMA BaseAlways == Spec => [](Base /\ Steers)
<1>1. Init => Base /\ Steers BY BaseInit, SteersInit
<1>2. Base /\ Steers /\ [Next]_vars => (Base /\ Steers)'
  BY BaseStep, SteersStep
<1> QED BY <1>1, <1>2, PTL DEF Spec

LEMMA BaseTypes == Base => TypeOK
<1> SUFFICES ASSUME Base PROVE TypeOK OBVIOUS
<1>1. ASSUME NEW k \in Kids
      PROVE  /\ log[k].result \in Results /\ log[k].terminal \in Outcomes
             /\ kin[k].parent \in Agents \union {None} /\ kin[k].gen \in 0..MaxRuns
             /\ signal[k] \in {"none", "startup", "parent"}
             /\ handle[k].st \in Outcomes \union {"running", "settled"}
             /\ handle[k].ans \in Answers
  <2>1. log[k] \in LogType BY DEF Base, Types
  <2>2. kin[k] \in [parent : Agents \union {None}, gen : 0..MaxRuns]
    BY DEF Base, Types
  <2>3. handle[k] \in [st : Outcomes \union {"running", "settled"}, ans : Answers]
    BY DEF Base, Types
  <2>4. signal[k] \in {"none", "startup", "parent"} BY DEF Base, Types
  <2> QED BY <2>1, <2>2, <2>3, <2>4 DEF LogType
<1>2. active \subseteq {k \in Kids : kin[k].parent # None}
  BY DEF Base, Types, Drawn, Started, Alive
<1> QED BY <1>1, <1>2 DEF TypeOK, Base, Types

(* A session's saved steers are the first of its log's, in their order, and  *)
(* no child that completed has missed one, whatever save failed and whenever *)
(* steers arrived (_inject_pending_agent_messages, runner.py).               *)
THEOREM SteersStayAnswered == Spec => []SteersAreAnswered
<1>1. Base /\ Steers => SteersAreAnswered
  <2> SUFFICES ASSUME Base, Steers, NEW k \in Kids
               PROVE  IsPrefix(sess[k], log[k].steers) /\ worker[k].missed = {}
    BY DEF SteersAreAnswered
  <2>1. sess[k] \in Seq(Nat) /\ log[k].steers \in Seq(Nat)
    BY DEF Base, Types, LogType
  <2>2. Begins(sess[k], log[k].steers) /\ worker[k].missed = {}
    BY DEF Steers, Steered, SteersFine
  <2> QED BY <2>1, <2>2, BeginsIsPrefix
<1> QED BY <1>1, BaseAlways, PTL

(* Nobody is told to stop, or recorded as cancelled, but on behalf of the    *)
(* run or the child that started it: a Stop that is carried out in the next  *)
(* run has visited, and will visit, children of the stopped one alone        *)
(* (cancel_parent, runner.py).                                               *)
THEOREM CancelsHaveReasons == Spec => []CancelHasAReason
<1>1. Base /\ Reasons => CancelHasAReason BY DEF CancelHasAReason, Reasons
<1>2. Init => Base /\ Steers /\ Reasons BY BaseInit, SteersInit, ReasonsInit
<1>3. Base /\ Steers /\ Reasons /\ [Next]_vars => (Base /\ Steers /\ Reasons)'
  BY BaseStep, SteersStep, ReasonsStep
<1> QED BY <1>1, <1>2, <1>3, PTL DEF Spec

(* Where spawn_subagent cannot reserve after its own timeout, every child    *)
(* that is registered when what started it is over has been told to stop     *)
(* (_finalize_child and the end of a run), for any tree and any schedule.    *)
(* Only the children that a run has started itself, and that was then broken *)
(* off by an exception or a closed stream, are exempt: nothing tells them.   *)
THEOREM TreeStaysQuiet ==
    ASSUME NoLateSpawn
    PROVE  Spec => []TreeIsQuiet
<1>1. Base /\ Quiet => TreeIsQuiet BY BaseTypes DEF TreeIsQuiet, Quiet
<1>2. Init => Base /\ Steers /\ Quiet BY BaseInit, SteersInit, QuietInit
<1>3. Base /\ Steers /\ Quiet /\ [Next]_vars => (Base /\ Steers /\ Quiet)'
  BY BaseStep, SteersStep, QuietStep
<1> QED BY <1>1, <1>2, <1>3, PTL DEF Spec

(* Where children are not isolated in a worktree, a terminal fact has the    *)
(* outcome of the result before it, and what a transcript is told under the  *)
(* result's name is what is recorded under it, or the answer of a follow-up, *)
(* through lost writes, pruned handles and restarts (result_current,         *)
(* runner.py, and subagent_delivery.py).                                     *)
THEOREM TranscriptsStayTrue ==
    ASSUME NotIsolated
    PROVE  Spec => []TranscriptsAreTrue
<1>1. Base /\ Records => TranscriptsAreTrue
  <2> SUFFICES ASSUME Base, Records, NEW k \in Kids
               PROVE  /\ log[k].terminal # "none" => log[k].result.out = log[k].terminal
                      /\ Readable(k) /\ Receipt(k).bound =>
                           ResultIsDurable(k)
                           /\ Receipt(k).ans \in {log[k].result.ans, "follow"}
    BY DEF TranscriptsAreTrue
  <2>1. Recorded(k) BY DEF Records
  <2>2. CASE handle[k].st = "none" BY <2>1, <2>2 DEF Recorded, Readable, Receipt
  <2>3. CASE handle[k].st # "none"
    BY <2>1, <2>3 DEF Recorded, Readable, Receipt, ResultIsDurable
  <2> QED BY <2>2, <2>3
<1>2. Init => Base /\ Steers /\ Records BY BaseInit, SteersInit, RecordsInit
<1>3. Base /\ Steers /\ Records /\ [Next]_vars => (Base /\ Steers /\ Records)'
  BY BaseStep, SteersStep, RecordsStep
<1> QED BY <1>1, <1>2, <1>3, PTL DEF Spec

=============================================================================
