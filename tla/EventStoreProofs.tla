--------------------------- MODULE EventStoreProofs ---------------------------
(***************************************************************************)
(* Proofs about the event log of a session: for any threads in any         *)
(* processes, any rotation limit and any failed, torn or interrupted       *)
(* writes, seq is the position of an event in the log, what an append has  *)
(* returned can be read, cached reads are exact, and the files together    *)
(* implement the one growing sequence of EventLog.  The move of the first  *)
(* rotation may not fail (NoMoveFault): after it all of this is false.     *)
(***************************************************************************)
EXTENDS EventStore, SequenceTheorems, WellFoundedInduction, TLAPS

-----------------------------------------------------------------------------
\* Numbers

Less == {ss \in Nat \X Nat : ss[1] < ss[2]}

\* A set of natural numbers that is not empty has a least one.
LEMMA LeastExists ==
    ASSUME NEW T \in SUBSET Nat, T # {}
    PROVE  \E x \in T : \A y \in T : x <= y
<1>1. IsWellFoundedOn(Less, Nat)
  BY NatLessThanWellFounded DEF OpToRel, Less
<1>2. \A R, S : IsWellFoundedOn(R, S) =>
        \A U : U \subseteq S /\ U # {} =>
           \E x \in U : \A y \in U : ~ (<<y, x>> \in R)
  BY WFMin, Zenon
<1>3. PICK x \in T : \A y \in T : ~ (<<y, x>> \in Less)
  BY <1>1, <1>2
<1>4. ASSUME NEW y \in T PROVE x <= y
  <2>1. x \in Nat /\ y \in Nat OBVIOUS
  <2>2. y < x => <<y, x>> \in Less BY <2>1 DEF Less
  <2>3. ~ (y < x) BY <1>3, <2>2, Zenon
  <2> QED BY <2>1, <2>3
<1> QED BY <1>4

\* What holds of 0 and of each number after one of which it holds, does of
\* all: the numbers up to m of which it does are given as a set.
LEMMA UpTo ==
    ASSUME NEW m \in Nat, NEW T, 0 \in T,
           \A i \in 1..m : i - 1 \in T => i \in T
    PROVE  \A i \in 0..m : i \in T
<1> DEFINE Bad == {i \in 0..m : i \notin T}
<1>1. SUFFICES ASSUME Bad # {} PROVE FALSE OBVIOUS
<1>2. Bad \in SUBSET Nat OBVIOUS
<1>3. PICK k \in Bad : \A j \in Bad : k <= j
  <2> HIDE DEF Bad
  <2> QED BY <1>1, <1>2, LeastExists
<1>4. k \in 1..m /\ k - 1 \in 0..m /\ ~ (k <= k - 1) OBVIOUS
<1>5. k - 1 \notin Bad
  <2> HIDE DEF Bad
  <2> QED BY <1>3, <1>4
<1>6. k - 1 \in T BY <1>4, <1>5
<1> QED BY <1>4, <1>6

-----------------------------------------------------------------------------
\* The events of a file

\* Kept is what its recursive definition says.
LEMMA KeptSteps ==
    ASSUME NEW file, Len(file) \in Nat
    PROVE  /\ Kept(file)[0] = << >>
           /\ \A i \in 1..Len(file) : Kept(file)[i] =
                IF file[i].state = "whole" THEN Append(Kept(file)[i-1], file[i])
                ELSE Kept(file)[i-1]
<1> DEFINE Next1(s, i) == IF file[i].state = "whole" THEN Append(s, file[i])
                          ELSE s
           Is(f, k) == f = [i \in 0..k |-> IF i = 0 THEN << >> ELSE Next1(f[i-1], i)]
           Good == {k \in Nat : \E f : Is(f, k)}
<1>1. 0 \in Good
  <2> DEFINE f == [i \in 0..0 |-> << >>]
  <2>1. \A i \in 0..0 : f[i] = IF i = 0 THEN << >> ELSE Next1(f[i-1], i)
    <3>1. \A i \in 0..0 : i = 0 /\ f[i] = << >> OBVIOUS
    <3> HIDE DEF Next1, f
    <3> QED BY <3>1
  <2>2. f = [i \in 0..0 |-> f[i]] OBVIOUS
  <2>3. Is(f, 0)
    <3> HIDE DEF Next1, f
    <3> QED BY <2>1, <2>2
  <2> QED BY <2>3
<1>2. ASSUME NEW k \in 1..Len(file), k - 1 \in Good PROVE k \in Good
  <2>1. k \in Nat /\ k # 0 /\ k - 1 \in Nat OBVIOUS
  <2>2. PICK g : Is(g, k - 1) BY <1>2
  <2> DEFINE f == [i \in 0..k |-> IF i = k THEN Next1(g[k-1], k) ELSE g[i]]
  <2>3. ASSUME NEW i \in 0..k
        PROVE  f[i] = IF i = 0 THEN << >> ELSE Next1(f[i-1], i)
    <3>1. CASE i = k
      <4>1. k \in 0..k /\ k - 1 \in 0..k /\ k - 1 # k BY <2>1
      <4>2. f[k-1] = g[k-1] /\ f[k] = Next1(g[k-1], k)
        <5> HIDE DEF Next1
        <5> QED BY <4>1
      <4> HIDE DEF Next1, f
      <4> QED BY <2>1, <3>1, <4>2
    <3>2. CASE i # k
      <4>1. i \in 0..(k-1) BY <2>1, <3>2
      <4>2. g[i] = IF i = 0 THEN << >> ELSE Next1(g[i-1], i)
        <5> HIDE DEF Next1
        <5> QED BY <2>2, <4>1
      <4>3. f[i] = g[i] BY <3>2
      <4>4. i # 0 => f[i-1] = g[i-1] BY <2>1, <4>1
      <4> HIDE DEF Next1, f
      <4> QED BY <4>2, <4>3, <4>4
    <3> QED BY <3>1, <3>2
  <2>4. f = [i \in 0..k |-> f[i]] OBVIOUS
  <2>5. Is(f, k)
    <3> HIDE DEF Next1, f
    <3> QED BY <2>3, <2>4
  <2> QED BY <2>1, <2>5
<1>3. Len(file) \in Good
  <2>1. Len(file) \in 0..Len(file) OBVIOUS
  <2> HIDE DEF Good
  <2> QED BY <1>1, <1>2, <2>1, UpTo
<1>4. \E f : Is(f, Len(file)) BY <1>3
<1>5. Kept(file) = CHOOSE f : Is(f, Len(file)) BY DEF Kept
<1>6. Is(Kept(file), Len(file))
  <2> HIDE DEF Is
  <2> QED BY <1>4, <1>5
<1>7. \A i \in 0..Len(file) : Kept(file)[i] =
          IF i = 0 THEN << >> ELSE Next1(Kept(file)[i-1], i)
  <2> HIDE DEF Next1
  <2> QED BY <1>6
<1>8. 0 \in 0..Len(file) /\ \A i \in 1..Len(file) : i \in 0..Len(file) /\ i # 0
  OBVIOUS
<1>9. Kept(file)[0] = << >> BY <1>7, <1>8
<1>10. \A i \in 1..Len(file) : Kept(file)[i] = Next1(Kept(file)[i-1], i)
  <2> HIDE DEF Next1
  <2> QED BY <1>7, <1>8
<1> QED BY <1>9, <1>10

\* A line that parses is an event.
LEMMA WholeIsEvent ==
    ASSUME NEW l \in Line
    PROVE  (l.state = "whole") <=> l \in Event
BY DEF Line, Event, Whole, Broken

LEMMA KeptType ==
    ASSUME NEW file \in Seq(Line)
    PROVE  \A i \in 0..Len(file) : Kept(file)[i] \in Seq(Event)
<1> DEFINE T == {i \in 0..Len(file) : Kept(file)[i] \in Seq(Event)}
<1>0. Len(file) \in Nat OBVIOUS
<1>1. 0 \in T
  <2>1. Kept(file)[0] = << >> BY <1>0, KeptSteps, Zenon
  <2>2. << >> \in Seq(Event) OBVIOUS
  <2>3. 0 \in 0..Len(file) BY <1>0
  <2> QED BY <2>1, <2>2, <2>3
<1>2. ASSUME NEW i \in 1..Len(file), i - 1 \in T PROVE i \in T
  <2>1. Kept(file)[i-1] \in Seq(Event) /\ file[i] \in Line BY <1>2
  <2>2. Kept(file)[i] = IF file[i].state = "whole"
                        THEN Append(Kept(file)[i-1], file[i])
                        ELSE Kept(file)[i-1]
    BY <1>0, KeptSteps, Zenon
  <2>3. Append(Kept(file)[i-1], file[i]) \in Seq(Event) \/ file[i].state # "whole"
    BY <2>1, WholeIsEvent
  <2>4. Kept(file)[i] \in Seq(Event) BY <2>1, <2>2, <2>3
  <2> QED BY <1>0, <2>4
<1>3. \A i \in 0..Len(file) : i \in T
  <2> HIDE DEF T
  <2> QED BY <1>0, <1>1, <1>2, UpTo
<1> QED BY <1>3

LEMMA ParsedType ==
    ASSUME NEW file \in Seq(Line)
    PROVE  Parsed(file) \in Seq(Event)
BY KeptType DEF Parsed

LEMMA ParsedEmpty == Parsed(<< >>) = << >>
<1>1. Len(<< >>) = 0 OBVIOUS
<1>2. Kept(<< >>)[0] = << >> BY <1>1, KeptSteps
<1> QED BY <1>1, <1>2 DEF Parsed

LEMMA ParsedAppend ==
    ASSUME NEW file \in Seq(Line), NEW l \in Line
    PROVE  Parsed(Append(file, l)) =
              IF l.state = "whole" THEN Append(Parsed(file), l) ELSE Parsed(file)
<1> DEFINE longer == Append(file, l)
           T == {i \in 0..Len(file) : Kept(longer)[i] = Kept(file)[i]}
<1>1. longer \in Seq(Line) /\ Len(longer) = Len(file) + 1
  /\ longer[Len(file) + 1] = l /\ \A i \in 1..Len(file) : longer[i] = file[i]
  OBVIOUS
<1> HIDE DEF longer
<1>0. Len(file) \in Nat /\ Len(longer) \in Nat BY <1>1
<1>2. 0 \in T
  <2>1. Kept(longer)[0] = << >> /\ Kept(file)[0] = << >>
    BY <1>0, KeptSteps, Zenon
  <2> QED BY <1>0, <2>1
<1>3. ASSUME NEW i \in 1..Len(file), i - 1 \in T PROVE i \in T
  <2>1. i \in 1..Len(longer) /\ longer[i] = file[i] BY <1>1
  <2>2. Kept(longer)[i-1] = Kept(file)[i-1] BY <1>3
  <2>3. Kept(longer)[i] = IF longer[i].state = "whole"
                          THEN Append(Kept(longer)[i-1], longer[i])
                          ELSE Kept(longer)[i-1]
    BY <1>0, <2>1, KeptSteps, Zenon
  <2>4. Kept(file)[i] = IF file[i].state = "whole"
                        THEN Append(Kept(file)[i-1], file[i])
                        ELSE Kept(file)[i-1]
    BY <1>0, KeptSteps, Zenon
  <2>5. Kept(longer)[i] = Kept(file)[i] BY <2>1, <2>2, <2>3, <2>4
  <2> QED BY <2>5
<1>4. \A i \in 0..Len(file) : i \in T
  <2> HIDE DEF T
  <2> QED BY <1>0, <1>2, <1>3, UpTo
<1>5. Kept(longer)[Len(file)] = Kept(file)[Len(file)] BY <1>4
<1>6. Len(file) + 1 \in 1..Len(longer) /\ (Len(file) + 1) - 1 = Len(file) BY <1>1
<1>7. Kept(longer)[Len(file) + 1] =
        IF l.state = "whole" THEN Append(Kept(longer)[Len(file)], l)
        ELSE Kept(longer)[Len(file)]
  <2> DEFINE n == Len(file) + 1
  <2>1. n \in 1..Len(longer) /\ n - 1 = Len(file) /\ longer[n] = l
    BY <1>1, <1>6
  <2> HIDE DEF n
  <2>2. Kept(longer)[n] = IF longer[n].state = "whole"
                          THEN Append(Kept(longer)[n-1], longer[n])
                          ELSE Kept(longer)[n-1]
    BY <1>0, <2>1, KeptSteps, Zenon
  <2>3. Kept(longer)[n] = IF l.state = "whole"
                          THEN Append(Kept(longer)[Len(file)], l)
                          ELSE Kept(longer)[Len(file)]
    BY <2>1, <2>2
  <2> QED BY <2>3 DEF n
<1>8. Parsed(longer) = Kept(longer)[Len(file) + 1] BY <1>1 DEF Parsed
<1>9. Parsed(file) = Kept(file)[Len(file)] BY DEF Parsed
<1> QED BY <1>5, <1>7, <1>8, <1>9 DEF longer

-----------------------------------------------------------------------------
\* The events of several files

\* Joined is what its recursive definition says.
LEMMA JoinedSteps ==
    ASSUME NEW files, Len(files) \in Nat
    PROVE  /\ Joined(files)[0] = << >>
           /\ \A i \in 1..Len(files) : Joined(files)[i] =
                Joined(files)[i-1] \o Parsed(files[i])
<1> DEFINE Next1(s, i) == s \o Parsed(files[i])
           Is(f, k) == f = [i \in 0..k |-> IF i = 0 THEN << >> ELSE Next1(f[i-1], i)]
           Good == {k \in Nat : \E f : Is(f, k)}
<1>1. 0 \in Good
  <2> DEFINE f == [i \in 0..0 |-> << >>]
  <2>1. \A i \in 0..0 : f[i] = IF i = 0 THEN << >> ELSE Next1(f[i-1], i)
    <3>1. \A i \in 0..0 : i = 0 /\ f[i] = << >> OBVIOUS
    <3> HIDE DEF Next1, f
    <3> QED BY <3>1
  <2>2. f = [i \in 0..0 |-> f[i]] OBVIOUS
  <2>3. Is(f, 0)
    <3> HIDE DEF Next1, f
    <3> QED BY <2>1, <2>2
  <2> QED BY <2>3
<1>2. ASSUME NEW k \in 1..Len(files), k - 1 \in Good PROVE k \in Good
  <2>1. k \in Nat /\ k # 0 /\ k - 1 \in Nat OBVIOUS
  <2>2. PICK g : Is(g, k - 1) BY <1>2
  <2> DEFINE f == [i \in 0..k |-> IF i = k THEN Next1(g[k-1], k) ELSE g[i]]
  <2>3. ASSUME NEW i \in 0..k
        PROVE  f[i] = IF i = 0 THEN << >> ELSE Next1(f[i-1], i)
    <3>1. CASE i = k
      <4>1. k \in 0..k /\ k - 1 \in 0..k /\ k - 1 # k BY <2>1
      <4>2. f[k-1] = g[k-1] /\ f[k] = Next1(g[k-1], k)
        <5> HIDE DEF Next1
        <5> QED BY <4>1
      <4> HIDE DEF Next1, f
      <4> QED BY <2>1, <3>1, <4>2
    <3>2. CASE i # k
      <4>1. i \in 0..(k-1) BY <2>1, <3>2
      <4>2. g[i] = IF i = 0 THEN << >> ELSE Next1(g[i-1], i)
        <5> HIDE DEF Next1
        <5> QED BY <2>2, <4>1
      <4>3. f[i] = g[i] BY <3>2
      <4>4. i # 0 => f[i-1] = g[i-1] BY <2>1, <4>1
      <4> HIDE DEF Next1, f
      <4> QED BY <4>2, <4>3, <4>4
    <3> QED BY <3>1, <3>2
  <2>4. f = [i \in 0..k |-> f[i]] OBVIOUS
  <2>5. Is(f, k)
    <3> HIDE DEF Next1, f
    <3> QED BY <2>3, <2>4
  <2> QED BY <2>1, <2>5
<1>3. Len(files) \in Good
  <2>1. Len(files) \in 0..Len(files) OBVIOUS
  <2> HIDE DEF Good
  <2> QED BY <1>1, <1>2, <2>1, UpTo
<1>4. \E f : Is(f, Len(files)) BY <1>3
<1>5. Joined(files) = CHOOSE f : Is(f, Len(files)) BY DEF Joined
<1>6. Is(Joined(files), Len(files))
  <2> HIDE DEF Is
  <2> QED BY <1>4, <1>5
<1>7. \A i \in 0..Len(files) : Joined(files)[i] =
          IF i = 0 THEN << >> ELSE Next1(Joined(files)[i-1], i)
  <2> HIDE DEF Next1
  <2> QED BY <1>6
<1>8. 0 \in 0..Len(files) /\ \A i \in 1..Len(files) : i \in 0..Len(files) /\ i # 0
  OBVIOUS
<1>9. Joined(files)[0] = << >> BY <1>7, <1>8
<1>10. \A i \in 1..Len(files) : Joined(files)[i] = Next1(Joined(files)[i-1], i)
  <2> HIDE DEF Next1
  <2> QED BY <1>7, <1>8
<1> QED BY <1>9, <1>10

LEMMA JoinedType ==
    ASSUME NEW files \in Seq(Seq(Line))
    PROVE  \A i \in 0..Len(files) : Joined(files)[i] \in Seq(Event)
<1> DEFINE T == {i \in 0..Len(files) : Joined(files)[i] \in Seq(Event)}
<1>0. Len(files) \in Nat OBVIOUS
<1>1. 0 \in T
  <2>1. Joined(files)[0] = << >> BY <1>0, JoinedSteps, Zenon
  <2>2. << >> \in Seq(Event) OBVIOUS
  <2>3. 0 \in 0..Len(files) BY <1>0
  <2> QED BY <2>1, <2>2, <2>3
<1>2. ASSUME NEW i \in 1..Len(files), i - 1 \in T PROVE i \in T
  <2>1. Joined(files)[i-1] \in Seq(Event) BY <1>2
  <2>2. Parsed(files[i]) \in Seq(Event)
    <3>1. files[i] \in Seq(Line) OBVIOUS
    <3> QED BY <3>1, ParsedType, Zenon
  <2>3. Joined(files)[i] = Joined(files)[i-1] \o Parsed(files[i])
    BY <1>0, JoinedSteps, Zenon
  <2>4. Joined(files)[i] \in Seq(Event) BY <2>1, <2>2, <2>3
  <2> QED BY <1>0, <2>4
<1>3. \A i \in 0..Len(files) : i \in T
  <2> HIDE DEF T
  <2> QED BY <1>0, <1>1, <1>2, UpTo
<1> QED BY <1>3

LEMMA EventsType ==
    ASSUME NEW files \in Seq(Seq(Line))
    PROVE  Events(files) \in Seq(Event)
BY JoinedType DEF Events

LEMMA EventsEmpty == Events(<< >>) = << >>
<1>1. Len(<< >>) = 0 OBVIOUS
<1>2. Joined(<< >>)[0] = << >> BY <1>1, JoinedSteps
<1> QED BY <1>1, <1>2 DEF Events

LEMMA EventsAppend ==
    ASSUME NEW files \in Seq(Seq(Line)), NEW file \in Seq(Line)
    PROVE  Events(Append(files, file)) = Events(files) \o Parsed(file)
<1> DEFINE longer == Append(files, file)
           T == {i \in 0..Len(files) : Joined(longer)[i] = Joined(files)[i]}
<1>1. longer \in Seq(Seq(Line)) /\ Len(longer) = Len(files) + 1
  /\ longer[Len(files) + 1] = file
  /\ \A i \in 1..Len(files) : longer[i] = files[i]
  OBVIOUS
<1> HIDE DEF longer
<1>0. Len(files) \in Nat /\ Len(longer) \in Nat BY <1>1
<1>2. 0 \in T
  <2>1. Joined(longer)[0] = << >> /\ Joined(files)[0] = << >>
    BY <1>0, JoinedSteps, Zenon
  <2> QED BY <1>0, <2>1
<1>3. ASSUME NEW i \in 1..Len(files), i - 1 \in T PROVE i \in T
  <2>1. i \in 1..Len(longer) /\ longer[i] = files[i] BY <1>1
  <2>2. Joined(longer)[i-1] = Joined(files)[i-1] BY <1>3
  <2>3. Joined(longer)[i] = Joined(longer)[i-1] \o Parsed(longer[i])
    BY <1>0, <2>1, JoinedSteps, Zenon
  <2>4. Joined(files)[i] = Joined(files)[i-1] \o Parsed(files[i])
    BY <1>0, JoinedSteps, Zenon
  <2>5. Joined(longer)[i] = Joined(files)[i] BY <2>1, <2>2, <2>3, <2>4
  <2> QED BY <2>5
<1>4. \A i \in 0..Len(files) : i \in T
  <2> HIDE DEF T
  <2> QED BY <1>0, <1>2, <1>3, UpTo
<1>5. Joined(longer)[Len(files)] = Joined(files)[Len(files)] BY <1>0, <1>4
<1>6. Joined(longer)[Len(files) + 1] =
        Joined(longer)[Len(files)] \o Parsed(file)
  <2> DEFINE n == Len(files) + 1
  <2>1. n \in 1..Len(longer) /\ n - 1 = Len(files) /\ longer[n] = file
    BY <1>0, <1>1
  <2> HIDE DEF n
  <2>2. Joined(longer)[n] = Joined(longer)[n-1] \o Parsed(longer[n])
    BY <1>0, <2>1, JoinedSteps, Zenon
  <2>3. Joined(longer)[n] = Joined(longer)[Len(files)] \o Parsed(file)
    BY <2>1, <2>2
  <2> QED BY <2>3 DEF n
<1>7. Events(longer) = Joined(longer)[Len(files) + 1] BY <1>1 DEF Events
<1>8. Events(files) = Joined(files)[Len(files)] BY DEF Events
<1> QED BY <1>5, <1>6, <1>7, <1>8 DEF longer

\* A sequence that is not empty is its front and its last.
LEMMA FrontAndLast ==
    ASSUME NEW S, NEW s \in Seq(S), s # << >>
    PROVE  /\ Front(s) \in Seq(S) /\ Last(s) \in S
           /\ s = Append(Front(s), Last(s))
           /\ Len(s) \in Nat \ {0} /\ Len(Front(s)) = Len(s) - 1
           /\ \A i \in 1..(Len(s) - 1) : Front(s)[i] = s[i]
<1>1. Len(s) \in Nat \ {0} OBVIOUS
<1>2. Len(s) - 1 \in Nat /\ Len(s) \in 1..Len(s) BY <1>1
<1>3. Front(s) \in Seq(S) /\ Len(Front(s)) = Len(s) - 1
  /\ \A i \in 1..(Len(s) - 1) : Front(s)[i] = s[i]
  <2> DEFINE n == Len(s) - 1
  <2>1. n \in Nat /\ n \in Int /\ 1 \in Int BY <1>1, <1>2
  <2>2. \A i \in 1..n : s[i] \in S BY <1>1
  <2> HIDE DEF n
  <2>3. /\ SubSeq(s, 1, n) \in Seq(S)
        /\ Len(SubSeq(s, 1, n)) = IF 1 <= n THEN n - 1 + 1 ELSE 0
        /\ \A i \in 1 .. n - 1 + 1 : SubSeq(s, 1, n)[i] = s[1 + i - 1]
    BY <2>1, <2>2, SubSeqProperties
  <2>4. Len(SubSeq(s, 1, n)) = n BY <2>1, <2>3
  <2>5. \A i \in 1..n : SubSeq(s, 1, n)[i] = s[i] BY <2>1, <2>3
  <2> QED BY <2>3, <2>4, <2>5 DEF Front, n
<1>4. Last(s) \in S BY <1>2 DEF Last
<1>5. s = Append(Front(s), Last(s))
  <2> DEFINE t == Append(Front(s), Last(s))
  <2>1. t \in Seq(S) /\ Len(t) = Len(s) BY <1>1, <1>3, <1>4
  <2>2. \A i \in 1..Len(s) : t[i] = s[i]
    <3>1. t[Len(s)] = s[Len(s)] BY <1>1, <1>3, <1>4 DEF Last
    <3>2. \A i \in 1..(Len(s) - 1) : t[i] = s[i] BY <1>1, <1>3, <1>4
    <3> HIDE DEF t
    <3> QED BY <1>1, <3>1, <3>2
  <2> HIDE DEF t
  <2>3. t = s BY <2>1, <2>2, SeqEqual
  <2> QED BY <2>3 DEF t
<1> QED BY <1>1, <1>3, <1>4, <1>5

LEMMA EventsSplit ==
    ASSUME NEW files \in Seq(Seq(Line)), files # << >>
    PROVE  Events(files) = Events(Front(files)) \o Parsed(Last(files))
<1>1. Front(files) \in Seq(Seq(Line)) /\ Last(files) \in Seq(Line)
  /\ files = Append(Front(files), Last(files))
  BY FrontAndLast
<1> DEFINE fs == Front(files)
           f == Last(files)
<1>2. fs \in Seq(Seq(Line)) /\ f \in Seq(Line) /\ files = Append(fs, f)
  BY <1>1
<1> HIDE DEF fs, f
<1>3. Events(files) = Events(fs) \o Parsed(f) BY <1>2, EventsAppend
<1> QED BY <1>3 DEF fs, f

LEMMA EventsOne ==
    ASSUME NEW file \in Seq(Line)
    PROVE  Events(<<file>>) = Parsed(file)
<1>1. << >> \in Seq(Seq(Line)) /\ <<file>> = Append(<< >>, file) OBVIOUS
<1>2. Events(<<file>>) = Events(<< >>) \o Parsed(file) BY <1>1, EventsAppend
<1>3. Parsed(file) \in Seq(Event) BY ParsedType
<1> QED BY <1>2, <1>3, EventsEmpty

\* Each event of one of the files is one of theirs.
LEMMA EventsHoldEach ==
    ASSUME NEW files \in Seq(Seq(Line)), NEW n \in 1..Len(files),
           NEW j \in 1..Len(Parsed(files[n]))
    PROVE  \E k \in 1..Len(Events(files)) : Events(files)[k] = Parsed(files[n])[j]
<1> DEFINE e == Parsed(files[n])[j]
           Has(s) == \E k \in 1..Len(s) : s[k] = e
           T == {i \in 0..Len(files) : i < n \/ Has(Joined(files)[i])}
<1>0. Len(files) \in Nat /\ n \in Nat OBVIOUS
<1>1. 0 \in T BY <1>0
<1>2. ASSUME NEW i \in 1..Len(files), i - 1 \in T PROVE i \in T
  <2>1. Joined(files)[i-1] \in Seq(Event)
    <3>1. i - 1 \in 0..Len(files) BY <1>0
    <3> QED BY <3>1, JoinedType
  <2>2. Parsed(files[i]) \in Seq(Event)
    <3>1. files[i] \in Seq(Line) OBVIOUS
    <3> QED BY <3>1, ParsedType, Zenon
  <2>3. Joined(files)[i] = Joined(files)[i-1] \o Parsed(files[i])
    BY <1>0, JoinedSteps, Zenon
  <2>4. CASE i < n BY <2>4, <1>0
  <2>5. CASE i = n
    <3> DEFINE s == Joined(files)[i-1]
               t == Parsed(files[i])
    <3>1. s \in Seq(Event) /\ t \in Seq(Event) BY <2>1, <2>2
    <3>2. j \in 1..Len(t) /\ t[j] = e BY <2>5
    <3> HIDE DEF s, t, e
    <3>3. Len(s) + j \in 1..Len(s \o t) /\ (s \o t)[Len(s) + j] = e
      BY <3>1, <3>2
    <3>4. Has(s \o t) BY <3>3
    <3>5. Has(Joined(files)[i]) BY <3>4, <2>3 DEF s, t
    <3> QED BY <3>5, <1>0
  <2>6. CASE n < i
    <3> DEFINE s == Joined(files)[i-1]
               t == Parsed(files[i])
    <3>1. s \in Seq(Event) /\ t \in Seq(Event) BY <2>1, <2>2
    <3>2. Has(s) BY <1>2, <2>6, <1>0
    <3> HIDE DEF s, t, e
    <3>3. PICK k \in 1..Len(s) : s[k] = e BY <3>2
    <3>4. k \in 1..Len(s \o t) /\ (s \o t)[k] = e BY <3>1, <3>3
    <3>5. Has(s \o t) BY <3>4
    <3>6. Has(Joined(files)[i]) BY <3>5, <2>3 DEF s, t
    <3> QED BY <3>6, <1>0
  <2> QED BY <2>4, <2>5, <2>6, <1>0
<1>3. \A i \in 0..Len(files) : i \in T
  <2> HIDE DEF T
  <2> QED BY <1>0, <1>1, <1>2, UpTo
<1>4. Has(Joined(files)[Len(files)]) BY <1>0, <1>3
<1> QED BY <1>4 DEF Events

-----------------------------------------------------------------------------
\* The inductive invariant

\* The fault that hides the log (README, disagreements) is excluded.
NoMoveFault == "move" \notin MayFail

WriterLabels == {"idle", "locked", "move", "create", "write", "extend"}
ReaderLabels == {"idle", "probe", "tail", "match", "wait", "read", "scan",
                 "recheck", "after", "store", "return"}

\* The types of all variables.
Types ==
    /\ single \in Seq(Line) /\ dir \in BOOLEAN /\ segs \in Seq(Seq(Line))
    /\ lock \in Writers \union {None}
    /\ cache \in [Procs -> [hot : BOOLEAN, last : Nat, events : Seq(Line)]]
    /\ building \in [Procs -> Readers \union {None}]
    /\ pc \in [Threads -> WriterLabels \union ReaderLabels]
    /\ \A w \in Writers : pc[w] \in WriterLabels
    /\ \A r \in Readers : pc[r] \in ReaderLabels
    /\ kind \in [Writers -> Kinds \union {"none"}]
    /\ event \in [Writers -> Line \union {NoEvent}]
    /\ \A w \in Writers : pc[w] = "extend" => event[w] \in Event
    /\ multi \in [Readers -> BOOLEAN] /\ seen \in [Readers -> Nat]
    /\ got \in [Readers -> Seq(Line)]
    /\ began \in [Readers -> [events : Nat, moved : BOOLEAN]]
    /\ acked \subseteq Event /\ accepted \subseteq acked
    /\ ids \in 0..MaxEvents /\ torn \in Nat /\ crashes \in Nat

\* The flock is held by the one writer that is inside an operation.
Inside(w) == pc[w] \in {"locked", "move", "create", "write"}
FlockHeld == \A w \in Writers : Inside(w) <=> lock = w

\* The first rotation is between the directory and the move.
Moving == lock # None /\ pc[lock] = "move"

\* The files of either form, and in between.
Layout ==
    /\ (~dir \/ Moving) => segs = << >>
    /\ Moving => dir /\ Full(single)
    /\ dir /\ ~Moving => single = << >> /\ segs # << >>
    /\ \A w \in Writers : pc[w] = "create" => dir /\ Full(Last(segs))
    /\ \A i \in 1..(Len(segs) - 1) : Parsed(segs[i]) # << >>

\* Every event on disk was written by an attempt of its own.
Numbered ==
    /\ SeqIsPosition
    /\ Len(OnDisk) <= ids
    /\ \A i \in DOMAIN OnDisk : OnDisk[i].id <= ids
    /\ \A w \in Writers : Inside(w) /\ kind[w] # "check" => ids < MaxEvents
    /\ \A w \in Writers : pc[w] = "write" => kind[w] # "check"

\* Without a torn line, no file has a broken one.
Intact ==
    torn = 0 =>
        /\ \A i \in DOMAIN single : single[i].state = "whole"
        /\ \A i \in DOMAIN segs : \A j \in DOMAIN segs[i] :
              segs[i][j].state = "whole"

\* What an append has returned is on disk, also when it was torn after.
Returned ==
    torn = 0 =>
        /\ acked \subseteq ToSet(OnDisk)
        /\ \A w \in Writers : pc[w] = "extend" =>
              event[w].seq \in DOMAIN OnDisk /\ OnDisk[event[w].seq] = event[w]

Begins(s, t) == Len(s) <= Len(t) /\ \A i \in 1..Len(s) : s[i] = t[i]

\* A cache that is in use holds a beginning of the log.
CacheIsPrefix ==
    torn = 0 => \A p \in Procs : cache[p].hot =>
        cache[p].last = Len(cache[p].events) /\ Begins(cache[p].events, OnDisk)

\* A reader may have met the first rotation.
Met(r) == dir /\ ~began[r].moved

\* What a reader has looked at so far.
ReaderTrue(r) ==
    /\ began[r].events <= Len(OnDisk)
    /\ began[r].moved => dir /\ single = << >>
    /\ multi[r] => dir
    /\ pc[r] \in {"tail", "scan", "after"} /\ began[r].moved => multi[r]
    /\ pc[r] = "match" =>
          \/ seen[r] >= began[r].events
          \/ seen[r] = 0 /\ Met(r)
    /\ pc[r] \in {"recheck", "after", "store", "return"} /\ torn = 0 =>
          /\ Begins(got[r], OnDisk)
          /\ \/ Len(got[r]) >= began[r].events
             \/ got[r] = << >> /\ Met(r)

ReadersTrue == \A r \in Readers : ReaderTrue(r)

IInv ==
    /\ Types /\ FlockHeld /\ Layout /\ Numbered /\ Intact /\ Returned
    /\ CacheIsPrefix /\ ReadersTrue

-----------------------------------------------------------------------------
\* The disk

DiskTyped == single \in Seq(Line) /\ dir \in BOOLEAN /\ segs \in Seq(Seq(Line))

LEMMA OnDiskType ==
    ASSUME DiskTyped
    PROVE  OnDisk \in Seq(Event)
<1>1. Parsed(single) \in Seq(Event) BY ParsedType DEF DiskTyped
<1>2. Events(segs) \in Seq(Event) BY EventsType DEF DiskTyped
<1> QED BY <1>1, <1>2 DEF OnDisk

\* One of the two forms holds the log.
LEMMA OneForm ==
    ASSUME DiskTyped, Layout
    PROVE  /\ ~dir \/ Moving => OnDisk = Parsed(single) /\ Events(segs) = << >>
           /\ dir /\ ~Moving => OnDisk = Events(segs) /\ Parsed(single) = << >>
<1>1. Parsed(single) \in Seq(Event) /\ Events(segs) \in Seq(Event)
  BY ParsedType, EventsType DEF DiskTyped
<1>2. ASSUME ~dir \/ Moving
      PROVE  OnDisk = Parsed(single) /\ Events(segs) = << >>
  <2>1. Events(segs) = << >> BY <1>2, EventsEmpty DEF Layout
  <2> QED BY <1>1, <2>1 DEF OnDisk
<1>3. ASSUME dir, ~Moving
      PROVE  OnDisk = Events(segs) /\ Parsed(single) = << >>
  <2>1. Parsed(single) = << >> BY <1>3, ParsedEmpty DEF Layout
  <2> QED BY <1>1, <2>1 DEF OnDisk
<1> QED BY <1>2, <1>3

\* Without a move on its way the path helpers see all of the log.
LEMMA AllVisible ==
    ASSUME DiskTyped, Layout, ~Moving
    PROVE  Visible = OnDisk
BY OneForm DEF DiskTyped, Visible, ReadAs

\* What a write adds to the events of a file.
LEMMA PutParsed ==
    ASSUME NEW file \in Seq(Line), NEW l \in Line
    PROVE  /\ Put(file, l) \in Seq(Line)
           /\ Parsed(Put(file, l)) =
                IF l.state = "whole" /\ ~EndsTorn(file)
                THEN Append(Parsed(file), l) ELSE Parsed(file)
<1>1. CASE ~EndsTorn(file)
  <2>1. Put(file, l) = Append(file, l) BY <1>1 DEF Put
  <2> QED BY <1>1, <2>1, ParsedAppend
<1>2. CASE EndsTorn(file)
  <2> DEFINE f == Front(file)
             b == Broken(IF l.state = "torn" THEN "torn" ELSE "bad")
  <2>1. file # << >> /\ Last(file).state = "torn" BY <1>2 DEF EndsTorn
  <2>2. f \in Seq(Line) /\ Last(file) \in Line /\ file = Append(f, Last(file))
    BY <2>1, FrontAndLast
  <2>3. b \in Line /\ b.state # "whole" BY DEF Broken, Line
  <2>4. Put(file, l) = Append(f, b) BY <1>2 DEF Put
  <2> HIDE DEF f, b
  <2>5. Parsed(Append(f, b)) = Parsed(f) BY <2>2, <2>3, ParsedAppend
  <2>6. Parsed(file) = Parsed(f) BY <2>1, <2>2, ParsedAppend
  <2> QED BY <1>2, <2>2, <2>3, <2>4, <2>5, <2>6
<1> QED BY <1>1, <1>2

\* The files after a write, and what it adds to the log.
LEMMA WriteAdds ==
    ASSUME DiskTyped, Layout, ~Moving, NEW l \in Line, WriteActive(l)
    PROVE  /\ single' \in Seq(Line) /\ segs' \in Seq(Seq(Line))
           /\ ~dir => segs' = segs /\ single' = Put(single, l)
           /\ dir => /\ single' = single /\ segs # << >>
                     /\ segs' = Append(Front(segs), Put(Last(segs), l))
           /\ OnDisk' = IF l.state = "whole" /\ ~EndsTorn(Active)
                        THEN Append(OnDisk, l) ELSE OnDisk
<1>1. CASE ~dir
  <2>1. single' = Put(single, l) /\ segs' = segs /\ Active = single
    BY <1>1 DEF WriteActive, Active
  <2>2. segs = << >> /\ Events(segs) = << >> /\ OnDisk = Parsed(single)
    BY <1>1, OneForm DEF Layout
  <2> DEFINE p == Put(single, l)
  <2>3. p \in Seq(Line) /\ Parsed(p) \in Seq(Event) /\
        Parsed(p) = IF l.state = "whole" /\ ~EndsTorn(single)
                    THEN Append(Parsed(single), l) ELSE Parsed(single)
    BY PutParsed, ParsedType DEF DiskTyped
  <2> HIDE DEF p
  <2>4. OnDisk' = Parsed(p) \o Events(segs)
    BY <2>1 DEF OnDisk, p
  <2>5. OnDisk' = Parsed(p) BY <2>2, <2>3, <2>4
  <2> QED BY <1>1, <2>1, <2>2, <2>3, <2>5 DEF p, DiskTyped
<1>2. CASE dir
  <2>1. segs # << >> /\ single = << >> /\ Parsed(single) = << >>
        /\ OnDisk = Events(segs)
    BY <1>2, OneForm DEF Layout
  <2>2. segs' = Append(Front(segs), Put(Last(segs), l)) /\ single' = single
        /\ Active = Last(segs)
    BY <1>2, <2>1 DEF WriteActive, Active
  <2> DEFINE fs == Front(segs)
             f == Last(segs)
             p == Put(f, l)
  <2>3. fs \in Seq(Seq(Line)) /\ f \in Seq(Line)
    BY <2>1, FrontAndLast DEF DiskTyped
  <2>4. Events(segs) = Events(fs) \o Parsed(f)
    BY <2>1, EventsSplit DEF DiskTyped
  <2> HIDE DEF f, fs
  <2>5. p \in Seq(Line) /\
        Parsed(p) = IF l.state = "whole" /\ ~EndsTorn(f)
                    THEN Append(Parsed(f), l) ELSE Parsed(f)
    BY <2>3, PutParsed
  <2> HIDE DEF p
  <2>6. Events(Append(fs, p)) = Events(fs) \o Parsed(p)
    BY <2>3, <2>5, EventsAppend
  <2>7. Events(fs) \in Seq(Event) /\ Parsed(f) \in Seq(Event)
        /\ Parsed(p) \in Seq(Event)
    BY <2>3, <2>5, EventsType, ParsedType
  <2>8. OnDisk' = Parsed(single) \o Events(Append(fs, p))
    BY <2>2 DEF OnDisk, fs, f, p
  <2>9. OnDisk' = Events(fs) \o Parsed(p) BY <2>1, <2>6, <2>7, <2>8
  <2>10. CASE l.state = "whole" /\ ~EndsTorn(f)
    <3>1. Parsed(p) = Append(Parsed(f), l) BY <2>10, <2>5
    <3>2. l \in Event BY <2>10, WholeIsEvent
    <3>3. Events(fs) \o Append(Parsed(f), l) = Append(Events(fs) \o Parsed(f), l)
      BY <2>7, <3>2
    <3>4. OnDisk' = Append(OnDisk, l) BY <2>1, <2>4, <2>9, <3>1, <3>3
    <3>5. l.state = "whole" /\ ~EndsTorn(Active) BY <2>2, <2>10 DEF f
    <3>6. segs' \in Seq(Seq(Line)) /\ single' \in Seq(Line)
      BY <2>2, <2>3, <2>5 DEF fs, f, p, DiskTyped
    <3> QED BY <1>2, <2>1, <2>2, <3>4, <3>5, <3>6
  <2>11. CASE ~ (l.state = "whole" /\ ~EndsTorn(f))
    <3>1. Parsed(p) = Parsed(f) BY <2>11, <2>5
    <3>2. OnDisk' = OnDisk BY <2>1, <2>4, <2>9, <3>1
    <3>3. ~ (l.state = "whole" /\ ~EndsTorn(Active)) BY <2>2, <2>11 DEF f
    <3>4. segs' \in Seq(Seq(Line)) /\ single' \in Seq(Line)
      BY <2>2, <2>3, <2>5 DEF fs, f, p, DiskTyped
    <3> QED BY <1>2, <2>1, <2>2, <3>2, <3>3, <3>4
  <2> QED BY <2>10, <2>11
<1> QED BY <1>1, <1>2 DEF DiskTyped

LEMMA OneOrMore == \A n \in Nat \ {0} : n = 1 \/ n >= 2
OBVIOUS

LEMMA EmptyOrNot == \A s : Len(s) = 1 => s # << >>
OBVIOUS

\* Where seq is the position, a file that has the end of the log ends in its
\* length.
LEMMA TailIsLength ==
    ASSUME NEW file, Parsed(file) \in Seq(Event), NEW s \in Seq(Event),
           NEW n \in Nat,
           \A i \in 1..Len(s \o Parsed(file)) : (s \o Parsed(file))[i].seq = i,
           Parsed(file) # << >>
    PROVE  TailSeq(file) = Len(s \o Parsed(file))
<1> DEFINE t == Parsed(file)
<1>1. t \in Seq(Event) /\ t # << >> /\ Len(t) \in Nat \ {0} OBVIOUS
<1> HIDE DEF t
<1>2. Len(s \o t) = Len(s) + Len(t) /\ Len(s \o t) \in 1..Len(s \o t)
  /\ (s \o t)[Len(s) + Len(t)] = t[Len(t)]
  BY <1>1
<1>3. t[Len(t)].seq = Len(s \o t)
  <2>1. (s \o t)[Len(s \o t)].seq = Len(s \o t) BY <1>2 DEF t
  <2> QED BY <2>1, <1>2
<1> QED BY <1>1, <1>3 DEF TailSeq, Last, t

\* The tails of the segments: none is beyond the end of the log, and one of
\* the last two is the end, or there is no event.
LEMMA SegmentTails ==
    ASSUME NEW files \in Seq(Seq(Line)),
           \A i \in 1..Len(Events(files)) : Events(files)[i].seq = i,
           \A i \in 1..(Len(files) - 1) : Parsed(files[i]) # << >>
    PROVE  /\ \A i \in 1..Len(files) : TailSeq(files[i]) \in 0..Len(Events(files))
           /\ Len(files) = 0 => Events(files) = << >>
           /\ Len(files) = 1 => TailSeq(files[1]) = Len(Events(files))
           /\ Len(files) >= 2 =>
                \/ TailSeq(files[Len(files)]) = Len(Events(files))
                \/ TailSeq(files[Len(files) - 1]) = Len(Events(files))
<1>0. Len(files) \in Nat /\ Events(files) \in Seq(Event)
  BY EventsType
<1>1. ASSUME NEW i \in 1..Len(files)
      PROVE  TailSeq(files[i]) \in 0..Len(Events(files))
  <2>1. files[i] \in Seq(Line) OBVIOUS
  <2>2. Parsed(files[i]) \in Seq(Event) BY <2>1, ParsedType
  <2>3. CASE Parsed(files[i]) = << >> BY <2>3, <1>0 DEF TailSeq
  <2>4. CASE Parsed(files[i]) # << >>
    <3> DEFINE n == Len(Parsed(files[i]))
    <3>1. n \in 1..n BY <2>2, <2>4
    <3>2. PICK k \in 1..Len(Events(files)) :
             Events(files)[k] = Parsed(files[i])[n]
      BY <3>1, EventsHoldEach
    <3>3. TailSeq(files[i]) = Parsed(files[i])[n].seq
      BY <2>4 DEF TailSeq, Last
    <3>4. TailSeq(files[i]) = k BY <3>2, <3>3
    <3> QED BY <3>4, <1>0
  <2> QED BY <2>3, <2>4
<1>2. ASSUME Len(files) = 0 PROVE Events(files) = << >>
  <2>1. files = << >> BY <1>2
  <2> QED BY <2>1, EventsEmpty
<1>3. ASSUME files # << >>, Parsed(Last(files)) # << >>
      PROVE  TailSeq(Last(files)) = Len(Events(files))
  <2>1. Events(files) = Events(Front(files)) \o Parsed(Last(files))
    BY <1>3, EventsSplit
  <2>2. Front(files) \in Seq(Seq(Line)) /\ Last(files) \in Seq(Line)
    BY <1>3, FrontAndLast
  <2>3. Events(Front(files)) \in Seq(Event) /\ Parsed(Last(files)) \in Seq(Event)
    BY <2>2, EventsType, ParsedType
  <2>4. \A i \in 1..Len(Events(Front(files)) \o Parsed(Last(files))) :
           (Events(Front(files)) \o Parsed(Last(files)))[i].seq = i
    BY <2>1
  <2>5. TailSeq(Last(files)) = Len(Events(Front(files)) \o Parsed(Last(files)))
    BY <1>3, <2>3, <2>4, TailIsLength
  <2> QED BY <2>1, <2>5
<1>4. ASSUME Len(files) >= 2, Parsed(Last(files)) = << >>
      PROVE  TailSeq(files[Len(files) - 1]) = Len(Events(files))
  <2> DEFINE fs == Front(files)
  <2>1. files # << >> BY <1>4
  <2>2. fs \in Seq(Seq(Line)) /\ Len(fs) = Len(files) - 1
        /\ \A i \in 1..(Len(files) - 1) : fs[i] = files[i]
    BY <2>1, FrontAndLast
  <2>3. Events(files) = Events(fs) \o Parsed(Last(files))
    BY <2>1, EventsSplit
  <2> HIDE DEF fs
  <2>4. Events(fs) \in Seq(Event) BY <2>2, EventsType
  <2>5. Events(files) = Events(fs) BY <2>3, <2>4, <1>4
  <2>6. fs # << >> /\ Len(fs) \in 1..(Len(files) - 1) BY <2>2, <1>4, <1>0
  <2>7. Last(fs) \in Seq(Line) /\ Front(fs) \in Seq(Seq(Line))
    BY <2>2, <2>6, FrontAndLast
  <2>8. Last(fs) = files[Len(files) - 1] BY <2>2, <2>6 DEF Last
  <2>9. Parsed(Last(fs)) # << >> BY <2>8, <2>6, <2>2
  <2>10. Events(fs) = Events(Front(fs)) \o Parsed(Last(fs))
    BY <2>2, <2>6, EventsSplit
  <2>11. Events(Front(fs)) \in Seq(Event) /\ Parsed(Last(fs)) \in Seq(Event)
    BY <2>7, EventsType, ParsedType
  <2>12. \A i \in 1..Len(Events(Front(fs)) \o Parsed(Last(fs))) :
            (Events(Front(fs)) \o Parsed(Last(fs)))[i].seq = i
    BY <2>5, <2>10
  <2>13. TailSeq(Last(fs)) = Len(Events(Front(fs)) \o Parsed(Last(fs)))
    BY <2>9, <2>11, <2>12, TailIsLength
  <2> QED BY <2>5, <2>8, <2>10, <2>13
<1>5. ASSUME Len(files) = 1 PROVE TailSeq(files[1]) = Len(Events(files))
  <2>1. files # << >> /\ Last(files) = files[1]
    <3>1. files # << >> BY <1>5, EmptyOrNot
    <3> QED BY <3>1, <1>5 DEF Last
  <2>2. CASE Parsed(Last(files)) # << >> BY <2>1, <2>2, <1>3
  <2>3. CASE Parsed(Last(files)) = << >>
    <3>1. files = <<files[1]>> /\ files[1] \in Seq(Line)
      <4>1. files[1] \in Seq(Line) BY <1>5
      <4>2. <<files[1]>> \in Seq(Seq(Line)) /\ Len(<<files[1]>>) = 1
            /\ <<files[1]>>[1] = files[1]
        BY <4>1
      <4> QED BY <4>1, <4>2, <1>5, SeqEqual
    <3> DEFINE f == files[1]
    <3>2. files = <<f>> /\ f \in Seq(Line) BY <3>1
    <3> HIDE DEF f
    <3>3. Events(files) = Parsed(f) BY <3>2, EventsOne
    <3>4. Events(files) = << >> /\ TailSeq(f) = 0
      BY <2>1, <2>3, <3>3 DEF TailSeq, f
    <3> QED BY <3>4 DEF f
  <2> QED BY <2>2, <2>3
<1>6. ASSUME Len(files) >= 2
      PROVE  \/ TailSeq(files[Len(files)]) = Len(Events(files))
             \/ TailSeq(files[Len(files) - 1]) = Len(Events(files))
  <2>1. files # << >> /\ Last(files) = files[Len(files)] BY <1>6 DEF Last
  <2> QED BY <2>1, <1>3, <1>4, <1>6
<1> QED BY <1>1, <1>2, <1>5, <1>6

\* A file alone, likewise.
LEMMA SingleTail ==
    ASSUME NEW file \in Seq(Line),
           \A i \in 1..Len(Parsed(file)) : Parsed(file)[i].seq = i
    PROVE  TailSeq(file) = Len(Parsed(file))
<1>1. Parsed(file) \in Seq(Event) BY ParsedType
<1>2. CASE Parsed(file) = << >> BY <1>2 DEF TailSeq
<1>3. CASE Parsed(file) # << >>
  <2>1. Len(Parsed(file)) \in 1..Len(Parsed(file)) BY <1>1, <1>3
  <2> QED BY <1>3, <2>1 DEF TailSeq, Last
<1> QED BY <1>2, <1>3

\* SeqIsPosition in the terms of the lemmas.
LEMMA Positions ==
    ASSUME DiskTyped
    PROVE  SeqIsPosition <=> \A i \in 1..Len(OnDisk) : OnDisk[i].seq = i
<1>1. OnDisk \in Seq(Event) BY OnDiskType
<1>2. DOMAIN OnDisk = 1..Len(OnDisk) BY <1>1
<1> QED BY <1>2 DEF SeqIsPosition

\* The next seq is the next position.
LEMMA NextSeqIsNext ==
    ASSUME DiskTyped, Layout, SeqIsPosition, ~Moving
    PROVE  NextSeq = Len(OnDisk) + 1
<1>0. OnDisk \in Seq(Event) /\ Len(OnDisk) \in Nat BY OnDiskType
<1>1. CASE ~dir
  <2>1. segs = << >> /\ OnDisk = Parsed(single) /\ Active = single /\ Len(segs) = 0
    BY <1>1, OneForm DEF Layout, Active
  <2>2. TailSeq(single) = Len(OnDisk)
    BY <2>1, SingleTail, Positions DEF DiskTyped
  <2> QED BY <2>1, <2>2, <1>0 DEF NextSeq, Larger
<1>2. CASE dir
  <2>1. segs # << >> /\ OnDisk = Events(segs) BY <1>2, OneForm DEF Layout
  <2>2. Active = segs[Len(segs)] /\ Len(segs) \in Nat \ {0}
    BY <1>2, <2>1 DEF Active, Last, DiskTyped
  <2>3. \A i \in 1..(Len(segs) - 1) : Parsed(segs[i]) # << >> BY DEF Layout
  <2>a. segs \in Seq(Seq(Line)) /\ \A i \in 1..Len(Events(segs)) : Events(segs)[i].seq = i
    BY <2>1, Positions DEF DiskTyped
  <2>4. /\ \A i \in 1..Len(segs) : TailSeq(segs[i]) \in 0..Len(OnDisk)
        /\ Len(segs) = 1 => TailSeq(segs[1]) = Len(OnDisk)
        /\ Len(segs) >= 2 => \/ TailSeq(segs[Len(segs)]) = Len(OnDisk)
                             \/ TailSeq(segs[Len(segs) - 1]) = Len(OnDisk)
    BY <2>1, <2>3, <2>a, SegmentTails
  <2>5. CASE Len(segs) = 1
    <3>1. TailSeq(Active) = Len(OnDisk) BY <2>2, <2>4, <2>5
    <3> QED BY <3>1, <2>5, <1>0 DEF NextSeq, Larger
  <2>6. CASE Len(segs) >= 2
    <3>1. Len(segs) \in 1..Len(segs) /\ Len(segs) - 1 \in 1..Len(segs)
      BY <2>2, <2>6
    <3> DEFINE a == TailSeq(segs[Len(segs)])
               b == TailSeq(segs[Len(segs) - 1])
    <3>2. a \in 0..Len(OnDisk) /\ b \in 0..Len(OnDisk)
          /\ (a = Len(OnDisk) \/ b = Len(OnDisk))
      BY <3>1, <2>4, <2>6
    <3>3. NextSeq = 1 + Larger(a, b) BY <2>2, <2>6 DEF NextSeq
    <3> HIDE DEF a, b
    <3> QED BY <3>2, <3>3, <1>0 DEF Larger
  <2>7. Len(segs) = 1 \/ Len(segs) >= 2 BY <2>2, OneOrMore
  <2> QED BY <2>5, <2>6, <2>7
<1> QED BY <1>1, <1>2 DEF DiskTyped

\* What a look at either form tells: the log, or nothing.
LEMMA LastSeqTells ==
    ASSUME DiskTyped, Layout, SeqIsPosition
    PROVE  /\ LastSeqAs(TRUE) = IF dir /\ ~Moving THEN Len(OnDisk) ELSE 0
           /\ LastSeqAs(FALSE) = IF dir /\ ~Moving THEN 0 ELSE Len(OnDisk)
<1>0. OnDisk \in Seq(Event) /\ Len(OnDisk) \in Nat BY OnDiskType
<1> DEFINE tails == {0} \union {TailSeq(segs[i]) : i \in DOMAIN segs}
<1>1. LastSeqAs(TRUE) = CHOOSE n \in tails : \A k \in tails : k <= n
  BY DEF LastSeqAs
<1>2. LastSeqAs(FALSE) = TailSeq(single) BY DEF LastSeqAs
<1>3. ASSUME NEW n \in tails, n \in Nat, \A k \in tails : k \in 0..n
      PROVE  LastSeqAs(TRUE) = n
  <2> HIDE DEF tails
  <2>1. \A k \in tails : k <= n BY <1>3
  <2>2. \A m \in tails : (\A k \in tails : k <= m) => m = n BY <1>3
  <2> QED BY <1>1, <1>3, <2>1, <2>2
<1>4. CASE ~dir \/ Moving
  <2>1. segs = << >> /\ OnDisk = Parsed(single) BY <1>4, OneForm DEF Layout
  <2>2. tails = {0} BY <2>1
  <2>3. LastSeqAs(TRUE) = 0
    <3>1. 0 \in tails /\ \A k \in tails : k \in 0..0 BY <2>2
    <3> HIDE DEF tails
    <3> QED BY <3>1, <1>3
  <2>4. TailSeq(single) = Len(OnDisk)
    BY <2>1, SingleTail, Positions DEF DiskTyped
  <2> QED BY <1>2, <1>4, <2>3, <2>4 DEF DiskTyped
<1>5. CASE dir /\ ~Moving
  <2>1. segs # << >> /\ OnDisk = Events(segs) /\ Parsed(single) = << >>
    BY <1>5, OneForm DEF Layout
  <2>2. segs \in Seq(Seq(Line)) /\ Len(segs) \in Nat \ {0}
        /\ DOMAIN segs = 1..Len(segs)
    BY <2>1 DEF DiskTyped
  <2>3. \A i \in 1..(Len(segs) - 1) : Parsed(segs[i]) # << >> BY DEF Layout
  <2>4. \A i \in 1..Len(Events(segs)) : Events(segs)[i].seq = i
    BY <2>1, Positions
  <2>5. /\ \A i \in 1..Len(segs) : TailSeq(segs[i]) \in 0..Len(OnDisk)
        /\ Len(segs) = 1 => TailSeq(segs[1]) = Len(OnDisk)
        /\ Len(segs) >= 2 => \/ TailSeq(segs[Len(segs)]) = Len(OnDisk)
                             \/ TailSeq(segs[Len(segs) - 1]) = Len(OnDisk)
    BY <2>1, <2>2, <2>3, <2>4, SegmentTails
  <2>6. \E i \in 1..Len(segs) : TailSeq(segs[i]) = Len(OnDisk)
    <3>1. Len(segs) = 1 \/ Len(segs) >= 2 BY <2>2, OneOrMore
    <3>2. Len(segs) \in 1..Len(segs)
          /\ (Len(segs) >= 2 => Len(segs) - 1 \in 1..Len(segs))
          /\ 1 \in 1..Len(segs)
      BY <2>2
    <3> QED BY <3>1, <3>2, <2>5
  <2>7. Len(OnDisk) \in tails /\ \A k \in tails : k \in 0..Len(OnDisk)
    <3>1. Len(OnDisk) \in tails BY <2>2, <2>6
    <3>2. 0 \in 0..Len(OnDisk) BY <1>0
    <3>3. \A i \in DOMAIN segs : TailSeq(segs[i]) \in 0..Len(OnDisk)
      BY <2>2, <2>5
    <3> QED BY <3>1, <3>2, <3>3
  <2>8. LastSeqAs(TRUE) = Len(OnDisk)
    <3> HIDE DEF tails
    <3> QED BY <2>7, <1>0, <1>3
  <2>9. TailSeq(single) = 0 BY <2>1 DEF TailSeq
  <2> QED BY <1>2, <1>5, <2>8, <2>9
<1> QED BY <1>4, <1>5 DEF DiskTyped

LEMMA ReadTells ==
    ASSUME DiskTyped, Layout
    PROVE  /\ ReadAs(TRUE) = IF dir /\ ~Moving THEN OnDisk ELSE << >>
           /\ ReadAs(FALSE) = IF dir /\ ~Moving THEN << >> ELSE OnDisk
BY OneForm DEF DiskTyped, ReadAs

LEMMA BeginsIsPrefix ==
    ASSUME NEW S, NEW s \in Seq(S), NEW t \in Seq(S), Begins(s, t)
    PROVE  IsPrefix(s, t)
<1>1. Len(s) \in Nat /\ Len(t) \in Nat /\ Len(s) <= Len(t)
  /\ \A i \in 1..Len(s) : s[i] = t[i] /\ s[i] \in S
  BY DEF Begins
<1> DEFINE u == SubSeq(s, 1, Len(s))
           v == SubSeq(t, 1, Len(s))
<1>2. u \in Seq(S) /\ Len(u) = Len(s) /\ \A i \in 1..Len(s) : u[i] = s[i]
  BY <1>1, SubSeqProperties
<1>3. v \in Seq(S) /\ Len(v) = Len(s) /\ \A i \in 1..Len(s) : v[i] = t[i]
  BY <1>1, SubSeqProperties
<1> HIDE DEF u, v
<1>4. u = v BY <1>1, <1>2, <1>3, SeqEqual
<1> QED BY <1>1, <1>4 DEF IsPrefix, u, v

\* A readback that skips no line does not follow a torn one.
LEMMA ReadBackWhole ==
    ASSUME DiskTyped, Layout, ~Moving, ReadBack
    PROVE  ~EndsTorn(Active)
<1>1. ASSUME NEW f \in Seq(Line), Parsed(f) = f, f # << >>
      PROVE  Last(f).state # "torn"
  <2>1. f \in Seq(Event) BY <1>1, ParsedType
  <2>2. Last(f) \in Event BY <2>1, <1>1, FrontAndLast
  <2> QED BY <2>2 DEF Event, Whole
<1>2. CASE ~dir
  <2>1. Active = single /\ Parsed(single) = single
    BY <1>2 DEF Active, ReadBack
  <2> QED BY <2>1, <1>1 DEF DiskTyped, EndsTorn
<1>3. CASE dir
  <2>1. segs # << >> /\ Active = Last(segs) BY <1>3 DEF Active, Layout
  <2>2. Last(segs) \in Seq(Line) /\ Len(segs) \in DOMAIN segs
    BY <2>1, FrontAndLast DEF DiskTyped
  <2>3. Parsed(Last(segs)) = Last(segs) BY <1>3, <2>2 DEF ReadBack, Last
  <2> DEFINE f == Last(segs)
  <2>4. f \in Seq(Line) /\ Parsed(f) = f BY <2>2, <2>3
  <2> HIDE DEF f
  <2>5. f # << >> => Last(f).state # "torn" BY <2>4, <1>1
  <2> QED BY <2>1, <2>5 DEF EndsTorn, f
<1> QED BY <1>2, <1>3 DEF DiskTyped

-----------------------------------------------------------------------------
\* The initial state

LEMMA InitIInv == Init => IInv
<1> SUFFICES ASSUME Init PROVE IInv OBVIOUS
<1> USE DEF Init
<1>1. Types
  <2>1. \A w \in Writers : w \in Threads /\ pc[w] = "idle" BY DEF Threads
  <2>2. \A r \in Readers : r \in Threads /\ pc[r] = "idle" BY DEF Threads
  <2>3. << >> \in Seq(Line) /\ << >> \in Seq(Seq(Line)) OBVIOUS
  <2>4. pc \in [Threads -> WriterLabels \union ReaderLabels]
        /\ (\A w \in Writers : pc[w] \in WriterLabels)
        /\ (\A r \in Readers : pc[r] \in ReaderLabels)
    BY <2>1, <2>2 DEF WriterLabels, ReaderLabels
  <2>5. cache \in [Procs -> [hot : BOOLEAN, last : Nat, events : Seq(Line)]]
        /\ building \in [Procs -> Readers \union {None}]
    BY <2>3 DEF NoCache
  <2>6. kind \in [Writers -> Kinds \union {"none"}]
        /\ event \in [Writers -> Line \union {NoEvent}]
        /\ \A w \in Writers : pc[w] = "extend" => event[w] \in Event
    BY <2>1
  <2>7. multi \in [Readers -> BOOLEAN] /\ seen \in [Readers -> Nat]
        /\ got \in [Readers -> Seq(Line)]
        /\ began \in [Readers -> [events : Nat, moved : BOOLEAN]]
    BY <2>3 DEF NoCall
  <2>8. ids \in 0..MaxEvents /\ torn \in Nat /\ crashes \in Nat
        /\ acked \subseteq Event /\ accepted \subseteq acked
    BY BoundAssumption
  <2>9. single \in Seq(Line) /\ dir \in BOOLEAN /\ segs \in Seq(Seq(Line))
        /\ lock \in Writers \union {None}
    BY <2>3
  <2> QED BY <2>4, <2>5, <2>6, <2>7, <2>8, <2>9 DEF Types
<1>2. OnDisk = << >>
  <2>1. << >> \in Seq(Event) OBVIOUS
  <2>2. Parsed(single) = << >> /\ Events(segs) = << >>
    BY ParsedEmpty, EventsEmpty
  <2> QED BY <2>2 DEF OnDisk
<1>3. \A w \in Writers : pc[w] = "idle" /\ w # None
  BY ThreadAssumption DEF Threads
<1>4. \A r \in Readers : pc[r] = "idle" BY DEF Threads
<1>5. FlockHeld BY <1>3 DEF FlockHeld, Inside
<1>6. Layout BY <1>3 DEF Layout, Moving
<1>7. Numbered
  <2>1. SeqIsPosition BY <1>2 DEF SeqIsPosition
  <2>2. Len(OnDisk) = 0 /\ DOMAIN OnDisk = {} BY <1>2
  <2> QED BY <1>3, <2>1, <2>2 DEF Numbered, Inside
<1>8. Intact BY DEF Intact
<1>9. Returned BY <1>3 DEF Returned
<1>10. CacheIsPrefix BY DEF CacheIsPrefix, NoCache
<1>11. ReadersTrue BY <1>2, <1>4 DEF ReadersTrue, ReaderTrue, NoCall
<1> QED BY <1>1, <1>5, <1>6, <1>7, <1>8, <1>9, <1>10, <1>11 DEF IInv

-----------------------------------------------------------------------------
\* The readers

LEMMA Apart ==
    /\ None \notin Writers /\ None \notin Readers
    /\ Writers \cap Readers = {}
    /\ Writers \subseteq Threads /\ Readers \subseteq Threads
    /\ \A t \in Threads : HostOf[t] \in Procs
BY ThreadAssumption DEF Threads, Procs

\* A step of a reader leaves all to do with the writers and the disk alone.
LEMMA ReaderFrame ==
    ASSUME IInv, NEW r \in Readers, NEW label \in ReaderLabels, Goto(r, label),
           UNCHANGED <<disk, lock, kind, event, history>>
    PROVE  /\ OnDisk' = OnDisk /\ (dir' /\ ~Moving') = (dir /\ ~Moving)
           /\ FlockHeld' /\ Layout' /\ Numbered' /\ Intact' /\ Returned'
           /\ pc' \in [Threads -> WriterLabels \union ReaderLabels]
           /\ pc'[r] = label
           /\ \A w \in Writers : pc'[w] = pc[w]
           /\ \A q \in Readers : q # r => pc'[q] = pc[q]
<1> USE Apart
<1>1. single' = single /\ dir' = dir /\ segs' = segs /\ lock' = lock
      /\ kind' = kind /\ event' = event /\ acked' = acked
      /\ accepted' = accepted /\ ids' = ids /\ torn' = torn
      /\ crashes' = crashes
  BY DEF disk, history
<1>2. /\ \A w \in Writers : pc'[w] = pc[w]
      /\ \A q \in Readers : q # r => pc'[q] = pc[q]
      /\ pc'[r] = label
      /\ pc' \in [Threads -> WriterLabels \union ReaderLabels]
  BY DEF IInv, Types, Goto
<1>3. OnDisk' = OnDisk BY <1>1 DEF OnDisk
<1>4. Moving' = Moving
  BY <1>1, <1>2 DEF IInv, Types, Moving
<1>5. FlockHeld' BY <1>1, <1>2 DEF IInv, FlockHeld, Inside
<1>6. Layout' BY <1>1, <1>2, <1>4 DEF IInv, Layout, Full
<1>7. Numbered'
  BY <1>1, <1>2, <1>3 DEF IInv, Numbered, SeqIsPosition, Inside
<1>8. Intact' BY <1>1 DEF IInv, Intact
<1>9. Returned' BY <1>1, <1>2, <1>3 DEF IInv, Returned
<1> QED BY <1>1, <1>2, <1>3, <1>4, <1>5, <1>6, <1>7, <1>8, <1>9

\* The others, whose share of the variables does not change.
LEMMA ReaderSame ==
    ASSUME NEW q \in Readers, ReaderTrue(q), OnDisk' = OnDisk, dir' = dir,
           single' = single, torn' = torn, pc'[q] = pc[q], multi'[q] = multi[q],
           seen'[q] = seen[q], got'[q] = got[q], began'[q] = began[q]
    PROVE  ReaderTrue(q)'
BY DEF ReaderTrue, Met, Begins

LEMMA CacheSame ==
    ASSUME CacheIsPrefix, OnDisk' = OnDisk, torn' = torn, cache' = cache
    PROVE  CacheIsPrefix'
BY DEF CacheIsPrefix, Begins

\* The typed parts of the state that a reader's step may change.
LEMMA ReaderTypes ==
    ASSUME IInv, NEW r \in Readers, NEW label \in ReaderLabels, Goto(r, label),
           UNCHANGED <<disk, lock, kind, event, history>>,
           cache' \in [Procs -> [hot : BOOLEAN, last : Nat, events : Seq(Line)]],
           building' \in [Procs -> Readers \union {None}],
           multi' \in [Readers -> BOOLEAN], seen' \in [Readers -> Nat],
           got' \in [Readers -> Seq(Line)],
           began' \in [Readers -> [events : Nat, moved : BOOLEAN]]
    PROVE  Types'
<1>1. pc' \in [Threads -> WriterLabels \union ReaderLabels] /\ pc'[r] = label
      /\ (\A w \in Writers : pc'[w] = pc[w])
      /\ \A q \in Readers : q # r => pc'[q] = pc[q]
  BY ReaderFrame
<1> QED BY <1>1 DEF IInv, Types, disk, history

LEMMA StartReadKeeps ==
    ASSUME IInv, NEW r \in Readers, StartRead(r)
    PROVE  IInv'
<1> USE Apart
<1> DEFINE label == "probe"
<1>1. label \in ReaderLabels /\ Goto(r, label) /\ pc[r] = "idle"
      /\ UNCHANGED <<disk, lock, kind, event, history>>
  BY DEF StartRead, ReaderLabels
<1> HIDE DEF label
<1>2. /\ OnDisk' = OnDisk /\ FlockHeld' /\ Layout' /\ Numbered' /\ Intact'
      /\ Returned' /\ pc'[r] = label
      /\ \A q \in Readers : q # r => pc'[q] = pc[q]
  BY <1>1, ReaderFrame
<1>3. single' = single /\ dir' = dir /\ segs' = segs /\ torn' = torn
  BY <1>1 DEF disk, history
<1>a. DiskTyped /\ Layout /\ SeqIsPosition BY DEF IInv, Types, DiskTyped, Numbered
<1>b. OnDisk \in Seq(Event) /\ Len(OnDisk) \in Nat BY <1>a, OnDiskType
<1>4. Types'
  <2>1. [events |-> Len(OnDisk), moved |-> dir /\ single = << >>]
          \in [events : Nat, moved : BOOLEAN]
    BY <1>b
  <2>2. began' \in [Readers -> [events : Nat, moved : BOOLEAN]]
    BY <2>1 DEF IInv, Types, StartRead, Settled
  <2> QED BY <1>1, <2>2, ReaderTypes DEF IInv, Types, StartRead
<1>5. CacheIsPrefix'
  <2>1. cache' = cache BY DEF StartRead
  <2> QED BY <1>2, <1>3, <2>1, CacheSame DEF IInv
<1>6. ReadersTrue'
  <2>1. ASSUME NEW q \in Readers, q # r PROVE ReaderTrue(q)'
    <3>1. multi'[q] = multi[q] /\ seen'[q] = seen[q] /\ got'[q] = got[q]
          /\ began'[q] = began[q]
      BY <2>1 DEF IInv, Types, StartRead, Used, reading
    <3> QED BY <1>2, <1>3, <2>1, <3>1, ReaderSame DEF IInv, ReadersTrue
  <2>2. ReaderTrue(r)'
    BY <1>1, <1>2, <1>3 DEF IInv, Types, ReadersTrue, ReaderTrue, Met, Begins,
       StartRead, Settled, Used, reading, label
  <2> QED BY <2>1, <2>2 DEF ReadersTrue
<1> QED BY <1>2, <1>4, <1>5, <1>6 DEF IInv

LEMMA LookKeeps ==
    ASSUME IInv, NEW r \in Readers, Look(r)
    PROVE  IInv'
<1> USE Apart
<1> DEFINE label == LookFrom[pc[r]]
<1>1. label \in ReaderLabels /\ Goto(r, label) /\ pc[r] \in {"probe", "read", "recheck"}
      /\ UNCHANGED <<disk, lock, kind, event, history>>
  BY DEF Look, ReaderLabels, reading, LookFrom
<1> HIDE DEF label
<1>2. /\ OnDisk' = OnDisk /\ FlockHeld' /\ Layout' /\ Numbered' /\ Intact'
      /\ Returned' /\ pc'[r] = label
      /\ \A q \in Readers : q # r => pc'[q] = pc[q]
  BY <1>1, ReaderFrame
<1>3. single' = single /\ dir' = dir /\ segs' = segs /\ torn' = torn
  BY <1>1 DEF disk, history
<1>4. Types'
  BY <1>1, ReaderTypes DEF IInv, Types, Look, Used, reading
<1>5. CacheIsPrefix'
  <2>1. cache' = cache BY DEF Look
  <2> QED BY <1>2, <1>3, <2>1, CacheSame DEF IInv
<1>6. ReadersTrue'
  <2>1. ASSUME NEW q \in Readers, q # r PROVE ReaderTrue(q)'
    <3>1. multi'[q] = multi[q] /\ seen'[q] = seen[q] /\ got'[q] = got[q]
          /\ began'[q] = began[q]
      BY <2>1 DEF IInv, Types, Look, Used, reading
    <3> QED BY <1>2, <1>3, <2>1, <3>1, ReaderSame DEF IInv, ReadersTrue
  <2>2. ReaderTrue(r)'
    BY <1>1, <1>2, <1>3 DEF IInv, Types, ReadersTrue, ReaderTrue, Met, Begins,
       Look, LookFrom, Used, reading, label
  <2> QED BY <2>1, <2>2 DEF ReadersTrue
<1> QED BY <1>2, <1>4, <1>5, <1>6 DEF IInv

\* What a look tells this reader: all of the log, or nothing of it because it
\* met the first rotation.
LEMMA LookTells ==
    ASSUME IInv, NEW r \in Readers, pc[r] \in {"tail", "scan", "after"}
    PROVE  /\ LastSeqAs(multi[r]) \in Nat
           /\ \/ LastSeqAs(multi[r]) = Len(OnDisk)
              \/ LastSeqAs(multi[r]) = 0 /\ Met(r)
           /\ \/ ReadAs(multi[r]) = OnDisk
              \/ ReadAs(multi[r]) = << >> /\ Met(r)
<1>1. DiskTyped /\ Layout /\ SeqIsPosition
  BY DEF IInv, Types, DiskTyped, Numbered
<1>2. OnDisk \in Seq(Event) /\ Len(OnDisk) \in Nat BY <1>1, OnDiskType
<1>3. ReaderTrue(r) /\ multi[r] \in BOOLEAN /\ dir \in BOOLEAN
      /\ began[r].moved \in BOOLEAN
  BY DEF IInv, Types, ReadersTrue
<1>4. began[r].moved => dir /\ ~Moving
  <2>1. ASSUME began[r].moved, Moving PROVE FALSE
    <3>1. single = << >> /\ Full(single)
      BY <2>1, <1>1, <1>3 DEF ReaderTrue, Layout
    <3>2. Parsed(single) = << >> /\ Len(<< >>) = 0 BY <3>1, ParsedEmpty
    <3> QED BY <3>1, <3>2, BoundAssumption DEF Full
  <2> QED BY <2>1, <1>3 DEF ReaderTrue
<1>5. /\ LastSeqAs(TRUE) = IF dir /\ ~Moving THEN Len(OnDisk) ELSE 0
      /\ LastSeqAs(FALSE) = IF dir /\ ~Moving THEN 0 ELSE Len(OnDisk)
      /\ ReadAs(TRUE) = IF dir /\ ~Moving THEN OnDisk ELSE << >>
      /\ ReadAs(FALSE) = IF dir /\ ~Moving THEN << >> ELSE OnDisk
  BY <1>1, LastSeqTells, ReadTells
<1>6. CASE multi[r] = TRUE
  <2>1. LastSeqAs(multi[r]) = LastSeqAs(TRUE) /\ ReadAs(multi[r]) = ReadAs(TRUE)
    BY <1>6
  <2>2. dir BY <1>3, <1>6 DEF ReaderTrue
  <2>3. CASE ~Moving BY <1>2, <1>5, <2>1, <2>2, <2>3
  <2>4. CASE Moving
    <3>1. Met(r) BY <1>4, <2>2, <2>4 DEF Met
    <3>2. LastSeqAs(multi[r]) = 0 /\ ReadAs(multi[r]) = << >> /\ 0 \in Nat
      BY <1>5, <2>1, <2>4
    <3> QED BY <3>1, <3>2, Zenon
  <2> QED BY <2>3, <2>4
<1>7. CASE multi[r] = FALSE
  <2>1. LastSeqAs(multi[r]) = LastSeqAs(FALSE) /\ ReadAs(multi[r]) = ReadAs(FALSE)
    BY <1>7
  <2>2. ~began[r].moved BY <1>3, <1>7 DEF ReaderTrue
  <2>3. CASE dir /\ ~Moving
    <3>1. Met(r) BY <2>2, <2>3 DEF Met
    <3>2. LastSeqAs(multi[r]) = 0 /\ ReadAs(multi[r]) = << >> /\ 0 \in Nat
      BY <1>5, <2>1, <2>3
    <3> QED BY <3>1, <3>2, Zenon
  <2>4. CASE ~(dir /\ ~Moving) BY <1>2, <1>5, <2>1, <2>4
  <2> QED BY <2>3, <2>4
<1> QED BY <1>3, <1>6, <1>7

LEMMA Tail_Keeps ==
    ASSUME IInv, NEW r \in Readers, Tail_(r)
    PROVE  IInv'
<1> USE Apart
<1> DEFINE label == "match"
<1>1. label \in ReaderLabels /\ Goto(r, label) /\ pc[r] = "tail"
      /\ UNCHANGED <<disk, lock, kind, event, history>>
  BY DEF Tail_, ReaderLabels
<1> HIDE DEF label
<1>2. /\ OnDisk' = OnDisk /\ FlockHeld' /\ Layout' /\ Numbered' /\ Intact'
      /\ Returned' /\ pc'[r] = label
      /\ \A q \in Readers : q # r => pc'[q] = pc[q]
  BY <1>1, ReaderFrame
<1>3. single' = single /\ dir' = dir /\ segs' = segs /\ torn' = torn
  BY <1>1 DEF disk, history
<1>a. LastSeqAs(multi[r]) \in Nat
      /\ \/ LastSeqAs(multi[r]) = Len(OnDisk)
         \/ LastSeqAs(multi[r]) = 0 /\ Met(r)
  BY LookTells DEF Tail_
<1>4. Types'
  <2>1. seen' \in [Readers -> Nat] BY <1>a DEF IInv, Types, Tail_
  <2> QED BY <1>1, <2>1, ReaderTypes DEF IInv, Types, Tail_, Used
<1>5. CacheIsPrefix'
  <2>1. cache' = cache BY DEF Tail_
  <2> QED BY <1>2, <1>3, <2>1, CacheSame DEF IInv
<1>6. ReadersTrue'
  <2>1. ASSUME NEW q \in Readers, q # r PROVE ReaderTrue(q)'
    <3>1. multi'[q] = multi[q] /\ seen'[q] = seen[q] /\ got'[q] = got[q]
          /\ began'[q] = began[q]
      BY <2>1 DEF IInv, Types, Tail_, Used, reading
    <3> QED BY <1>2, <1>3, <2>1, <3>1, ReaderSame DEF IInv, ReadersTrue
  <2>2. ReaderTrue(r)'
    <3>1. seen'[r] = LastSeqAs(multi[r]) /\ began' = began
          /\ multi'[r] = FALSE
      BY DEF IInv, Types, Tail_, Used
    <3>2. Met(r)' = Met(r) BY <1>3, <3>1 DEF Met
    <3>3. ReaderTrue(r) BY DEF IInv, ReadersTrue
    <3> QED BY <1>1, <1>2, <1>3, <1>a, <3>1, <3>2, <3>3 DEF ReaderTrue, label
  <2> QED BY <2>1, <2>2 DEF ReadersTrue
<1> QED BY <1>2, <1>4, <1>5, <1>6 DEF IInv

LEMMA AfterKeeps ==
    ASSUME IInv, NEW r \in Readers, After(r)
    PROVE  IInv'
<1> USE Apart
<1> DEFINE label == "store"
<1>1. label \in ReaderLabels /\ Goto(r, label) /\ pc[r] = "after"
      /\ UNCHANGED <<disk, lock, kind, event, history>>
  BY DEF After, ReaderLabels
<1> HIDE DEF label
<1>2. /\ OnDisk' = OnDisk /\ FlockHeld' /\ Layout' /\ Numbered' /\ Intact'
      /\ Returned' /\ pc'[r] = label
      /\ \A q \in Readers : q # r => pc'[q] = pc[q]
  BY <1>1, ReaderFrame
<1>3. single' = single /\ dir' = dir /\ segs' = segs /\ torn' = torn
  BY <1>1 DEF disk, history
<1>a. LastSeqAs(multi[r]) \in Nat
      /\ \/ LastSeqAs(multi[r]) = Len(OnDisk)
         \/ LastSeqAs(multi[r]) = 0 /\ Met(r)
  BY LookTells DEF After
<1>4. Types'
  <2>1. seen' \in [Readers -> Nat] BY <1>a DEF IInv, Types, After
  <2> QED BY <1>1, <2>1, ReaderTypes DEF IInv, Types, After, Used
<1>5. CacheIsPrefix'
  <2>1. cache' = cache BY DEF After
  <2> QED BY <1>2, <1>3, <2>1, CacheSame DEF IInv
<1>6. ReadersTrue'
  <2>1. ASSUME NEW q \in Readers, q # r PROVE ReaderTrue(q)'
    <3>1. multi'[q] = multi[q] /\ seen'[q] = seen[q] /\ got'[q] = got[q]
          /\ began'[q] = began[q]
      BY <2>1 DEF IInv, Types, After, Used, reading
    <3> QED BY <1>2, <1>3, <2>1, <3>1, ReaderSame DEF IInv, ReadersTrue
  <2>2. ReaderTrue(r)'
    <3>1. began' = began /\ multi'[r] = FALSE /\ got' = got
      BY DEF IInv, Types, After, Used
    <3>2. Met(r)' = Met(r) BY <1>3, <3>1 DEF Met
    <3>3. ReaderTrue(r) BY DEF IInv, ReadersTrue
    <3>4. Begins(got[r], OnDisk)' = Begins(got[r], OnDisk)
      BY <1>2, <3>1 DEF Begins
    <3> QED BY <1>1, <1>2, <1>3, <3>1, <3>2, <3>3, <3>4 DEF ReaderTrue, label
  <2> QED BY <2>1, <2>2 DEF ReadersTrue
<1> QED BY <1>2, <1>4, <1>5, <1>6 DEF IInv

LEMMA ScanKeeps ==
    ASSUME IInv, NEW r \in Readers, Scan(r)
    PROVE  IInv'
<1> USE Apart
<1> DEFINE label == "recheck"
<1>1. label \in ReaderLabels /\ Goto(r, label) /\ pc[r] = "scan"
      /\ UNCHANGED <<disk, lock, kind, event, history>>
  BY DEF Scan, ReaderLabels
<1> HIDE DEF label
<1>2. /\ OnDisk' = OnDisk /\ FlockHeld' /\ Layout' /\ Numbered' /\ Intact'
      /\ Returned' /\ pc'[r] = label
      /\ \A q \in Readers : q # r => pc'[q] = pc[q]
  BY <1>1, ReaderFrame
<1>3. single' = single /\ dir' = dir /\ segs' = segs /\ torn' = torn
  BY <1>1 DEF disk, history
<1>a. \/ ReadAs(multi[r]) = OnDisk
      \/ ReadAs(multi[r]) = << >> /\ Met(r)
  BY LookTells DEF Scan
<1>b. OnDisk \in Seq(Event) /\ Len(OnDisk) \in Nat
  BY OnDiskType DEF IInv, Types, DiskTyped
<1>4. Types'
  <2>1. << >> \in Seq(Line) /\ OnDisk \in Seq(Line)
    <3>1. \A e \in Event : e \in Line BY DEF Line
    <3> QED BY <1>b, <3>1
  <2>2. ReadAs(multi[r]) \in Seq(Line) BY <1>a, <2>1
  <2>3. got' \in [Readers -> Seq(Line)] BY <2>2 DEF IInv, Types, Scan
  <2> QED BY <1>1, <2>3, ReaderTypes DEF IInv, Types, Scan, Used
<1>5. CacheIsPrefix'
  <2>1. cache' = cache BY DEF Scan
  <2> QED BY <1>2, <1>3, <2>1, CacheSame DEF IInv
<1>6. ReadersTrue'
  <2>1. ASSUME NEW q \in Readers, q # r PROVE ReaderTrue(q)'
    <3>1. multi'[q] = multi[q] /\ seen'[q] = seen[q] /\ got'[q] = got[q]
          /\ began'[q] = began[q]
      BY <2>1 DEF IInv, Types, Scan, Used, reading
    <3> QED BY <1>2, <1>3, <2>1, <3>1, ReaderSame DEF IInv, ReadersTrue
  <2>2. ReaderTrue(r)'
    <3>1. began' = began /\ multi'[r] = FALSE /\ got'[r] = ReadAs(multi[r])
      BY DEF IInv, Types, Scan, Used
    <3>2. Met(r)' = Met(r) BY <1>3, <3>1 DEF Met
    <3>3. ReaderTrue(r) BY DEF IInv, ReadersTrue
    <3>4. CASE ReadAs(multi[r]) = OnDisk
      <4>1. got'[r] = OnDisk BY <3>1, <3>4
      <4>2. Begins(got[r], OnDisk)' BY <1>2, <1>b, <4>1 DEF Begins
      <4> QED BY <1>1, <1>2, <1>3, <1>b, <3>1, <3>2, <3>3, <4>1, <4>2
              DEF ReaderTrue, label
    <3>5. CASE ReadAs(multi[r]) = << >> /\ Met(r)
      <4>1. got'[r] = << >> BY <3>1, <3>5
      <4>2. Begins(got[r], OnDisk)' BY <1>2, <1>b, <4>1 DEF Begins
      <4> QED BY <1>1, <1>2, <1>3, <1>b, <3>1, <3>2, <3>3, <3>5, <4>1, <4>2
              DEF ReaderTrue, label
    <3> QED BY <3>4, <3>5, <1>a
  <2> QED BY <2>1, <2>2 DEF ReadersTrue
<1> QED BY <1>2, <1>4, <1>5, <1>6 DEF IInv

LEMMA ReturnKeeps ==
    ASSUME IInv, NEW r \in Readers, Return(r)
    PROVE  IInv'
<1> USE Apart
<1> DEFINE label == "idle"
<1>1. label \in ReaderLabels /\ Goto(r, label) /\ pc[r] = "return"
      /\ UNCHANGED <<disk, lock, kind, event, history>>
  BY DEF Return, ReaderLabels
<1> HIDE DEF label
<1>2. /\ OnDisk' = OnDisk /\ FlockHeld' /\ Layout' /\ Numbered' /\ Intact'
      /\ Returned' /\ pc'[r] = label
      /\ \A q \in Readers : q # r => pc'[q] = pc[q]
  BY <1>1, ReaderFrame
<1>3. single' = single /\ dir' = dir /\ segs' = segs /\ torn' = torn
  BY <1>1 DEF disk, history
<1>b. OnDisk \in Seq(Event) /\ Len(OnDisk) \in Nat
  BY OnDiskType DEF IInv, Types, DiskTyped
<1>4. Types'
  <2>1. NoCall \in [events : Nat, moved : BOOLEAN] /\ << >> \in Seq(Line)
    BY DEF NoCall
  <2> QED BY <1>1, <2>1, ReaderTypes DEF IInv, Types, Return
<1>5. CacheIsPrefix'
  <2>1. cache' = cache BY DEF Return
  <2> QED BY <1>2, <1>3, <2>1, CacheSame DEF IInv
<1>6. ReadersTrue'
  <2>1. ASSUME NEW q \in Readers, q # r PROVE ReaderTrue(q)'
    <3>1. multi'[q] = multi[q] /\ seen'[q] = seen[q] /\ got'[q] = got[q]
          /\ began'[q] = began[q]
      BY <2>1 DEF IInv, Types, Return, Used, reading
    <3> QED BY <1>2, <1>3, <2>1, <3>1, ReaderSame DEF IInv, ReadersTrue
  <2>2. ReaderTrue(r)'
    BY <1>1, <1>2, <1>3, <1>b
    DEF IInv, Types, ReadersTrue, ReaderTrue, Met, Begins, Return, NoCall, label
  <2> QED BY <2>1, <2>2 DEF ReadersTrue
<1> QED BY <1>2, <1>4, <1>5, <1>6 DEF IInv

LEMMA TakeBuildLockKeeps ==
    ASSUME IInv, NEW r \in Readers, TakeBuildLock(r)
    PROVE  IInv'
<1> USE Apart
<1> DEFINE label == "probe"
<1>1. label \in ReaderLabels /\ Goto(r, label) /\ pc[r] = "wait"
      /\ UNCHANGED <<disk, lock, kind, event, history>>
  BY DEF TakeBuildLock, ReaderLabels, reading, LookFrom
<1> HIDE DEF label
<1>2. /\ OnDisk' = OnDisk /\ FlockHeld' /\ Layout' /\ Numbered' /\ Intact'
      /\ Returned' /\ pc'[r] = label
      /\ \A q \in Readers : q # r => pc'[q] = pc[q]
  BY <1>1, ReaderFrame
<1>3. single' = single /\ dir' = dir /\ segs' = segs /\ torn' = torn
  BY <1>1 DEF disk, history
<1>4. Types'
  <2>1. building' \in [Procs -> Readers \union {None}]
        /\ UNCHANGED <<cache, multi, seen, got, began>>
    BY DEF IInv, Types, TakeBuildLock, reading
  <2> QED BY <1>1, <2>1, ReaderTypes DEF IInv, Types
<1>5. CacheIsPrefix'
  <2>1. cache' = cache BY DEF TakeBuildLock
  <2> QED BY <1>2, <1>3, <2>1, CacheSame DEF IInv
<1>6. ReadersTrue'
  <2>1. ASSUME NEW q \in Readers, q # r PROVE ReaderTrue(q)'
    <3>1. multi'[q] = multi[q] /\ seen'[q] = seen[q] /\ got'[q] = got[q]
          /\ began'[q] = began[q]
      BY <2>1 DEF IInv, Types, TakeBuildLock, Used, reading
    <3> QED BY <1>2, <1>3, <2>1, <3>1, ReaderSame DEF IInv, ReadersTrue
  <2>2. ReaderTrue(r)'
    BY <1>1, <1>2, <1>3 DEF IInv, Types, ReadersTrue, ReaderTrue, Met, Begins,
       TakeBuildLock, Used, reading, label
  <2> QED BY <2>1, <2>2 DEF ReadersTrue
<1> QED BY <1>2, <1>4, <1>5, <1>6 DEF IInv

LEMMA MatchKeeps ==
    ASSUME IInv, NEW r \in Readers, Match(r)
    PROVE  IInv'
<1> USE Apart
<1> DEFINE label == IF cache[HostOf[r]].hot /\ Fresh(r) THEN "return"
       ELSE IF building[HostOf[r]] = r THEN "read" ELSE "wait"
<1>1. label \in ReaderLabels /\ Goto(r, label) /\ pc[r] = "match"
      /\ UNCHANGED <<disk, lock, kind, event, history>>
  BY DEF Match, ReaderLabels, reading, LookFrom
<1> HIDE DEF label
<1>2. /\ OnDisk' = OnDisk /\ FlockHeld' /\ Layout' /\ Numbered' /\ Intact'
      /\ Returned' /\ pc'[r] = label
      /\ \A q \in Readers : q # r => pc'[q] = pc[q]
  BY <1>1, ReaderFrame
<1>3. single' = single /\ dir' = dir /\ segs' = segs /\ torn' = torn
  BY <1>1 DEF disk, history
<1>4. Types'
  <2>1. building' \in [Procs -> Readers \union {None}]
    <3>1. [building EXCEPT ![HostOf[r]] =
              IF building[HostOf[r]] = r THEN None ELSE building[HostOf[r]]]
            \in [Procs -> Readers \union {None}]
      BY DEF IInv, Types
    <3>2. building' = building \/ building' =
            [building EXCEPT ![HostOf[r]] =
              IF building[HostOf[r]] = r THEN None ELSE building[HostOf[r]]]
      BY DEF Match, Released
    <3> QED BY <3>1, <3>2 DEF IInv, Types
  <2>2. got' \in [Readers -> Seq(Line)]
    BY DEF IInv, Types, Match
  <2> QED BY <1>1, <2>1, <2>2, ReaderTypes DEF IInv, Types, Match
<1>5. CacheIsPrefix'
  <2>1. cache' = cache BY DEF Match
  <2> QED BY <1>2, <1>3, <2>1, CacheSame DEF IInv
<1>6. ReadersTrue'
  <2>1. ASSUME NEW q \in Readers, q # r PROVE ReaderTrue(q)'
    <3>1. multi'[q] = multi[q] /\ seen'[q] = seen[q] /\ got'[q] = got[q]
          /\ began'[q] = began[q]
      BY <2>1 DEF IInv, Types, Match, Used, reading
    <3> QED BY <1>2, <1>3, <2>1, <3>1, ReaderSame DEF IInv, ReadersTrue
  <2>2. ReaderTrue(r)'
    <3>1. began' = began /\ multi' = multi /\ ReaderTrue(r) /\ seen'[r] = 0
      BY DEF IInv, Types, Match, ReadersTrue
    <3>2. Met(r)' = Met(r) BY <1>3, <3>1 DEF Met
    <3>3. CASE cache[HostOf[r]].hot /\ Fresh(r)
      <4> DEFINE c == cache[HostOf[r]].events
      <4>1. got'[r] = c /\ c \in Seq(Line) /\ label = "return"
        BY <3>3 DEF IInv, Types, Match, label
      <4>2. torn = 0 => Len(c) = seen[r] /\ Begins(c, OnDisk)
        BY <3>3 DEF IInv, CacheIsPrefix, Fresh
      <4>3. torn = 0 => Begins(got[r], OnDisk)'
        BY <1>2, <4>1, <4>2 DEF Begins
      <4> HIDE DEF c
      <4>4. Len(c) \in Nat /\ (Len(c) = 0 => c = << >>) BY <4>1
      <4>5. ReaderTrue(r) /\ pc[r] = "match" BY <3>1, <1>1
      <4> QED BY <1>2, <1>3, <3>1, <3>2, <4>1, <4>2, <4>3, <4>4, <4>5
              DEF ReaderTrue
    <3>4. CASE ~(cache[HostOf[r]].hot /\ Fresh(r))
      <4>1. label \in {"read", "wait"} BY <3>4 DEF label
      <4> QED BY <1>2, <1>3, <3>1, <3>2, <4>1 DEF ReaderTrue
    <3> QED BY <3>3, <3>4
  <2> QED BY <2>1, <2>2 DEF ReadersTrue
<1> QED BY <1>2, <1>4, <1>5, <1>6 DEF IInv

LEMMA StoreKeeps ==
    ASSUME IInv, NEW r \in Readers, Store(r)
    PROVE  IInv'
<1> USE Apart
<1> DEFINE label == "return"
<1>1. label \in ReaderLabels /\ Goto(r, label) /\ pc[r] = "store"
      /\ UNCHANGED <<disk, lock, kind, event, history>>
  BY DEF Store, ReaderLabels
<1> HIDE DEF label
<1>2. /\ OnDisk' = OnDisk /\ FlockHeld' /\ Layout' /\ Numbered' /\ Intact'
      /\ Returned' /\ pc'[r] = label
      /\ \A q \in Readers : q # r => pc'[q] = pc[q]
  BY <1>1, ReaderFrame
<1>3. single' = single /\ dir' = dir /\ segs' = segs /\ torn' = torn
  BY <1>1 DEF disk, history
<1> DEFINE last == IF got[r] = << >> THEN 0 ELSE Last(got[r]).seq
<1>b. got[r] \in Seq(Line) /\ HostOf[r] \in Procs /\ last \in Nat
  <2>1. got[r] \in Seq(Line) BY DEF IInv, Types
  <2>2. got[r] # << >> => Last(got[r]) \in Line BY <2>1, FrontAndLast
  <2>3. \A l \in Line : l.seq \in Nat BY DEF Line, Event, Whole, Broken
  <2> QED BY <2>1, <2>2, <2>3
<1>c. torn = 0 => last = Len(got[r]) /\ Begins(got[r], OnDisk)
  <2>1. ASSUME torn = 0 PROVE Begins(got[r], OnDisk)
    BY <2>1, <1>1 DEF IInv, ReadersTrue, ReaderTrue
  <2>2. \A i \in 1..Len(OnDisk) : OnDisk[i].seq = i
    BY Positions DEF IInv, Types, DiskTyped, Numbered
  <2>3. Len(OnDisk) \in Nat BY OnDiskType DEF IInv, Types, DiskTyped
  <2>4. ASSUME torn = 0, got[r] # << >> PROVE Last(got[r]).seq = Len(got[r])
    <3>1. Len(got[r]) \in 1..Len(got[r]) BY <1>b, <2>4
    <3>2. Len(got[r]) \in 1..Len(OnDisk)
          /\ Last(got[r]) = OnDisk[Len(got[r])]
      BY <3>1, <2>1, <2>3, <2>4 DEF Begins, Last
    <3> QED BY <3>2, <2>2
  <2> QED BY <2>1, <2>4
<1>d. cache' = IF last = seen[r]
               THEN [cache EXCEPT ![HostOf[r]] =
                        [hot |-> TRUE, last |-> last, events |-> got[r]]]
               ELSE cache
  BY DEF Store
<1> HIDE DEF last
<1>4. Types'
  <2>1. building' \in [Procs -> Readers \union {None}]
    BY DEF IInv, Types, Store, Released
  <2>2. cache' \in [Procs -> [hot : BOOLEAN, last : Nat, events : Seq(Line)]]
    BY <1>d DEF IInv, Types
  <2> QED BY <1>1, <2>1, <2>2, ReaderTypes DEF IInv, Types, Store
<1>5. CacheIsPrefix'
  <2>1. CASE last = seen[r]
    <3>1. /\ cache'[HostOf[r]].last = last /\ cache'[HostOf[r]].events = got[r]
          /\ \A p \in Procs : p # HostOf[r] => cache'[p] = cache[p]
      BY <1>b, <1>d, <2>1 DEF IInv, Types
    <3>2. ASSUME torn = 0, NEW p \in Procs, cache'[p].hot
          PROVE  cache'[p].last = Len(cache'[p].events)
                 /\ Begins(cache'[p].events, OnDisk)
      <4>1. CASE p = HostOf[r] BY <3>1, <3>2, <4>1, <1>c
      <4>2. CASE p # HostOf[r] BY <3>1, <3>2, <4>2 DEF IInv, CacheIsPrefix
      <4> QED BY <4>1, <4>2
    <3>3. torn' = torn /\ OnDisk' = OnDisk BY <1>2, <1>3
    <3> QED BY <3>2, <3>3 DEF CacheIsPrefix, Begins
  <2>2. CASE last # seen[r]
    <3>1. cache' = cache BY <1>d, <2>2
    <3> QED BY <1>2, <1>3, <3>1, CacheSame DEF IInv
  <2> QED BY <2>1, <2>2
<1>6. ReadersTrue'
  <2>1. ASSUME NEW q \in Readers, q # r PROVE ReaderTrue(q)'
    <3>1. multi'[q] = multi[q] /\ seen'[q] = seen[q] /\ got'[q] = got[q]
          /\ began'[q] = began[q]
      BY <2>1 DEF IInv, Types, Store, Used, reading
    <3> QED BY <1>2, <1>3, <2>1, <3>1, ReaderSame DEF IInv, ReadersTrue
  <2>2. ReaderTrue(r)'
    <3>1. began' = began /\ multi' = multi /\ got' = got
      BY DEF Store
    <3>2. Met(r)' = Met(r) BY <1>3, <3>1 DEF Met
    <3>3. ReaderTrue(r) BY DEF IInv, ReadersTrue
    <3>4. Begins(got[r], OnDisk)' = Begins(got[r], OnDisk)
      BY <1>2, <3>1 DEF Begins
    <3> QED BY <1>1, <1>2, <1>3, <3>1, <3>2, <3>3, <3>4 DEF ReaderTrue, label
  <2> QED BY <2>1, <2>2 DEF ReadersTrue
<1> QED BY <1>2, <1>4, <1>5, <1>6 DEF IInv

LEMMA ReaderStepKeeps ==
    ASSUME IInv, NEW r \in Readers, ReaderStep(r)
    PROVE  IInv'
BY StartReadKeeps, LookKeeps, Tail_Keeps, MatchKeeps, TakeBuildLockKeeps,
   ScanKeeps, AfterKeeps, StoreKeeps, ReturnKeeps DEF ReaderStep

-----------------------------------------------------------------------------
\* The writers

LEMMA BeginsTrans ==
    ASSUME NEW S, NEW s \in Seq(S), NEW t \in Seq(S), NEW u \in Seq(S),
           Begins(s, t), Begins(t, u)
    PROVE  Begins(s, u)
<1>1. Len(s) \in Nat /\ Len(t) \in Nat /\ Len(u) \in Nat OBVIOUS
<1>2. Len(s) <= Len(u) BY <1>1 DEF Begins
<1>3. \A i \in 1..Len(s) : i \in 1..Len(t) BY <1>1 DEF Begins
<1> QED BY <1>2, <1>3 DEF Begins

LEMMA BeginsSelf ==
    ASSUME NEW S, NEW s \in Seq(S)
    PROVE  Begins(s, s)
BY DEF Begins

LEMMA BeginsAppend ==
    ASSUME NEW S, NEW s \in Seq(S), NEW x \in S
    PROVE  Begins(s, Append(s, x))
BY DEF Begins

LEMMA EventsAreLines == Event \subseteq Line /\ Seq(Event) \subseteq Seq(Line)
<1>1. \A x \in Event : x \in Line BY DEF Line
<1>2. ASSUME NEW s \in Seq(Event) PROVE s \in Seq(Line) BY <1>1
<1> QED BY <1>1, <1>2

\* The log grows, and neither form of it is taken back.
Grows ==
    /\ OnDisk \in Seq(Event) /\ OnDisk' \in Seq(Event)
    /\ Begins(OnDisk, OnDisk')
    /\ torn' = 0 => torn = 0
    /\ dir => dir' /\ (single = << >> => single' = << >>)

LEMMA CacheGrows ==
    ASSUME IInv, Grows, cache' = cache
    PROVE  CacheIsPrefix'
<1>1. ASSUME torn' = 0, NEW p \in Procs, cache[p].hot
      PROVE  cache[p].last = Len(cache[p].events)
             /\ Begins(cache[p].events, OnDisk')
  <2>1. cache[p].last = Len(cache[p].events) /\ Begins(cache[p].events, OnDisk)
    BY <1>1 DEF IInv, CacheIsPrefix, Grows
  <2>2. cache[p].events \in Seq(Line) BY DEF IInv, Types
  <2>3. OnDisk \in Seq(Line) /\ OnDisk' \in Seq(Line)
    BY EventsAreLines DEF Grows
  <2>4. Begins(cache[p].events, OnDisk')
    BY <2>1, <2>2, <2>3, BeginsTrans DEF Grows
  <2> QED BY <2>1, <2>4
<1> QED BY <1>1 DEF CacheIsPrefix

LEMMA ReadersGrow ==
    ASSUME IInv, Grows, UNCHANGED reading, \A q \in Readers : pc'[q] = pc[q]
    PROVE  ReadersTrue'
<1> SUFFICES ASSUME NEW q \in Readers PROVE ReaderTrue(q)'
  BY DEF ReadersTrue
<1>1. ReaderTrue(q) /\ got[q] \in Seq(Line) BY DEF IInv, Types, ReadersTrue
<1>2. multi' = multi /\ seen' = seen /\ got' = got /\ began' = began
  BY DEF reading
<1>3. OnDisk \in Seq(Line) /\ OnDisk' \in Seq(Line) BY EventsAreLines DEF Grows
<1>4. Begins(got[q], OnDisk) => Begins(got[q], OnDisk')
  BY <1>1, <1>3, BeginsTrans DEF Grows
<1>5. began[q].events \in Nat /\ Len(OnDisk) \in Nat /\ Len(OnDisk') \in Nat
  BY <1>3 DEF IInv, Types
<1>6. began[q].events <= Len(OnDisk') BY <1>1, <1>5 DEF ReaderTrue, Grows, Begins
<1>7. Met(q) => Met(q)' BY <1>2 DEF Met, Grows
<1>8. Begins(got[q], OnDisk)' = Begins(got[q], OnDisk') BY <1>2
<1> QED BY <1>1, <1>2, <1>4, <1>6, <1>7, <1>8 DEF ReaderTrue, Grows

\* pc after a writer's step.
LEMMA WriterPc ==
    ASSUME Types, NEW w \in Writers, NEW label \in WriterLabels, Goto(w, label)
    PROVE  /\ pc' \in [Threads -> WriterLabels \union ReaderLabels]
           /\ \A u \in Writers : pc'[u] \in WriterLabels
           /\ \A r \in Readers : pc'[r] \in ReaderLabels
           /\ pc'[w] = label
           /\ \A u \in Writers : u # w => pc'[u] = pc[u]
           /\ \A q \in Readers : pc'[q] = pc[q]
BY Apart DEF Types, Goto

\* A writer in its operation is alone in one.
LEMMA Alone ==
    ASSUME IInv, NEW w \in Writers, Inside(w)
    PROVE  /\ lock = w /\ w # None
           /\ \A u \in Writers : u # w => ~Inside(u)
           /\ Moving <=> pc[w] = "move"
BY Apart DEF IInv, FlockHeld, Moving

LEMMA NobodyMoves ==
    ASSUME IInv, lock = None
    PROVE  /\ ~Moving /\ \A u \in Writers : ~Inside(u)
BY Apart DEF IInv, FlockHeld, Moving

\* A step of a writer that leaves the events on disk alone.
LEMMA QuietWriter ==
    ASSUME IInv, OnDisk' = OnDisk, UNCHANGED <<cache, reading, ids, torn, acked>>,
           NEW w \in Writers, NEW label \in WriterLabels, Goto(w, label),
           \A u \in Writers : u # w => kind'[u] = kind[u] /\ event'[u] = event[u],
           label # "extend",
           dir => dir' /\ (single = << >> => single' = << >>),
           label \in {"locked", "move", "create", "write"} /\ kind'[w] # "check" =>
              ids < MaxEvents,
           label = "write" => kind'[w] # "check"
    PROVE  Numbered' /\ Returned' /\ CacheIsPrefix' /\ ReadersTrue'
<1>1. /\ pc'[w] = label
      /\ \A u \in Writers : u # w => pc'[u] = pc[u]
      /\ \A q \in Readers : pc'[q] = pc[q]
  BY WriterPc DEF IInv
<1>2. OnDisk \in Seq(Event) BY OnDiskType DEF IInv, Types, DiskTyped
<1>3. Grows BY <1>2, BeginsSelf DEF Grows
<1>4. Numbered'
  BY <1>1 DEF IInv, Numbered, SeqIsPosition, Inside
<1>5. Returned'
  BY <1>1 DEF IInv, Returned
<1>6. CacheIsPrefix' BY <1>3, CacheGrows
<1>7. ReadersTrue' BY <1>1, <1>3, ReadersGrow
<1> QED BY <1>4, <1>5, <1>6, <1>7

LEMMA BeginKeeps ==
    ASSUME IInv, NEW w \in Writers, Begin(w)
    PROVE  IInv'
<1> USE Apart
<1>1. PICK k \in KindsOf[w] :
         /\ k = "check" \/ ids < MaxEvents
         /\ kind' = [kind EXCEPT ![w] = k]
  BY DEF Begin
<1>2. pc[w] = "idle" /\ lock = None /\ lock' = w /\ Goto(w, "locked")
      /\ "locked" \in WriterLabels
      /\ UNCHANGED <<disk, cache, building, event, reading, history>>
  BY DEF Begin, LockFree, WriterLabels
<1>3. /\ single' = single /\ dir' = dir /\ segs' = segs /\ acked' = acked
      /\ accepted' = accepted /\ ids' = ids /\ torn' = torn
      /\ crashes' = crashes /\ OnDisk' = OnDisk
  BY <1>2 DEF disk, history, OnDisk
<1>4. /\ pc' \in [Threads -> WriterLabels \union ReaderLabels]
      /\ \A u \in Writers : pc'[u] \in WriterLabels
      /\ \A r \in Readers : pc'[r] \in ReaderLabels
      /\ pc'[w] = "locked"
      /\ \A u \in Writers : u # w => pc'[u] = pc[u]
      /\ \A q \in Readers : pc'[q] = pc[q]
  BY <1>2, WriterPc DEF IInv
<1>5. ~Moving /\ \A u \in Writers : ~Inside(u) BY <1>2, NobodyMoves
<1>6. k \in Kinds BY KindAssumption
<1>7. Types'
  <2>1. kind' \in [Writers -> Kinds \union {"none"}]
    BY <1>1, <1>6 DEF IInv, Types
  <2> QED BY <1>2, <1>3, <1>4, <2>1 DEF IInv, Types, reading
<1>8. FlockHeld' BY <1>2, <1>4, <1>5 DEF FlockHeld, Inside
<1>9. ~Moving' BY <1>2, <1>4 DEF Moving
<1>10. Layout'
  BY <1>3, <1>4, <1>5, <1>9 DEF IInv, Layout, Full, Inside
<1>11. Intact' BY <1>3 DEF IInv, Intact
<1>12. /\ kind'[w] = k
       /\ \A u \in Writers : u # w => kind'[u] = kind[u] /\ event'[u] = event[u]
  BY <1>1, <1>2 DEF IInv, Types
<1>13. Numbered' /\ Returned' /\ CacheIsPrefix' /\ ReadersTrue'
  BY <1>1, <1>2, <1>3, <1>12, QuietWriter
<1> QED BY <1>7, <1>8, <1>10, <1>11, <1>13 DEF IInv

LEMMA MakeDirKeeps ==
    ASSUME IInv, NEW w \in Writers, MakeDir(w)
    PROVE  IInv'
<1> USE Apart
<1>1. pc[w] = "locked" /\ ~dir /\ Full(single) /\ dir' = TRUE
      /\ Goto(w, "move") /\ "move" \in WriterLabels /\ kind[w] # "copy"
      /\ UNCHANGED <<single, segs, lock, cache, building, kind, event, reading,
                     history>>
  BY DEF MakeDir, WriterLabels
<1>2. /\ acked' = acked /\ accepted' = accepted /\ ids' = ids /\ torn' = torn
      /\ crashes' = crashes /\ OnDisk' = OnDisk
  BY <1>1 DEF history, OnDisk
<1>3. /\ pc' \in [Threads -> WriterLabels \union ReaderLabels]
      /\ \A u \in Writers : pc'[u] \in WriterLabels
      /\ \A r \in Readers : pc'[r] \in ReaderLabels
      /\ pc'[w] = "move"
      /\ \A u \in Writers : u # w => pc'[u] = pc[u]
      /\ \A q \in Readers : pc'[q] = pc[q]
  BY <1>1, WriterPc DEF IInv
<1>4. lock = w /\ w # None /\ \A u \in Writers : u # w => ~Inside(u)
  BY <1>1, Alone DEF Inside
<1>5. Types' BY <1>1, <1>2, <1>3 DEF IInv, Types, reading
<1>6. FlockHeld' BY <1>1, <1>3, <1>4 DEF FlockHeld, Inside
<1>7. segs = << >> BY <1>1 DEF IInv, Layout
<1>8. Moving' BY <1>1, <1>3, <1>4 DEF Moving
<1>9. Layout'
  BY <1>1, <1>3, <1>4, <1>7, <1>8 DEF IInv, Layout, Full, Inside
<1>10. Intact' BY <1>1, <1>2 DEF IInv, Intact
<1>11. kind'[w] # "check" => ids < MaxEvents
  BY <1>1 DEF IInv, Numbered, Inside
<1>12. Numbered' /\ Returned' /\ CacheIsPrefix' /\ ReadersTrue'
  BY <1>1, <1>2, <1>11, QuietWriter
<1> QED BY <1>5, <1>6, <1>9, <1>10, <1>12 DEF IInv

\* The first segment has the events of the single file.
LEMMA MoveKeepsEvents ==
    ASSUME IInv, NEW w \in Writers, Move(w)
    PROVE  OnDisk' = OnDisk
<1>1. pc[w] = "move" /\ segs' = <<single>> /\ single' = << >> BY DEF Move
<1>2. Moving BY <1>1, Alone DEF Inside
<1>3. segs = << >> /\ single \in Seq(Line) BY <1>2 DEF IInv, Layout, Types
<1>4. Events(<<single>>) = Parsed(single) /\ Parsed(single) \in Seq(Event)
  BY <1>3, EventsOne, ParsedType
<1>5. OnDisk' = << >> \o Parsed(single) BY <1>1, <1>4, ParsedEmpty DEF OnDisk
<1>6. OnDisk = Parsed(single) \o << >> BY <1>3, EventsEmpty DEF OnDisk
<1> QED BY <1>4, <1>5, <1>6

LEMMA MoveKeeps ==
    ASSUME IInv, NEW w \in Writers, Move(w)
    PROVE  IInv'
<1> USE Apart
<1>1. pc[w] = "move" /\ segs' = <<single>> /\ single' = << >>
      /\ Goto(w, "create") /\ "create" \in WriterLabels
      /\ UNCHANGED <<dir, lock, cache, building, kind, event, reading, history>>
  BY DEF Move, WriterLabels
<1>2. /\ acked' = acked /\ accepted' = accepted /\ ids' = ids /\ torn' = torn
      /\ crashes' = crashes
  BY <1>1 DEF history
<1>3. /\ pc' \in [Threads -> WriterLabels \union ReaderLabels]
      /\ \A u \in Writers : pc'[u] \in WriterLabels
      /\ \A r \in Readers : pc'[r] \in ReaderLabels
      /\ pc'[w] = "create"
      /\ \A u \in Writers : u # w => pc'[u] = pc[u]
      /\ \A q \in Readers : pc'[q] = pc[q]
  BY <1>1, WriterPc DEF IInv
<1>4. lock = w /\ w # None /\ (\A u \in Writers : u # w => ~Inside(u)) /\ Moving
  BY <1>1, Alone DEF Inside
<1>5. dir /\ Full(single) /\ segs = << >> /\ single \in Seq(Line)
  BY <1>4 DEF IInv, Layout, Types
<1>6. OnDisk' = OnDisk BY MoveKeepsEvents
<1>7. <<single>> \in Seq(Seq(Line)) /\ << >> \in Seq(Line)
      /\ <<single>> # << >> /\ Last(<<single>>) = single /\ Len(<<single>>) = 1
  BY <1>5 DEF Last
<1>8. Types' BY <1>1, <1>2, <1>3, <1>7 DEF IInv, Types, reading
<1>9. FlockHeld' BY <1>1, <1>3, <1>4 DEF FlockHeld, Inside
<1>10. ~Moving' BY <1>1, <1>3, <1>4 DEF Moving
<1>11. Layout'
  BY <1>1, <1>3, <1>4, <1>5, <1>7, <1>10 DEF Layout, Full, Inside
<1>12. Intact' BY <1>1, <1>2, <1>5 DEF IInv, Intact
<1>13. kind'[w] # "check" => ids < MaxEvents
  BY <1>1 DEF IInv, Numbered, Inside
<1>14. Numbered' /\ Returned' /\ CacheIsPrefix' /\ ReadersTrue'
  BY <1>1, <1>2, <1>6, <1>13, QuietWriter
<1> QED BY <1>8, <1>9, <1>11, <1>12, <1>14 DEF IInv

LEMMA NextSegmentKeeps ==
    ASSUME IInv, NEW w \in Writers, NextSegment(w)
    PROVE  IInv'
<1> USE Apart
<1>1. pc[w] = "locked" /\ dir /\ Full(Active) /\ Goto(w, "create")
      /\ "create" \in WriterLabels
      /\ UNCHANGED <<disk, lock, cache, building, kind, event, reading, history>>
  BY DEF NextSegment, WriterLabels
<1>2. /\ single' = single /\ dir' = dir /\ segs' = segs /\ acked' = acked
      /\ accepted' = accepted /\ ids' = ids /\ torn' = torn
      /\ crashes' = crashes /\ OnDisk' = OnDisk
  BY <1>1 DEF disk, history, OnDisk
<1>3. /\ pc' \in [Threads -> WriterLabels \union ReaderLabels]
      /\ \A u \in Writers : pc'[u] \in WriterLabels
      /\ \A r \in Readers : pc'[r] \in ReaderLabels
      /\ pc'[w] = "create"
      /\ \A u \in Writers : u # w => pc'[u] = pc[u]
      /\ \A q \in Readers : pc'[q] = pc[q]
  BY <1>1, WriterPc DEF IInv
<1>4. lock = w /\ w # None /\ (\A u \in Writers : u # w => ~Inside(u)) /\ ~Moving
  BY <1>1, Alone DEF Inside
<1>5. segs # << >> /\ Full(Last(segs))
  BY <1>1, <1>4 DEF IInv, Layout, Active
<1>6. Types' BY <1>1, <1>2, <1>3 DEF IInv, Types, reading
<1>7. FlockHeld' BY <1>1, <1>3, <1>4 DEF FlockHeld, Inside
<1>8. ~Moving' BY <1>1, <1>3, <1>4 DEF Moving
<1>9. Layout'
  BY <1>1, <1>2, <1>3, <1>4, <1>5, <1>8 DEF IInv, Layout, Full, Inside
<1>10. Intact' BY <1>2 DEF IInv, Intact
<1>11. kind'[w] # "check" => ids < MaxEvents
  BY <1>1 DEF IInv, Numbered, Inside
<1>12. Numbered' /\ Returned' /\ CacheIsPrefix' /\ ReadersTrue'
  BY <1>1, <1>2, <1>11, QuietWriter
<1> QED BY <1>6, <1>7, <1>9, <1>10, <1>12 DEF IInv

\* The end of a check, whatever the check did to the files.
LEMMA CheckedKeeps ==
    ASSUME IInv, NEW w \in Writers, Inside(w), Checked(w), OnDisk' = OnDisk,
           UNCHANGED <<cache, building, event, reading, history>>,
           DiskTyped', dir' = dir, single' = single, ~Moving,
           dir => segs' # << >>, ~dir => segs' = segs,
           \A i \in 1..(Len(segs') - 1) : Parsed(segs'[i]) # << >>,
           Intact => Intact'
    PROVE  IInv'
<1> USE Apart
<1>1. /\ acked' = acked /\ accepted' = accepted /\ ids' = ids /\ torn' = torn
      /\ crashes' = crashes
  BY DEF history
<1>2. lock = w /\ w # None /\ \A u \in Writers : u # w => ~Inside(u)
  BY Alone
<1>3. PICK label \in {"idle", "write"} : Goto(w, label)
        /\ (label = "idle" =>
              lock' = None /\ kind' = [kind EXCEPT ![w] = "none"])
        /\ (label = "write" => lock' = lock /\ kind' = kind /\ kind[w] # "check")
  BY DEF Checked, Finish
<1>4. label \in WriterLabels BY DEF WriterLabels
<1>5. /\ pc' \in [Threads -> WriterLabels \union ReaderLabels]
      /\ \A u \in Writers : pc'[u] \in WriterLabels
      /\ \A r \in Readers : pc'[r] \in ReaderLabels
      /\ pc'[w] = label
      /\ \A u \in Writers : u # w => pc'[u] = pc[u]
      /\ \A q \in Readers : pc'[q] = pc[q]
  BY <1>3, <1>4, WriterPc DEF IInv
<1>6. kind' \in [Writers -> Kinds \union {"none"}]
      /\ \A u \in Writers : u # w => kind'[u] = kind[u]
  BY <1>3 DEF IInv, Types
<1>7. Types'
  <2>1. lock' \in Writers \union {None} BY <1>2, <1>3
  <2> QED BY <1>1, <1>3, <1>5, <1>6, <2>1 DEF IInv, Types, reading, DiskTyped
<1>8. FlockHeld' BY <1>2, <1>3, <1>5 DEF FlockHeld, Inside
<1>9. ~Moving' BY <1>2, <1>3, <1>5 DEF Moving
<1>10. Layout'
  <2>1. \A u \in Writers : pc'[u] # "create" BY <1>2, <1>3, <1>5 DEF Inside
  <2> QED BY <1>9, <2>1 DEF IInv, Layout
<1>11. ids < MaxEvents \/ kind[w] = "check" BY DEF IInv, Numbered
<1>12. Numbered' /\ Returned' /\ CacheIsPrefix' /\ ReadersTrue'
  <2>1. /\ UNCHANGED <<cache, reading, ids, torn, acked>>
        /\ \A u \in Writers : u # w => kind'[u] = kind[u] /\ event'[u] = event[u]
        /\ label # "extend"
        /\ dir => dir' /\ (single = << >> => single' = << >>)
    BY <1>1, <1>3, <1>6
  <2>2. label \in {"locked", "move", "create", "write"} /\ kind'[w] # "check" =>
              ids < MaxEvents
    BY <1>3, <1>11
  <2>3. label = "write" => kind'[w] # "check" BY <1>3
  <2> QED BY <1>3, <1>4, <2>1, <2>2, <2>3, QuietWriter
<1> QED BY <1>7, <1>8, <1>10, <1>12 DEF IInv

\* A new segment has none.
LEMMA CreateKeepsEvents ==
    ASSUME IInv, NEW w \in Writers, Create(w)
    PROVE  OnDisk' = OnDisk
<1>1. segs' = Append(segs, << >>) /\ single' = single BY DEF Create
<1>2. << >> \in Seq(Line) /\ segs \in Seq(Seq(Line)) BY DEF IInv, Types
<1>3. Events(Append(segs, << >>)) = Events(segs) \o << >>
  BY <1>2, EventsAppend, ParsedEmpty
<1>4. Events(segs) \in Seq(Event) BY <1>2, EventsType
<1>5. Events(Append(segs, << >>)) = Events(segs) BY <1>3, <1>4
<1> QED BY <1>1, <1>5 DEF OnDisk

LEMMA CreateKeeps ==
    ASSUME IInv, NEW w \in Writers, Create(w)
    PROVE  IInv'
<1>1. pc[w] = "create" /\ segs' = Append(segs, << >>) /\ Checked(w)
      /\ single' = single /\ dir' = dir
      /\ UNCHANGED <<cache, building, event, reading, history>>
  BY DEF Create
<1>2. Inside(w) /\ ~Moving /\ torn' = torn BY <1>1, Alone DEF Inside, history
<1>3. dir /\ Full(Last(segs)) /\ segs # << >> /\ DiskTyped
  BY <1>1, <1>2 DEF IInv, Layout, Types, DiskTyped
<1>4. << >> \in Seq(Line) /\ segs \in Seq(Seq(Line)) /\ single \in Seq(Line)
  BY <1>3 DEF DiskTyped
<1>5. /\ segs' \in Seq(Seq(Line)) /\ Len(segs') = Len(segs) + 1
      /\ Len(segs) \in Nat \ {0}
      /\ segs'[Len(segs) + 1] = << >>
      /\ \A i \in 1..Len(segs) : segs'[i] = segs[i]
  BY <1>1, <1>3, <1>4
<1>6. OnDisk' = OnDisk BY CreateKeepsEvents
<1>7. \A i \in 1..(Len(segs') - 1) : Parsed(segs'[i]) # << >>
  <2>1. \A i \in 1..(Len(segs) - 1) : Parsed(segs[i]) # << >>
    BY DEF IInv, Layout
  <2>2. Parsed(segs[Len(segs)]) # << >>
    <3>1. Len(Parsed(segs[Len(segs)])) >= Cap BY <1>3 DEF Full, Last
    <3>2. Len(<< >>) = 0 /\ ~ (0 >= Cap) BY BoundAssumption
    <3> QED BY <3>1, <3>2
  <2> QED BY <1>5, <2>1, <2>2
<1>8. DiskTyped' BY <1>1, <1>3, <1>5 DEF DiskTyped
<1>9. Intact => Intact'
  <2>1. ASSUME Intact, torn = 0, NEW i \in DOMAIN segs', NEW j \in DOMAIN segs'[i]
        PROVE  segs'[i][j].state = "whole"
    <3>1. CASE i = Len(segs) + 1
      <4>1. segs'[i] = << >> /\ DOMAIN << >> = {} BY <1>5, <3>1
      <4> QED BY <2>1, <4>1
    <3>2. CASE i # Len(segs) + 1
      <4>a. DOMAIN segs' = 1..(Len(segs) + 1) /\ DOMAIN segs = 1..Len(segs)
        BY <1>4, <1>5
      <4>b. i \in 1..Len(segs) BY <4>a, <3>2, <1>5
      <4>1. i \in DOMAIN segs /\ segs'[i] = segs[i] BY <4>a, <4>b, <1>5
      <4> QED BY <2>1, <4>1 DEF Intact
    <3> QED BY <3>1, <3>2
  <2> QED BY <1>1, <1>2, <2>1 DEF Intact
<1>10. segs' # << >>
  <2>1. Len(segs') # Len(<< >>) BY <1>5
  <2> QED BY <2>1
<1> QED BY <1>1, <1>2, <1>3, <1>6, <1>7, <1>8, <1>9, <1>10, CheckedKeeps

LEMMA CheckOnly ==
    ASSUME IInv, NEW w \in Writers, Inside(w), ~Moving, Checked(w),
           UNCHANGED <<disk, cache, building, event, reading, history>>
    PROVE  IInv'
<1>1. single' = single /\ dir' = dir /\ segs' = segs /\ torn' = torn
  BY DEF disk, history
<1>2. OnDisk' = OnDisk /\ DiskTyped' BY <1>1 DEF IInv, Types, DiskTyped, OnDisk
<1>3. (Intact => Intact') BY <1>1 DEF Intact
<1>4. (dir => segs' # << >>)
      /\ \A i \in 1..(Len(segs') - 1) : Parsed(segs'[i]) # << >>
  BY <1>1 DEF IInv, Layout
<1> QED BY <1>1, <1>2, <1>3, <1>4, CheckedKeeps

LEMMA RotateFailsKeeps ==
    ASSUME NoMoveFault, IInv, NEW w \in Writers, RotateFails(w)
    PROVE  IInv'
<1>1. pc[w] = "create" BY DEF RotateFails, NoMoveFault
<1>2. Inside(w) /\ ~Moving BY <1>1, Alone DEF Inside
<1> QED BY <1>2, CheckOnly DEF RotateFails

LEMMA NoRotationKeeps ==
    ASSUME IInv, NEW w \in Writers, NoRotation(w)
    PROVE  IInv'
<1>1. pc[w] = "locked" BY DEF NoRotation
<1>2. Inside(w) /\ ~Moving BY <1>1, Alone DEF Inside
<1> QED BY <1>2, CheckOnly DEF NoRotation

\* A whole line, written where none is torn, is the end of the log.
LEMMA WholeWrite ==
    ASSUME DiskTyped, Layout, ~Moving, Intact, torn = 0,
           NEW l \in Event, WriteActive(l), dir' = dir
    PROVE  /\ OnDisk' = Append(OnDisk, l)
           /\ \A i \in DOMAIN single' : single'[i].state = "whole"
           /\ \A i \in DOMAIN segs' : \A j \in DOMAIN segs'[i] :
                 segs'[i][j].state = "whole"
<1>1. l \in Line /\ l.state = "whole" BY DEF Event, Whole, Line
<1>2. /\ single' \in Seq(Line) /\ segs' \in Seq(Seq(Line))
      /\ ~dir => segs' = segs /\ single' = Put(single, l)
      /\ dir => /\ single' = single /\ segs # << >>
                /\ segs' = Append(Front(segs), Put(Last(segs), l))
      /\ OnDisk' = IF l.state = "whole" /\ ~EndsTorn(Active)
                   THEN Append(OnDisk, l) ELSE OnDisk
  BY <1>1, WriteAdds
<1>3. ASSUME NEW f \in Seq(Line), \A j \in DOMAIN f : f[j].state = "whole"
      PROVE  /\ ~EndsTorn(f)
             /\ \A j \in DOMAIN Put(f, l) : Put(f, l)[j].state = "whole"
  <2>1. f # << >> => Len(f) \in DOMAIN f BY <1>3
  <2>2. ~EndsTorn(f) BY <1>3, <2>1 DEF EndsTorn, Last
  <2>3. Put(f, l) = Append(f, l) BY <2>2 DEF Put
  <2>4. \A j \in DOMAIN Append(f, l) : Append(f, l)[j].state = "whole"
    BY <1>1, <1>3
  <2> QED BY <2>2, <2>3, <2>4
<1>4. CASE ~dir
  <2>1. Active = single BY <1>4 DEF Active
  <2>2. \A j \in DOMAIN single : single[j].state = "whole" BY DEF Intact
  <2>3. single \in Seq(Line) BY DEF DiskTyped
  <2>4. /\ ~EndsTorn(single)
        /\ \A j \in DOMAIN Put(single, l) : Put(single, l)[j].state = "whole"
    BY <2>2, <2>3, <1>3
  <2> QED BY <1>1, <1>2, <1>4, <2>1, <2>4 DEF Intact
<1>5. CASE dir
  <2>1. segs # << >> /\ Active = Last(segs) BY <1>2, <1>5 DEF Active
  <2> DEFINE fs == Front(segs)
             f == Last(segs)
             p == Put(f, l)
  <2>2. /\ fs \in Seq(Seq(Line)) /\ f \in Seq(Line) /\ Len(segs) \in Nat \ {0}
        /\ Len(fs) = Len(segs) - 1
        /\ \A i \in 1..(Len(segs) - 1) : fs[i] = segs[i]
    BY <2>1, FrontAndLast DEF DiskTyped
  <2>3. Len(segs) \in DOMAIN segs /\ f = segs[Len(segs)]
        /\ \A i \in 1..(Len(segs) - 1) : i \in DOMAIN segs
    BY <2>2 DEF Last, DiskTyped
  <2>4. \A j \in DOMAIN f : f[j].state = "whole" BY <2>3 DEF Intact
  <2>5. ~EndsTorn(f) /\ \A j \in DOMAIN p : p[j].state = "whole"
    BY <1>3, <2>2, <2>4
  <2>6. p \in Seq(Line) BY <1>1, <2>2, PutParsed
  <2>7. segs' = Append(fs, p) BY <1>2, <1>5
  <2>8. \A i \in 1..(Len(segs) - 1) : \A j \in DOMAIN fs[i] :
           fs[i][j].state = "whole"
    BY <2>2, <2>3 DEF Intact
  <2>9. ~EndsTorn(Active) BY <2>1, <2>5
  <2> HIDE DEF fs, f, p
  <2>10. DOMAIN segs' = 1..Len(segs) /\ segs'[Len(segs)] = p
         /\ \A i \in 1..(Len(segs) - 1) : segs'[i] = fs[i]
    BY <2>2, <2>6, <2>7
  <2>11. ASSUME NEW i \in DOMAIN segs', NEW j \in DOMAIN segs'[i]
         PROVE  segs'[i][j].state = "whole"
    <3>1. CASE i = Len(segs) BY <2>5, <2>10, <2>11, <3>1
    <3>2. CASE i # Len(segs)
      <4>1. i \in 1..(Len(segs) - 1) BY <2>2, <2>10, <3>2
      <4> QED BY <2>8, <2>10, <2>11, <4>1
    <3> QED BY <3>1, <3>2
  <2> QED BY <1>1, <1>2, <1>5, <2>9, <2>11 DEF Intact
<1> QED BY <1>4, <1>5 DEF DiskTyped

\* The forms of the log after a write.
LEMMA WriteLayout ==
    ASSUME DiskTyped, Layout, ~Moving, NEW l \in Line, WriteActive(l),
           dir' = dir, ~Moving', \A u \in Writers : pc'[u] # "create"
    PROVE  Layout' /\ DiskTyped' /\ (single = << >> /\ dir => single' = << >>)
<1>1. /\ single' \in Seq(Line) /\ segs' \in Seq(Seq(Line))
      /\ ~dir => segs' = segs /\ single' = Put(single, l)
      /\ dir => /\ single' = single /\ segs # << >>
                /\ segs' = Append(Front(segs), Put(Last(segs), l))
  BY WriteAdds
<1>2. DiskTyped' BY <1>1 DEF DiskTyped
<1>3. CASE ~dir
  BY <1>1, <1>2, <1>3 DEF Layout
<1>4. CASE dir
  <2> DEFINE fs == Front(segs)
             p == Put(Last(segs), l)
  <2>1. /\ fs \in Seq(Seq(Line)) /\ Last(segs) \in Seq(Line)
        /\ Len(segs) \in Nat \ {0} /\ Len(fs) = Len(segs) - 1
        /\ \A i \in 1..(Len(segs) - 1) : fs[i] = segs[i]
    BY <1>1, <1>4, FrontAndLast DEF DiskTyped
  <2>2. p \in Seq(Line) BY <2>1, PutParsed
  <2>3. segs' = Append(fs, p) /\ single' = single BY <1>1, <1>4
  <2> HIDE DEF fs, p
  <2>4. Len(segs') = Len(segs)
        /\ \A i \in 1..(Len(segs) - 1) : segs'[i] = segs[i]
    BY <2>1, <2>2, <2>3
  <2>5. Len(segs') # Len(<< >>) BY <2>1, <2>4
  <2>6. segs' # << >> BY <2>5
  <2>7. \A i \in 1..(Len(segs) - 1) : Parsed(segs[i]) # << >> BY DEF Layout
  <2>8. \A i \in 1..(Len(segs') - 1) : Parsed(segs'[i]) # << >>
    BY <2>4, <2>7
  <2>9. single = << >> BY <1>4 DEF Layout
  <2> QED BY <1>2, <1>4, <2>3, <2>6, <2>8, <2>9 DEF Layout
<1> QED BY <1>3, <1>4 DEF DiskTyped

\* A cache that is extended by what is at its place in the log stays true.
CacheIn(c, log) ==
    \A p \in Procs : c[p].hot =>
        c[p].last = Len(c[p].events) /\ Begins(c[p].events, log)

LEMMA ExtendType ==
    ASSUME Types, NEW p \in Procs, NEW e \in Event
    PROVE  Extend(p, e) \in
              [Procs -> [hot : BOOLEAN, last : Nat, events : Seq(Line)]]
<1>1. e \in Line /\ e.seq \in Nat BY DEF Event, Line, Whole
<1>2. cache[p].events \in Seq(Line) BY DEF Types
<1>3. Extended(p, e) \in [hot : BOOLEAN, last : Nat, events : Seq(Line)]
  <2>1. Append(cache[p].events, e) \in Seq(Line) BY <1>1, <1>2
  <2> QED BY <1>1, <2>1 DEF Extended
<1>4. NoCache \in [hot : BOOLEAN, last : Nat, events : Seq(Line)]
  <2>1. << >> \in Seq(Line) OBVIOUS
  <2> QED BY <2>1 DEF NoCache
<1> QED BY <1>3, <1>4 DEF Types, Extend

LEMMA ExtendTrue ==
    ASSUME Types, NEW p \in Procs, NEW e \in Event, NEW log \in Seq(Event),
           CacheIn(cache, log), e.seq \in 1..Len(log), log[e.seq] = e
    PROVE  CacheIn(Extend(p, e), log)
<1> DEFINE c == cache[p]
<1>1. c.hot \in BOOLEAN /\ c.last \in Nat /\ c.events \in Seq(Line)
  /\ cache \in [Procs -> [hot : BOOLEAN, last : Nat, events : Seq(Line)]]
  /\ c \in [hot : BOOLEAN, last : Nat, events : Seq(Line)]
  BY DEF Types
<1>2. CASE ~c.hot BY <1>2 DEF Extend
<1>3. CASE c.hot /\ ~ (e.seq = c.last + 1)
  <2>1. Extend(p, e) = [cache EXCEPT ![p] = NoCache] BY <1>3 DEF Extend
  <2> QED BY <1>1, <2>1 DEF CacheIn, NoCache
<1>4. CASE c.hot /\ e.seq = c.last + 1
  <2>1. c.last = Len(c.events) /\ Begins(c.events, log)
    BY <1>4 DEF CacheIn
  <2> DEFINE d == Extended(p, e)
  <2>2. Extend(p, e) = [cache EXCEPT ![p] = d] BY <1>4 DEF Extend
  <2>3. d.last = e.seq /\ d.events = Append(c.events, e) BY DEF Extended
  <2> HIDE DEF c, d
  <2>4. e \in Line BY DEF Line
  <2>5. Len(Append(c.events, e)) = e.seq BY <1>1, <1>4, <2>1, <2>4
  <2>6. Begins(Append(c.events, e), log)
    <3>1. \A i \in 1..Len(c.events) : Append(c.events, e)[i] = log[i]
      BY <1>1, <2>1, <2>4 DEF Begins
    <3>2. Append(c.events, e)[e.seq] = log[e.seq]
      BY <1>1, <1>4, <2>1, <2>4
    <3>3. e.seq <= Len(log) BY DEF Begins
    <3>4. \A i \in 1..e.seq : i \in 1..Len(c.events) \/ i = e.seq
      BY <1>1, <1>4, <2>1
    <3> QED BY <2>5, <3>1, <3>2, <3>3, <3>4 DEF Begins
  <2>7. /\ Extend(p, e)[p] = d
        /\ \A q \in Procs : q # p => Extend(p, e)[q] = cache[q]
    BY <1>1, <2>2
  <2> QED BY <2>3, <2>5, <2>6, <2>7 DEF CacheIn
<1> QED BY <1>1, <1>2, <1>3, <1>4

\* The line that is written is the next event.
LEMMA NextLine ==
    ASSUME IInv, NEW w \in Writers, pc[w] = "write"
    PROVE  /\ Whole(NextSeq, ids + 1) \in Event
           /\ NextSeq = Len(OnDisk) + 1
           /\ ids + 1 \in 0..MaxEvents
           /\ lock = w /\ w # None /\ ~Moving
           /\ \A u \in Writers : u # w => ~Inside(u)
<1>1. lock = w /\ w # None /\ ~Moving /\ \A u \in Writers : u # w => ~Inside(u)
  BY Alone DEF Inside
<1>2. DiskTyped /\ Layout /\ SeqIsPosition
  BY DEF IInv, Types, DiskTyped, Numbered
<1>3. NextSeq = Len(OnDisk) + 1 BY <1>1, <1>2, NextSeqIsNext
<1>4. Len(OnDisk) \in Nat BY <1>2, OnDiskType
<1>5. ids < MaxEvents /\ Len(OnDisk) <= ids /\ ids \in 0..MaxEvents
  BY DEF IInv, Numbered, Inside, Types
<1>6. Len(OnDisk) + 1 \in 1..MaxEvents /\ ids + 1 \in 1..MaxEvents
  BY <1>4, <1>5, BoundAssumption
<1>7. Whole(NextSeq, ids + 1) \in Event BY <1>3, <1>6 DEF Event
<1> QED BY <1>1, <1>3, <1>6, <1>7

\* What a write leaves, whatever the line.
LEMMA WriteFrame ==
    ASSUME IInv, NEW w \in Writers, pc[w] = "write",
           NEW label \in {"idle", "extend"}, Goto(w, label), lock' = None,
           dir' = dir, ids' = ids + 1, torn' = 0 => torn = 0,
           NEW l \in Line, WriteActive(l),
           l.state = "whole" => l.seq = Len(OnDisk) + 1 /\ l.id = ids + 1
    PROVE  /\ FlockHeld' /\ Layout' /\ DiskTyped' /\ Numbered' /\ Grows
           /\ pc' \in [Threads -> WriterLabels \union ReaderLabels]
           /\ \A u \in Writers : pc'[u] \in WriterLabels
           /\ \A r \in Readers : pc'[r] \in ReaderLabels
           /\ pc'[w] = label
           /\ \A u \in Writers : u # w => pc'[u] = pc[u]
           /\ \A q \in Readers : pc'[q] = pc[q]
<1> USE Apart
<1>1. lock = w /\ w # None /\ ~Moving /\ \A u \in Writers : u # w => ~Inside(u)
  BY NextLine
<1>2. label \in WriterLabels BY DEF WriterLabels
<1>3. /\ pc' \in [Threads -> WriterLabels \union ReaderLabels]
      /\ \A u \in Writers : pc'[u] \in WriterLabels
      /\ \A r \in Readers : pc'[r] \in ReaderLabels
      /\ pc'[w] = label
      /\ \A u \in Writers : u # w => pc'[u] = pc[u]
      /\ \A q \in Readers : pc'[q] = pc[q]
  BY <1>2, WriterPc DEF IInv
<1>4. DiskTyped /\ Layout /\ SeqIsPosition /\ Len(OnDisk) <= ids
      /\ ids \in Nat
      /\ \A i \in DOMAIN OnDisk : OnDisk[i].id <= ids
  BY DEF IInv, Types, DiskTyped, Numbered
<1>5. OnDisk \in Seq(Event) BY <1>4, OnDiskType
<1>6. OnDisk' = IF l.state = "whole" /\ ~EndsTorn(Active)
                THEN Append(OnDisk, l) ELSE OnDisk
  BY <1>1, <1>4, WriteAdds
<1>7. FlockHeld' BY <1>1, <1>3 DEF FlockHeld, Inside
<1>8. \A u \in Writers : ~(Inside(u))' /\ pc'[u] # "create"
  BY <1>1, <1>3 DEF Inside
<1>9. ~Moving' BY DEF Moving
<1>10. Layout' /\ DiskTyped' /\ (single = << >> /\ dir => single' = << >>)
  BY <1>1, <1>4, <1>8, <1>9, WriteLayout
<1>11. CASE OnDisk' = OnDisk
  <2>a. \A i \in DOMAIN OnDisk : OnDisk[i].id <= ids + 1
    <3>1. \A i \in DOMAIN OnDisk : OnDisk[i] \in Event BY <1>5
    <3>2. \A e \in Event : e.id \in Nat BY DEF Event, Whole
    <3> QED BY <1>4, <3>1, <3>2
  <2>b. Len(OnDisk) <= ids + 1 BY <1>4, <1>5
  <2>c. SeqIsPosition' BY <1>4, <1>11 DEF SeqIsPosition
  <2>1. Numbered' BY <1>8, <1>11, <2>a, <2>b, <2>c DEF Numbered, Inside
  <2>2. Grows BY <1>5, <1>10, <1>11, BeginsSelf DEF Grows
  <2> QED BY <1>3, <1>7, <1>10, <2>1, <2>2
<1>12. CASE l.state = "whole" /\ OnDisk' = Append(OnDisk, l)
  <2>1. l \in Event BY <1>12, WholeIsEvent
  <2>2. Len(OnDisk) \in Nat /\ DOMAIN OnDisk = 1..Len(OnDisk) BY <1>5
  <2>3. \A i \in 1..Len(OnDisk) : OnDisk[i].seq = i /\ OnDisk[i].id <= ids
    BY <1>4, <2>2 DEF SeqIsPosition
  <2> DEFINE d == Append(OnDisk, l)
  <2>4. d \in Seq(Event) /\ Len(d) = Len(OnDisk) + 1 /\ DOMAIN d = 1..Len(d)
        /\ d[Len(OnDisk) + 1] = l
        /\ \A i \in 1..Len(OnDisk) : d[i] = OnDisk[i]
    BY <1>5, <2>1
  <2>5. OnDisk' = d BY <1>12
  <2> HIDE DEF d
  <2>6. \A i \in DOMAIN d : d[i].seq = i /\ d[i].id <= ids + 1
    <3> SUFFICES ASSUME NEW i \in DOMAIN d
                 PROVE  d[i].seq = i /\ d[i].id <= ids + 1
      OBVIOUS
    <3>1. CASE i = Len(OnDisk) + 1 BY <1>4, <1>12, <2>4, <3>1
    <3>2. CASE i # Len(OnDisk) + 1
      <4>1. i \in 1..Len(OnDisk) BY <2>2, <2>4, <3>2
      <4>2. OnDisk[i] \in Event BY <1>5, <4>1
      <4>3. OnDisk[i].id \in Nat BY <4>2 DEF Event, Whole
      <4> QED BY <1>4, <2>3, <2>4, <4>1, <4>3
    <3> QED BY <3>1, <3>2
  <2>7. SeqIsPosition' BY <2>5, <2>6 DEF SeqIsPosition
  <2>8. Len(d) <= ids + 1 BY <1>4, <2>2, <2>4
  <2>9. Numbered' BY <1>8, <2>5, <2>6, <2>7, <2>8 DEF Numbered, Inside
  <2>10. Begins(OnDisk, d) BY <1>5, <2>1, BeginsAppend DEF d
  <2>11. Grows BY <1>5, <1>10, <2>4, <2>5, <2>10 DEF Grows
  <2> QED BY <1>3, <1>7, <1>10, <2>9, <2>11
<1> QED BY <1>6, <1>11, <1>12

\* What was returned before a write still is.
LEMMA StillReturned ==
    ASSUME IInv, Grows, torn' = 0
    PROVE  /\ acked \subseteq ToSet(OnDisk')
           /\ \A u \in Writers : pc[u] = "extend" =>
                event[u].seq \in DOMAIN OnDisk' /\ OnDisk'[event[u].seq] = event[u]
<1>1. Len(OnDisk) \in Nat /\ Len(OnDisk') \in Nat /\ Len(OnDisk) <= Len(OnDisk')
      /\ (\A i \in 1..Len(OnDisk) : OnDisk[i] = OnDisk'[i])
      /\ DOMAIN OnDisk = 1..Len(OnDisk) /\ DOMAIN OnDisk' = 1..Len(OnDisk')
  BY DEF Grows, Begins
<1>2. torn = 0 BY DEF Grows
<1>3. \A i \in DOMAIN OnDisk : i \in DOMAIN OnDisk' /\ OnDisk[i] = OnDisk'[i]
  BY <1>1
<1>4. ToSet(OnDisk) \subseteq ToSet(OnDisk') BY <1>3 DEF ToSet
<1>5. /\ acked \subseteq ToSet(OnDisk)
      /\ \A u \in Writers : pc[u] = "extend" =>
            event[u].seq \in DOMAIN OnDisk /\ OnDisk[event[u].seq] = event[u]
  BY <1>2 DEF IInv, Returned
<1> QED BY <1>3, <1>4, <1>5

LEMMA WriteKeeps ==
    ASSUME IInv, NEW w \in Writers, Write(w)
    PROVE  IInv'
<1> USE Apart
<1>1. PICK l : l = Whole(NextSeq, ids + 1) OBVIOUS
<1>2. pc[w] = "write" BY DEF Write
<1>3. l \in Event /\ l \in Line /\ l.state = "whole" /\ l.seq = Len(OnDisk) + 1
      /\ l.id = ids + 1 /\ ids + 1 \in 0..MaxEvents /\ ~Moving
  BY <1>1, <1>2, NextLine, EventsAreLines DEF Whole
<1>4. /\ WriteActive(l) /\ ids' = ids + 1 /\ lock' = None /\ dir' = dir
      /\ building' = building /\ UNCHANGED reading /\ torn' = torn
      /\ crashes' = crashes
  BY <1>1 DEF Write
<1>5. \/ /\ Finish(w) /\ cache' = cache /\ event' = event /\ acked' = acked
         /\ accepted' = accepted
      \/ /\ acked' = acked \union {l}
         /\ accepted' = IF kind[w] = "human" THEN accepted \union {l} ELSE accepted
         /\ \/ cache' = Extend(HostOf[w], l) /\ Finish(w) /\ event' = event
            \/ /\ event' = [event EXCEPT ![w] = l]
               /\ Goto(w, "extend") /\ cache' = cache /\ kind' = kind
  BY <1>1 DEF Write
<1>6. PICK label \in {"idle", "extend"} :
         /\ Goto(w, label)
         /\ label = "idle" => event' = event
         /\ label = "extend" => event' = [event EXCEPT ![w] = l]
         /\ kind' = kind \/ kind' = [kind EXCEPT ![w] = "none"]
  BY <1>5 DEF Finish
<1>7. /\ FlockHeld' /\ Layout' /\ DiskTyped' /\ Numbered' /\ Grows
      /\ pc' \in [Threads -> WriterLabels \union ReaderLabels]
      /\ \A u \in Writers : pc'[u] \in WriterLabels
      /\ \A r \in Readers : pc'[r] \in ReaderLabels
      /\ pc'[w] = label
      /\ \A u \in Writers : u # w => pc'[u] = pc[u]
      /\ \A q \in Readers : pc'[q] = pc[q]
  BY <1>2, <1>3, <1>4, <1>6, WriteFrame
<1>8. acked' = acked \/ acked' = acked \union {l} BY <1>5
<1>9. event' \in [Writers -> Line \union {NoEvent}]
      /\ (\A u \in Writers : u # w => event'[u] = event[u])
      /\ (label = "extend" => event'[w] = l)
  <2>1. event \in [Writers -> Line \union {NoEvent}] BY DEF IInv, Types
  <2>2. CASE label = "idle" BY <1>6, <2>1, <2>2
  <2>3. CASE label = "extend"
    <3>1. event' = [event EXCEPT ![w] = l] BY <1>6, <2>3
    <3> QED BY <1>3, <2>1, <2>3, <3>1
  <2> QED BY <2>2, <2>3
<1>10. cache' \in [Procs -> [hot : BOOLEAN, last : Nat, events : Seq(Line)]]
  <2>1. Extend(HostOf[w], l) \in
           [Procs -> [hot : BOOLEAN, last : Nat, events : Seq(Line)]]
    BY <1>3, ExtendType DEF IInv
  <2>2. cache' = cache \/ cache' = Extend(HostOf[w], l) BY <1>5
  <2> QED BY <2>1, <2>2 DEF IInv, Types
<1>11. Types'
  <2>1. kind' \in [Writers -> Kinds \union {"none"}] BY <1>6 DEF IInv, Types
  <2>2. acked' \subseteq Event /\ accepted' \subseteq acked'
    BY <1>3, <1>5 DEF IInv, Types
  <2>3. \A u \in Writers : pc'[u] = "extend" => event'[u] \in Event
    BY <1>3, <1>6, <1>7, <1>9 DEF IInv, Types
  <2>4. ids' \in 0..MaxEvents /\ torn' \in Nat /\ crashes' \in Nat
    BY <1>3, <1>4 DEF IInv, Types
  <2> QED BY <1>4, <1>7, <1>9, <1>10, <2>1, <2>2, <2>3, <2>4
          DEF IInv, Types, DiskTyped, reading
<1>12. ASSUME torn = 0
       PROVE  /\ OnDisk' = Append(OnDisk, l)
              /\ \A i \in DOMAIN single' : single'[i].state = "whole"
              /\ \A i \in DOMAIN segs' : \A j \in DOMAIN segs'[i] :
                    segs'[i][j].state = "whole"
  <2>1. DiskTyped /\ Layout /\ Intact BY DEF IInv, Types, DiskTyped
  <2> QED BY <1>3, <1>4, <1>12, <2>1, WholeWrite
<1>13. Intact' BY <1>4, <1>12 DEF Intact
<1>14. ASSUME torn = 0
       PROVE  l.seq \in DOMAIN OnDisk' /\ OnDisk'[l.seq] = l /\ l \in ToSet(OnDisk')
  <2>1. OnDisk \in Seq(Event) BY OnDiskType DEF IInv, Types, DiskTyped
  <2> DEFINE d == Append(OnDisk, l)
  <2>2. l.seq \in DOMAIN d /\ d[l.seq] = l BY <1>3, <2>1
  <2>3. OnDisk' = d BY <1>12, <1>14
  <2> HIDE DEF d
  <2> QED BY <2>2, <2>3 DEF ToSet
<1>15. Returned'
  <2>1. ASSUME torn' = 0
        PROVE  /\ acked' \subseteq ToSet(OnDisk')
               /\ \A u \in Writers : pc'[u] = "extend" =>
                    /\ event'[u].seq \in DOMAIN OnDisk'
                    /\ OnDisk'[event'[u].seq] = event'[u]
    <3>1. /\ acked \subseteq ToSet(OnDisk')
          /\ \A u \in Writers : pc[u] = "extend" =>
               event[u].seq \in DOMAIN OnDisk' /\ OnDisk'[event[u].seq] = event[u]
      BY <1>7, <2>1, StillReturned
    <3>2. l.seq \in DOMAIN OnDisk' /\ OnDisk'[l.seq] = l /\ l \in ToSet(OnDisk')
      BY <1>4, <1>14, <2>1
    <3>3. acked' \subseteq ToSet(OnDisk') BY <1>8, <3>1, <3>2
    <3>4. ASSUME NEW u \in Writers, pc'[u] = "extend"
          PROVE  event'[u].seq \in DOMAIN OnDisk' /\ OnDisk'[event'[u].seq] = event'[u]
      <4>1. CASE u = w BY <1>6, <1>7, <1>9, <3>2, <3>4, <4>1
      <4>2. CASE u # w BY <1>7, <1>9, <3>1, <3>4, <4>2
      <4> QED BY <4>1, <4>2
    <3> QED BY <3>3, <3>4
  <2> QED BY <2>1 DEF Returned
<1>16. CacheIsPrefix'
  <2>1. CASE cache' = cache BY <1>7, <2>1, CacheGrows
  <2>2. CASE cache' = Extend(HostOf[w], l)
    <3> SUFFICES ASSUME torn' = 0
                 PROVE  \A p \in Procs : cache'[p].hot =>
                          /\ cache'[p].last = Len(cache'[p].events)
                          /\ Begins(cache'[p].events, OnDisk')
      BY DEF CacheIsPrefix
    <3>1. PICK d : d = OnDisk' OBVIOUS
    <3>2. d \in Seq(Event) /\ Begins(OnDisk, d) /\ OnDisk \in Seq(Event) /\ torn = 0
      BY <1>7, <3>1 DEF Grows
    <3>3. CacheIn(cache, d)
      <4> SUFFICES ASSUME NEW p \in Procs, cache[p].hot
                   PROVE  /\ cache[p].last = Len(cache[p].events)
                          /\ Begins(cache[p].events, d)
        BY DEF CacheIn
      <4>1. cache[p].last = Len(cache[p].events)
            /\ Begins(cache[p].events, OnDisk) /\ cache[p].events \in Seq(Line)
        BY <3>2 DEF IInv, CacheIsPrefix, Types
      <4>2. d \in Seq(Line) /\ OnDisk \in Seq(Line) BY <3>2, EventsAreLines
      <4> QED BY <3>2, <4>1, <4>2, BeginsTrans
    <3>4. l.seq \in 1..Len(d) /\ d[l.seq] = l
      BY <1>14, <3>1, <3>2
    <3>5. CacheIn(Extend(HostOf[w], l), d)
      BY <1>3, <3>2, <3>3, <3>4, ExtendTrue DEF IInv
    <3> QED BY <2>2, <3>1, <3>5 DEF CacheIn
  <2> QED BY <1>5, <2>1, <2>2
<1>17. ReadersTrue' BY <1>4, <1>7, ReadersGrow
<1> QED BY <1>7, <1>11, <1>13, <1>15, <1>16, <1>17 DEF IInv

LEMMA WriteFailsKeeps ==
    ASSUME IInv, NEW w \in Writers, WriteFails(w)
    PROVE  IInv'
<1> USE Apart
<1>1. PICK l : l = Whole(NextSeq, ids + 1) OBVIOUS
<1>2. pc[w] = "write" /\ Goto(w, "idle") /\ lock' = None /\ ids' = ids + 1
      /\ kind' = [kind EXCEPT ![w] = "none"]
      /\ UNCHANGED <<dir, cache, building, event, reading, acked, accepted,
                     crashes>>
  BY DEF WriteFails, Finish
<1>3. l \in Event /\ l \in Line /\ l.state = "whole" /\ l.seq = Len(OnDisk) + 1
      /\ l.id = ids + 1 /\ ids + 1 \in 0..MaxEvents /\ ~Moving /\ lock = w
      /\ w # None /\ \A u \in Writers : u # w => ~Inside(u)
  BY <1>1, <1>2, NextLine, EventsAreLines DEF Whole
<1>4. \/ UNCHANGED <<single, segs, torn>>
      \/ WriteActive(l) /\ torn' = torn
      \/ torn' = torn + 1 /\ WriteActive(Broken("torn"))
  BY <1>1 DEF WriteFails
<1>5. torn' \in Nat /\ (torn' = 0 => torn = 0)
  BY <1>4 DEF IInv, Types
<1>6. Broken("torn") \in Line /\ Broken("torn").state # "whole"
  BY DEF Broken, Line
<1>7. DiskTyped /\ Layout /\ Intact BY DEF IInv, Types, DiskTyped
<1>8. OnDisk \in Seq(Event) BY <1>7, OnDiskType
<1>9. /\ pc' \in [Threads -> WriterLabels \union ReaderLabels]
      /\ \A u \in Writers : pc'[u] \in WriterLabels
      /\ \A r \in Readers : pc'[r] \in ReaderLabels
      /\ pc'[w] = "idle"
      /\ \A u \in Writers : u # w => pc'[u] = pc[u]
      /\ \A q \in Readers : pc'[q] = pc[q]
  <2>1. "idle" \in WriterLabels BY DEF WriterLabels
  <2> QED BY <1>2, <2>1, WriterPc DEF IInv
<1>10. FlockHeld' /\ Layout' /\ DiskTyped' /\ Numbered' /\ Grows /\ Intact'
  <2>1. CASE UNCHANGED <<single, segs, torn>>
    <3>1. OnDisk' = OnDisk BY <2>1 DEF OnDisk
    <3>2. FlockHeld' BY <1>2, <1>3, <1>9 DEF FlockHeld, Inside
    <3>3. ~Moving' BY <1>2 DEF Moving
    <3>4. \A u \in Writers : ~(Inside(u))' /\ pc'[u] # "create"
      BY <1>3, <1>9 DEF Inside
    <3>5. Layout' BY <1>2, <1>3, <1>7, <2>1, <3>3, <3>4 DEF Layout
    <3>6. DiskTyped' BY <1>2, <1>7, <2>1 DEF DiskTyped
    <3>7. \A i \in DOMAIN OnDisk : OnDisk[i].id <= ids + 1
      <4>1. \A i \in DOMAIN OnDisk : OnDisk[i] \in Event BY <1>8
      <4>2. \A e \in Event : e.id \in Nat BY DEF Event, Whole
      <4> QED BY <4>1, <4>2 DEF IInv, Types, Numbered
    <3>8. Len(OnDisk) <= ids + 1 BY <1>8 DEF IInv, Types, Numbered
    <3>9. SeqIsPosition' BY <3>1 DEF IInv, Numbered, SeqIsPosition
    <3>10. Numbered'
      BY <1>2, <3>1, <3>4, <3>7, <3>8, <3>9 DEF Numbered, Inside
    <3>11. Grows BY <1>2, <1>8, <2>1, <3>1, BeginsSelf DEF Grows
    <3>12. Intact' BY <1>7, <2>1 DEF Intact
    <3> QED BY <3>2, <3>5, <3>6, <3>10, <3>11, <3>12
  <2>2. CASE WriteActive(l) /\ torn' = torn
    <3>1. FlockHeld' /\ Layout' /\ DiskTyped' /\ Numbered' /\ Grows
      BY <1>2, <1>3, <2>2, WriteFrame
    <3>2. Intact' BY <1>2, <1>3, <1>7, <2>2, WholeWrite DEF Intact
    <3> QED BY <3>1, <3>2
  <2>3. CASE torn' = torn + 1 /\ WriteActive(Broken("torn"))
    <3>1. FlockHeld' /\ Layout' /\ DiskTyped' /\ Numbered' /\ Grows
      BY <1>2, <1>5, <1>6, <2>3, WriteFrame
    <3>2. torn' # 0 BY <2>3 DEF IInv, Types
    <3> QED BY <3>1, <3>2 DEF Intact
  <2> QED BY <1>4, <2>1, <2>2, <2>3
<1>11. Types'
  <2>1. kind' \in [Writers -> Kinds \union {"none"}] BY <1>2 DEF IInv, Types
  <2> QED BY <1>2, <1>3, <1>5, <1>9, <1>10, <2>1
          DEF IInv, Types, DiskTyped, reading
<1>12. Returned' BY <1>2, <1>9, <1>10, StillReturned DEF Returned
<1>13. CacheIsPrefix' BY <1>2, <1>10, CacheGrows
<1>14. ReadersTrue' BY <1>2, <1>9, <1>10, ReadersGrow
<1> QED BY <1>10, <1>11, <1>12, <1>13, <1>14 DEF IInv

LEMMA ExtendCacheKeeps ==
    ASSUME IInv, NEW w \in Writers, ExtendCache(w)
    PROVE  IInv'
<1> USE Apart
<1>1. pc[w] = "extend" /\ cache' = Extend(HostOf[w], event[w])
      /\ event' = [event EXCEPT ![w] = NoEvent] /\ Goto(w, "idle")
      /\ kind' = [kind EXCEPT ![w] = "none"] /\ "idle" \in WriterLabels
      /\ UNCHANGED <<disk, lock, building, reading, history>>
  BY DEF ExtendCache, Finish, WriterLabels
<1>2. /\ single' = single /\ dir' = dir /\ segs' = segs /\ acked' = acked
      /\ accepted' = accepted /\ ids' = ids /\ torn' = torn
      /\ crashes' = crashes /\ OnDisk' = OnDisk
  BY <1>1 DEF disk, history, OnDisk
<1>3. /\ pc' \in [Threads -> WriterLabels \union ReaderLabels]
      /\ \A u \in Writers : pc'[u] \in WriterLabels
      /\ \A r \in Readers : pc'[r] \in ReaderLabels
      /\ pc'[w] = "idle"
      /\ \A u \in Writers : u # w => pc'[u] = pc[u]
      /\ \A q \in Readers : pc'[q] = pc[q]
  BY <1>1, WriterPc DEF IInv
<1>4. event[w] \in Event BY <1>1 DEF IInv, Types
<1>5. OnDisk \in Seq(Event) BY OnDiskType DEF IInv, Types, DiskTyped
<1>6. lock # w BY <1>1 DEF IInv, FlockHeld, Inside
<1>7. Types'
  <2>1. cache' \in [Procs -> [hot : BOOLEAN, last : Nat, events : Seq(Line)]]
    BY <1>1, <1>4, ExtendType DEF IInv
  <2>2. event' \in [Writers -> Line \union {NoEvent}]
        /\ \A u \in Writers : pc'[u] = "extend" => event'[u] \in Event
    BY <1>1, <1>3 DEF IInv, Types
  <2>3. kind' \in [Writers -> Kinds \union {"none"}] BY <1>1 DEF IInv, Types
  <2> QED BY <1>1, <1>2, <1>3, <2>1, <2>2, <2>3 DEF IInv, Types, reading
<1>8. FlockHeld' BY <1>1, <1>3, <1>6 DEF IInv, FlockHeld, Inside
<1>9. Moving' <=> Moving BY <1>1, <1>3, <1>6 DEF IInv, Types, Moving
<1>10. Layout' BY <1>1, <1>2, <1>3, <1>9 DEF IInv, Layout, Full
<1>11. Intact' BY <1>2 DEF IInv, Intact
<1>12. Numbered'
  <2>1. \A u \in Writers : u # w => kind'[u] = kind[u] BY <1>1 DEF IInv, Types
  <2> QED BY <1>2, <1>3, <2>1 DEF IInv, Numbered, SeqIsPosition, Inside
<1>13. Returned'
  <2>1. \A u \in Writers : u # w => event'[u] = event[u] BY <1>1 DEF IInv, Types
  <2> QED BY <1>2, <1>3, <2>1 DEF IInv, Returned
<1>14. CacheIsPrefix'
  <2> SUFFICES ASSUME torn = 0
               PROVE  CacheIn(Extend(HostOf[w], event[w]), OnDisk)
    BY <1>1, <1>2 DEF CacheIsPrefix, CacheIn
  <2>1. CacheIn(cache, OnDisk) BY DEF IInv, CacheIsPrefix, CacheIn
  <2>2. event[w].seq \in 1..Len(OnDisk) /\ OnDisk[event[w].seq] = event[w]
    BY <1>1, <1>5 DEF IInv, Returned
  <2>3. HostOf[w] \in Procs OBVIOUS
  <2> QED BY <1>4, <1>5, <2>1, <2>2, <2>3, ExtendTrue DEF IInv
<1>15. ReadersTrue'
  <2>1. Grows BY <1>2, <1>5, BeginsSelf DEF Grows
  <2> QED BY <1>1, <1>3, <2>1, ReadersGrow
<1> QED BY <1>7, <1>8, <1>10, <1>11, <1>12, <1>13, <1>14, <1>15 DEF IInv

LEMMA WriterStepKeeps ==
    ASSUME NoMoveFault, IInv, NEW w \in Writers, WriterStep(w)
    PROVE  IInv'
BY BeginKeeps, MakeDirKeeps, MoveKeeps, NextSegmentKeeps, CreateKeeps,
   RotateFailsKeeps, NoRotationKeeps, WriteKeeps, WriteFailsKeeps,
   ExtendCacheKeeps DEF WriterStep

-----------------------------------------------------------------------------
\* A process dies

LEMMA CrashKeeps ==
    ASSUME NoMoveFault, IInv, NEW p \in Procs, Crash(p)
    PROVE  IInv'
<1> USE Apart
<1>1. /\ \A t \in Threads : HostOf[t] = p => pc[t] # "move"
      /\ crashes' = crashes + 1
      /\ cache' = [cache EXCEPT ![p] = NoCache]
      /\ building' = [building EXCEPT ![p] = None]
      /\ lock' = IF lock # None /\ HostOf[lock] = p THEN None ELSE lock
      /\ pc' = [t \in Threads |-> IF HostOf[t] = p THEN "idle" ELSE pc[t]]
      /\ single' = single /\ dir' = dir /\ segs' = segs /\ acked' = acked
      /\ accepted' = accepted /\ ids' = ids /\ torn' = torn
  BY DEF Crash, NoMoveFault, disk
<1>2. /\ event' = [w \in Writers |-> IF HostOf[w] = p THEN NoEvent ELSE event[w]]
      /\ kind' = [w \in Writers |-> IF HostOf[w] = p THEN "none" ELSE kind[w]]
      /\ multi' = [r \in Readers |-> HostOf[r] # p /\ multi[r]]
      /\ seen' = [r \in Readers |-> IF HostOf[r] = p THEN 0 ELSE seen[r]]
      /\ got' = [r \in Readers |-> IF HostOf[r] = p THEN << >> ELSE got[r]]
      /\ began' = [r \in Readers |-> IF HostOf[r] = p THEN NoCall ELSE began[r]]
  BY DEF Crash
<1>3. \A t \in Threads : pc'[t] = IF HostOf[t] = p THEN "idle" ELSE pc[t]
  BY <1>1
<1>4. \A w \in Writers :
         IF HostOf[w] = p THEN pc'[w] = "idle"
         ELSE pc'[w] = pc[w] /\ kind'[w] = kind[w] /\ event'[w] = event[w]
  BY <1>2, <1>3
<1>5. OnDisk' = OnDisk BY <1>1 DEF OnDisk
<1>6. OnDisk \in Seq(Event) /\ Len(OnDisk) \in Nat
  BY OnDiskType DEF IInv, Types, DiskTyped
<1>7. << >> \in Seq(Line) /\ NoCall \in [events : Nat, moved : BOOLEAN]
  /\ NoCache \in [hot : BOOLEAN, last : Nat, events : Seq(Line)]
  <2>1. << >> \in Seq(Line) OBVIOUS
  <2> QED BY <2>1 DEF NoCall, NoCache
<1>8. Types'
  <2>1. pc' \in [Threads -> WriterLabels \union ReaderLabels]
        /\ (\A w \in Writers : pc'[w] \in WriterLabels)
        /\ (\A r \in Readers : pc'[r] \in ReaderLabels)
    BY <1>1, <1>3 DEF IInv, Types, WriterLabels, ReaderLabels
  <2>2. cache' \in [Procs -> [hot : BOOLEAN, last : Nat, events : Seq(Line)]]
        /\ building' \in [Procs -> Readers \union {None}]
        /\ lock' \in Writers \union {None}
    BY <1>1, <1>7 DEF IInv, Types
  <2>3. kind' \in [Writers -> Kinds \union {"none"}]
        /\ event' \in [Writers -> Line \union {NoEvent}]
        /\ \A w \in Writers : pc'[w] = "extend" => event'[w] \in Event
    BY <1>2, <1>4 DEF IInv, Types
  <2>4. multi' \in [Readers -> BOOLEAN] /\ seen' \in [Readers -> Nat]
        /\ got' \in [Readers -> Seq(Line)]
        /\ began' \in [Readers -> [events : Nat, moved : BOOLEAN]]
    BY <1>2, <1>7 DEF IInv, Types
  <2>5. single' \in Seq(Line) /\ dir' \in BOOLEAN /\ segs' \in Seq(Seq(Line))
        /\ acked' \subseteq Event /\ accepted' \subseteq acked'
        /\ ids' \in 0..MaxEvents /\ torn' \in Nat
    BY <1>1 DEF IInv, Types
  <2>6. crashes' \in Nat BY <1>1 DEF IInv, Types
  <2> QED BY <2>1, <2>2, <2>3, <2>4, <2>5, <2>6 DEF Types
<1>9. FlockHeld' BY <1>1, <1>4 DEF IInv, FlockHeld, Inside, Types
<1>10. Moving' <=> Moving
  <2>1. CASE lock = None BY <1>1, <2>1 DEF Moving
  <2>2. CASE lock # None /\ HostOf[lock] = p
    BY <1>1, <2>2 DEF Moving, IInv, Types
  <2>3. CASE lock # None /\ HostOf[lock] # p
    BY <1>1, <1>4, <2>3 DEF Moving, IInv, Types
  <2> QED BY <2>1, <2>2, <2>3
<1>11. Layout' BY <1>1, <1>4, <1>10 DEF IInv, Layout, Full
<1>12. Numbered' BY <1>1, <1>4, <1>5 DEF IInv, Numbered, SeqIsPosition, Inside
<1>13. Intact' BY <1>1 DEF IInv, Intact
<1>14. Returned' BY <1>1, <1>4, <1>5 DEF IInv, Returned
<1>15. CacheIsPrefix'
  <2>1. \A q \in Procs : cache'[q].hot => q # p /\ cache'[q] = cache[q]
    BY <1>1 DEF IInv, Types, NoCache
  <2> QED BY <1>1, <1>5, <2>1 DEF IInv, CacheIsPrefix
<1>16. ReadersTrue'
  <2> SUFFICES ASSUME NEW q \in Readers PROVE ReaderTrue(q)'
    BY DEF ReadersTrue
  <2>1. CASE HostOf[q] = p
    <3>1. pc'[q] = "idle" /\ multi'[q] = FALSE /\ began'[q] = NoCall
      BY <1>2, <1>3, <2>1
    <3>2. began'[q].events = 0 /\ began'[q].moved = FALSE
      BY <3>1 DEF NoCall
    <3>3. 0 <= Len(OnDisk') BY <1>5, <1>6
    <3> QED BY <3>1, <3>2, <3>3 DEF ReaderTrue
  <2>2. CASE HostOf[q] # p
    <3>1. multi'[q] = multi[q] /\ pc'[q] = pc[q] /\ seen'[q] = seen[q]
          /\ got'[q] = got[q] /\ began'[q] = began[q]
      BY <1>2, <1>3, <2>2 DEF IInv, Types
    <3> QED BY <1>1, <1>5, <3>1, ReaderSame DEF IInv, ReadersTrue
  <2> QED BY <2>1, <2>2
<1> QED BY <1>8, <1>9, <1>11, <1>12, <1>13, <1>14, <1>15, <1>16 DEF IInv

LEMMA StutterKeeps == IInv /\ UNCHANGED vars => IInv'
<1> SUFFICES ASSUME IInv, UNCHANGED vars PROVE IInv' OBVIOUS
<1>1. /\ single' = single /\ dir' = dir /\ segs' = segs /\ lock' = lock
      /\ cache' = cache /\ building' = building /\ pc' = pc /\ kind' = kind
      /\ event' = event /\ multi' = multi /\ seen' = seen /\ got' = got
      /\ began' = began /\ acked' = acked /\ accepted' = accepted
      /\ ids' = ids /\ torn' = torn /\ crashes' = crashes
  BY DEF vars, disk, reading, history
<1>2. OnDisk' = OnDisk BY <1>1 DEF OnDisk
<1>3. Types' BY <1>1 DEF IInv, Types
<1>4. FlockHeld' BY <1>1 DEF IInv, FlockHeld, Inside
<1>5. Layout' BY <1>1 DEF IInv, Layout, Moving, Full
<1>6. Numbered' BY <1>1, <1>2 DEF IInv, Numbered, SeqIsPosition, Inside
<1>7. Intact' BY <1>1 DEF IInv, Intact
<1>8. Returned' BY <1>1, <1>2 DEF IInv, Returned
<1>9. CacheIsPrefix' BY <1>1, <1>2, CacheSame DEF IInv
<1>10. ReadersTrue'
  <2> SUFFICES ASSUME NEW q \in Readers PROVE ReaderTrue(q)'
    BY DEF ReadersTrue
  <2> QED BY <1>1, <1>2, ReaderSame DEF IInv, ReadersTrue
<1> QED BY <1>3, <1>4, <1>5, <1>6, <1>7, <1>8, <1>9, <1>10 DEF IInv

LEMMA NextKeeps ==
    ASSUME NoMoveFault, IInv, [Next]_vars
    PROVE  IInv'
BY WriterStepKeeps, ReaderStepKeeps, CrashKeeps, StutterKeeps DEF Next

-----------------------------------------------------------------------------
\* The theorems

\* append, check_and_rotate, read_cached and the death of a process leave the
\* files, the flock, the caches and what the readers have seen consistent with
\* each other: what the theorems below follow from.
THEOREM StoreStaysConsistent ==
    ASSUME NoMoveFault
    PROVE  Spec => []IInv
<1>1. Init => IInv BY InitIInv
<1>2. IInv /\ [Next]_vars => IInv' BY NextKeeps
<1> QED BY <1>1, <1>2, PTL DEF Spec

\* _append_locked numbers the events 1, 2, 3, ... over all files, and an event
\* that append has returned can be read once no writer is inside, whatever was
\* rotated, failed or died in between.
THEOREM LogStaysSound ==
    ASSUME NoMoveFault
    PROVE  Spec => []LogIsSound
<1>1. ASSUME IInv PROVE LogIsSound
  <2>1. TypeOK
    <3>1. \A p \in Procs : cache[p].events \in Seq(Line)
             /\ building[p] \in Readers \union {None}
      BY <1>1 DEF IInv, Types
    <3>2. DOMAIN pc = Threads BY <1>1 DEF IInv, Types
    <3> QED BY <1>1, <3>1, <3>2 DEF IInv, Types, TypeOK
  <2>2. SeqIsPosition BY <1>1 DEF IInv, Numbered
  <2>3. ASSUME lock = None, torn = 0 PROVE acked \subseteq ToSet(Visible)
    <3>1. Visible = OnDisk
      BY <1>1, <2>3, NobodyMoves, AllVisible DEF IInv, Types, DiskTyped
    <3> QED BY <1>1, <2>3, <3>1 DEF IInv, Returned
  <2> QED BY <2>1, <2>2, <2>3 DEF LogIsSound, AckedIsReadable
<1>2. Spec => []IInv BY StoreStaysConsistent
<1> QED BY <1>1, <1>2, PTL

\* read_cached answers with a beginning of the log that has all events of
\* before the call, whoever appends, rotates, forks or dies while it probes,
\* waits, scans and stores; or with nothing, if it met the first rotation.
THEOREM CachedReadsAreExact ==
    ASSUME NoMoveFault
    PROVE  Spec => []CachedReadIsExact
<1>1. ASSUME IInv PROVE CachedReadIsExact
  <2> SUFFICES ASSUME NEW r \in Readers, pc[r] = "return", torn = 0
               PROVE  \/ /\ IsPrefix(got[r], OnDisk)
                         /\ Len(got[r]) >= began[r].events
                      \/ got[r] = << >> /\ dir /\ ~began[r].moved
    BY DEF CachedReadIsExact
  <2>1. /\ Begins(got[r], OnDisk)
        /\ \/ Len(got[r]) >= began[r].events
           \/ got[r] = << >> /\ Met(r)
    BY <1>1 DEF IInv, ReadersTrue, ReaderTrue
  <2>2. got[r] \in Seq(Line) BY <1>1 DEF IInv, Types
  <2>3. OnDisk \in Seq(Line)
    BY <1>1, OnDiskType, EventsAreLines DEF IInv, Types, DiskTyped
  <2>4. IsPrefix(got[r], OnDisk) BY <2>1, <2>2, <2>3, BeginsIsPrefix
  <2> QED BY <2>1, <2>4 DEF Met
<1>2. Spec => []IInv BY StoreStaysConsistent
<1> QED BY <1>1, <1>2, PTL

\* All steps but the writes leave the log and what was accepted alone.
LEMMA OnlyWritesAdd ==
    ASSUME IInv, [Next]_vars,
           \A w \in Writers : ~Write(w) /\ ~WriteFails(w)
    PROVE  OnDisk' = OnDisk /\ accepted' = accepted
<1>1. CASE UNCHANGED vars BY <1>1 DEF vars, disk, history, OnDisk
<1>2. ASSUME NEW w \in Writers, WriterStep(w)
      PROVE  OnDisk' = OnDisk /\ accepted' = accepted
  <2>1. CASE Begin(w) BY <2>1 DEF Begin, disk, history, OnDisk
  <2>2. CASE MakeDir(w) BY <2>2 DEF MakeDir, history, OnDisk
  <2>3. CASE Move(w) BY <2>3, MoveKeepsEvents DEF Move, history
  <2>4. CASE NextSegment(w) BY <2>4 DEF NextSegment, disk, history, OnDisk
  <2>5. CASE Create(w) BY <2>5, CreateKeepsEvents DEF Create, history
  <2>6. CASE RotateFails(w) BY <2>6 DEF RotateFails, disk, history, OnDisk
  <2>7. CASE NoRotation(w) BY <2>7 DEF NoRotation, disk, history, OnDisk
  <2>8. CASE ExtendCache(w) BY <2>8 DEF ExtendCache, disk, history, OnDisk
  <2> QED BY <1>2, <2>1, <2>2, <2>3, <2>4, <2>5, <2>6, <2>7, <2>8
          DEF WriterStep
<1>3. ASSUME NEW r \in Readers, ReaderStep(r)
      PROVE  OnDisk' = OnDisk /\ accepted' = accepted
  <2>1. UNCHANGED <<disk, history>>
    BY <1>3 DEF ReaderStep, StartRead, Look, Tail_, Match, TakeBuildLock, Scan,
                After, Store, Return
  <2> QED BY <2>1 DEF disk, history, OnDisk
<1>4. ASSUME NEW p \in Procs, Crash(p)
      PROVE  OnDisk' = OnDisk /\ accepted' = accepted
  BY <1>4 DEF Crash, disk, OnDisk
<1> QED BY <1>1, <1>2, <1>3, <1>4 DEF Next

\* A line that joins the log is an event that was not in it.
LEMMA AddedIsNew ==
    ASSUME IInv, NEW l \in Event, l.id = ids + 1, OnDisk' = Append(OnDisk, l),
           accepted' \in {accepted, accepted \union {l}}
    PROVE  Log!Add
<1>1. OnDisk \in Seq(Event) BY OnDiskType DEF IInv, Types, DiskTyped
<1>2. ids \in Nat /\ \A i \in DOMAIN OnDisk : OnDisk[i].id <= ids
  BY DEF IInv, Types, Numbered
<1>3. l \notin Log!Logged
  <2>1. \A i \in DOMAIN OnDisk : OnDisk[i].id # ids + 1
    <3>1. \A e \in Event : e.id \in Nat BY DEF Event, Whole
    <3>2. \A i \in DOMAIN OnDisk : OnDisk[i].id \in Nat BY <1>1, <3>1
    <3> QED BY <1>2, <3>2
  <2> QED BY <2>1 DEF Log!Logged
<1>4. Len(Append(OnDisk, l)) = Len(OnDisk) + 1 BY <1>1
<1>5. Len(OnDisk') = Len(OnDisk) + 1 BY <1>4
<1> QED BY <1>3, <1>5 DEF Log!Add

LEMMA WriteAddsOne ==
    ASSUME IInv, NEW w \in Writers, Write(w)
    PROVE  Log!Add \/ (OnDisk' = OnDisk /\ accepted' = accepted)
<1>1. PICK l : l = Whole(NextSeq, ids + 1) OBVIOUS
<1>2. pc[w] = "write" BY DEF Write
<1>3. l \in Event /\ l \in Line /\ l.state = "whole" /\ l.id = ids + 1 /\ ~Moving
  BY <1>1, <1>2, NextLine, EventsAreLines DEF Whole
<1>4. DiskTyped /\ Layout BY DEF IInv, Types, DiskTyped
<1>5. WriteActive(l) BY <1>1 DEF Write
<1>6. OnDisk' = IF ~EndsTorn(Active) THEN Append(OnDisk, l) ELSE OnDisk
  BY <1>3, <1>4, <1>5, WriteAdds
<1>7. \/ accepted' = accepted
      \/ ReadBack /\ accepted' = accepted \union {l}
  BY <1>1 DEF Write
<1>8. CASE ~EndsTorn(Active)
  BY <1>3, <1>6, <1>7, <1>8, AddedIsNew
<1>9. CASE EndsTorn(Active) /\ accepted' = accepted
  BY <1>6, <1>9
<1>10. ReadBack => ~EndsTorn(Active) BY <1>3, <1>4, ReadBackWhole
<1> QED BY <1>7, <1>8, <1>9, <1>10

LEMMA WriteFailsAddsOne ==
    ASSUME IInv, NEW w \in Writers, WriteFails(w)
    PROVE  Log!Add \/ (OnDisk' = OnDisk /\ accepted' = accepted)
<1>1. PICK l : l = Whole(NextSeq, ids + 1) OBVIOUS
<1>2. pc[w] = "write" /\ accepted' = accepted BY DEF WriteFails
<1>3. l \in Event /\ l \in Line /\ l.state = "whole" /\ l.id = ids + 1 /\ ~Moving
  BY <1>1, <1>2, NextLine, EventsAreLines DEF Whole
<1>4. DiskTyped /\ Layout BY DEF IInv, Types, DiskTyped
<1>5. CASE UNCHANGED <<single, segs>>
  BY <1>2, <1>5 DEF OnDisk
<1>6. CASE WriteActive(l)
  <2>1. OnDisk' = IF ~EndsTorn(Active) THEN Append(OnDisk, l) ELSE OnDisk
    BY <1>3, <1>4, <1>6, WriteAdds
  <2> QED BY <1>2, <1>3, <2>1, AddedIsNew
<1>7. CASE WriteActive(Broken("torn"))
  <2>1. Broken("torn") \in Line /\ Broken("torn").state # "whole"
    BY DEF Line, Broken
  <2>2. OnDisk' = OnDisk BY <1>3, <1>4, <1>7, <2>1, WriteAdds
  <2> QED BY <1>2, <2>2
<1> QED BY <1>1, <1>5, <1>6, <1>7 DEF WriteFails

\* Taken together, the files of a session are one sequence that only grows by new
\* events, over segments, crashes and torn lines, and a human message that was
\* read back and acknowledged is one of them.
THEOREM StoreImplementsLog ==
    ASSUME NoMoveFault
    PROVE  Spec => KeepsLog
<1>1. ASSUME Init PROVE Log!Init
  <2>1. OnDisk = << >> \o << >> BY <1>1, ParsedEmpty, EventsEmpty DEF Init, OnDisk
  <2>2. << >> \o << >> = << >> OBVIOUS
  <2> QED BY <1>1, <2>1, <2>2 DEF Init, Log!Init
<1>2. ASSUME IInv, [Next]_vars PROVE [Log!Next]_(Log!vars)
  <2>1. CASE \E w \in Writers : Write(w)
    BY <1>2, <2>1, WriteAddsOne DEF Log!Next, Log!vars
  <2>2. CASE \E w \in Writers : WriteFails(w)
    BY <1>2, <2>2, WriteFailsAddsOne DEF Log!Next, Log!vars
  <2>3. CASE \A w \in Writers : ~Write(w) /\ ~WriteFails(w)
    BY <1>2, <2>3, OnlyWritesAdd DEF Log!vars
  <2> QED BY <2>1, <2>2, <2>3
<1>3. Spec => []IInv BY StoreStaysConsistent
<1>4. IInv /\ [Next]_vars => [Log!Next]_(Log!vars) BY <1>2
<1> QED BY <1>1, <1>3, <1>4, PTL DEF Spec, KeepsLog, Log!Spec
=============================================================================
