--------------------------- MODULE AuthorityProofs ---------------------------
(***************************************************************************)
(* Theorems about the two halves of write authority: FleetLease, who holds *)
(* the lease of a run workspace, for every set of processes, every choice  *)
(* of windows and every bound on generations; and EffectFence, what a tool *)
(* call may still change, for every set of runs, every placement of them   *)
(* in sessions and processes, and any number of calls.  The two share no   *)
(* variable; each half uses the assumptions of its own module.             *)
(***************************************************************************)
EXTENDS FleetLease, EffectFence, SequenceTheorems, TLAPS

-----------------------------------------------------------------------------
\* FleetLease: shapes

Lease == [state : LeaseStates, left : Windows, takeover : Takeovers]
Fact == [gen : Nat, event : Events]
Seen == [gen : Nat, state : LeaseStates \union {"none"}, left : Windows]
Labels == {"idle", "observed", "begun", "working", "beating", "settling",
           "finishing"}

\* What is indexed by 1..n is a sequence.
LEMMA FunctionIsSeq ==
    ASSUME NEW S, NEW n \in Nat, NEW f \in [1..n -> S]
    PROVE  f \in Seq(S) /\ Len(f) = n
<1>1. f \in Seq(S) BY SeqDef
<1>2. DOMAIN f = 1..Len(f) /\ Len(f) \in Nat BY <1>1, LenProperties
<1>3. DOMAIN f = 1..n OBVIOUS
<1> QED BY <1>1, <1>2, <1>3

LEMMA LeasesType ==
    ASSUME TypeOK
    PROVE  /\ leases \in Seq(Lease)
           /\ Newest \in Nat
           /\ DOMAIN leases = 1..Newest
           /\ \A g \in 1..Newest : leases[g] \in Lease
<1>1. leases \in Seq(Lease) BY DEF TypeOK, Lease
<1> QED BY <1>1, LenProperties, ElementOfSeq DEF Newest

\* A lease changed at its newest generation is still a sequence of leases.
LEMMA SupersededType ==
    ASSUME TypeOK
    PROVE  /\ Superseded \in Seq(Lease)
           /\ Len(Superseded) = Newest
           /\ \A g \in 1..Newest :
                 Superseded[g] = IF g = Newest
                                   THEN [leases[g] EXCEPT !.state = "superseded"]
                                   ELSE leases[g]
<1>1. leases \in Seq(Lease) BY DEF TypeOK, Lease
<1>2. CASE Newest = 0
  <2>1. leases = << >> BY <1>1, <1>2 DEF Newest
  <2>2. Superseded = << >> BY <2>1 DEF Superseded, Newest
  <2> QED BY <2>1, <2>2, <1>2 DEF Newest
<1>3. CASE Newest # 0
  <2>1. Newest \in 1..Len(leases) BY <1>1, <1>3 DEF Newest
  <2>2. leases[Newest] \in Lease BY <1>1, <2>1, ElementOfSeq
  <2>3. [leases[Newest] EXCEPT !.state = "superseded"] \in Lease
    BY <2>2 DEF Lease, LeaseStates
  <2>4. Superseded = [leases EXCEPT ![Newest] = [leases[Newest] EXCEPT !.state = "superseded"]]
    BY <2>1 DEF Superseded
  <2> DEFINE e == [leases[Newest] EXCEPT !.state = "superseded"]
  <2>5. e \in Lease BY <2>3
  <2>6. Superseded = [leases EXCEPT ![Newest] = e] BY <2>4
  <2> HIDE DEF e
  <2>7. /\ Superseded \in Seq(Lease)
        /\ Len(Superseded) = Len(leases)
        /\ \A j \in 1..Len(leases) : Superseded[j] = IF j = Newest THEN e ELSE leases[j]
    BY <1>1, <2>1, <2>5, <2>6, ExceptSeq
  <2> QED BY <2>7 DEF e, Newest
<1> QED BY <1>2, <1>3

\* A minted successor keeps the leases a sequence and is the new newest one.
LEMMA MintType ==
    ASSUME TypeOK, NEW c \in Coords, NEW old \in Seq(Lease),
           NEW takeover \in Takeovers, Mint(c, old, takeover)
    PROVE  /\ leases' \in Seq(Lease)
           /\ Len(leases') = Len(old) + 1
           /\ leases'[Len(old) + 1] = NewLease(c, takeover)
           /\ \A g \in 1..Len(old) : leases'[g] = old[g]
           /\ handle' \in [Coords -> Nat]
           /\ settlement' = settlement
           /\ facts' = facts
<1>1. NewLease(c, takeover) \in Lease
  BY TtlAssumption DEF NewLease, Lease, LeaseStates, Windows
<1>2. /\ leases' = Append(old, NewLease(c, takeover))
      /\ handle' = [handle EXCEPT ![c] = Newest + 1]
      /\ UNCHANGED <<settlement, facts>>
  BY DEF Mint
<1>3. Newest \in Nat BY DEF TypeOK, Newest
<1>4. handle' \in [Coords -> Nat] BY <1>2, <1>3 DEF TypeOK
<1>5. /\ leases' \in Seq(Lease)
      /\ Len(leases') = Len(old) + 1
      /\ leases'[Len(old) + 1] = NewLease(c, takeover)
      /\ \A g \in 1..Len(old) : leases'[g] = old[g]
  BY <1>1, <1>2
<1> QED BY <1>2, <1>4, <1>5

\* A recorded fact keeps the facts a sequence.
LEMMA FactType ==
    ASSUME TypeOK, NEW g \in Nat, NEW event \in Events, RecordFact(g, event)
    PROVE  /\ facts' \in Seq(Fact)
           /\ Len(facts') = Len(facts) + 1
           /\ facts'[Len(facts) + 1] = [gen |-> g, event |-> event]
           /\ \A i \in 1..Len(facts) : facts'[i] = facts[i]
           /\ UNCHANGED <<leases, settlement>>
<1>1. [gen |-> g, event |-> event] \in Fact BY DEF Fact
<1>2. facts \in Seq(Fact) BY DEF TypeOK, Fact
<1>3. facts' = Append(facts, [gen |-> g, event |-> event]) BY DEF RecordFact
<1> QED BY <1>1, <1>2, <1>3 DEF RecordFact

\* Leaving and moving on keep the process state well typed.
LEMMA LeaveType ==
    ASSUME TypeOK, NEW c \in Coords, Leave(c)
    PROVE  /\ pc' \in [Coords -> Labels]
           /\ handle' \in [Coords -> Nat]
           /\ seen' \in [Coords -> Seen]
<1>1. NoLease \in Seen BY DEF NoLease, Seen, Windows
<1> QED BY <1>1 DEF TypeOK, Leave, Goto, Labels, Seen

LEMMA GotoType ==
    ASSUME TypeOK, NEW c \in Coords, NEW label \in Labels, Goto(c, label)
    PROVE  pc' \in [Coords -> Labels]
BY DEF TypeOK, Goto, Labels

\* The state of disk and processes keeps its shape.
LEMMA TypeInit == Init => TypeOK
<1>1. NoLease \in Seen BY DEF NoLease, Seen, Windows
<1> QED BY <1>1 DEF Init, TypeOK, Seen

LEMMA LessType == \A w \in Windows : Less(w) \in Windows
BY NoExpiryAssumption DEF Less, Windows

LEMMA TypeStep == TypeOK /\ [Next]_vars => TypeOK'
<1> SUFFICES ASSUME TypeOK, [Next]_vars PROVE TypeOK'
  OBVIOUS
<1>0. /\ leases \in Seq(Lease) /\ Newest \in Nat
      /\ \A g \in 1..Newest : leases[g] \in Lease
  BY LeasesType
<1> USE DEF Lease, Fact, Seen, Labels
<1>1. CASE UNCHANGED vars
  BY <1>1 DEF TypeOK, vars
<1>2. CASE Tick
  <2>1. \A g \in DOMAIN leases : [leases[g] EXCEPT !.left = Less(@)] \in Lease
    BY <1>0, LessType DEF Newest
  <2>2. leases' \in Seq(Lease)
    <3> DEFINE f == [g \in DOMAIN leases |-> [leases[g] EXCEPT !.left = Less(@)]]
    <3>1. DOMAIN leases = 1..Newest BY <1>0 DEF Newest
    <3>2. f \in [1..Newest -> Lease] BY <2>1, <3>1
    <3>3. leases' = f BY <1>2 DEF Tick
    <3> HIDE DEF f
    <3> QED BY <3>2, <3>3, <1>0, FunctionIsSeq
  <2>3. seen' \in [Coords -> Seen]
    BY <1>2, LessType DEF Tick, TypeOK
  <2> QED BY <1>2, <2>2, <2>3 DEF Tick, TypeOK
<1>3. ASSUME NEW c \in Coords, CurrentLease(c) PROVE TypeOK'
  BY <1>3, <1>0 DEF CurrentLease, Goto, TypeOK, disk, NoLease, Windows
<1>4. ASSUME NEW c \in Coords, BeginRefused(c) PROVE TypeOK'
  BY <1>4, LeaveType DEF BeginRefused, TypeOK, disk
<1>5. ASSUME NEW c \in Coords, AcquireLease(c) PROVE TypeOK'
  <2>1. CASE MayAcquire
    <3>1. Mint(c, leases, "none") /\ Goto(c, "begun") /\ UNCHANGED <<seen, fence>>
      BY <1>5, <2>1 DEF AcquireLease
    <3> QED BY <3>1, <1>0, MintType, GotoType DEF TypeOK, Takeovers
  <2>2. CASE ~MayAcquire
    BY <1>5, <2>2, LeaveType DEF AcquireLease, TypeOK, disk
  <2> QED BY <2>1, <2>2
<1>6. ASSUME NEW c \in Coords, ReclaimIfExpired(c) PROVE TypeOK'
  <2>1. CASE MayReclaimExpired(seen[c].gen)
    <3>1. Mint(c, Superseded, "expiry_reclaim") /\ Goto(c, "begun") /\ UNCHANGED <<seen, fence>>
      BY <1>6, <2>1 DEF ReclaimIfExpired
    <3> QED BY <3>1, SupersededType, MintType, GotoType DEF TypeOK, Takeovers
  <2>2. CASE ~MayReclaimExpired(seen[c].gen)
    BY <1>6, <2>2, LeaveType DEF ReclaimIfExpired, TypeOK, disk
  <2> QED BY <2>1, <2>2
<1>7. ASSUME NEW c \in Coords, ForceReclaim(c) PROVE TypeOK'
  <2>1. CASE MayReclaim(seen[c].gen)
    <3>1. /\ Mint(c, Superseded, "operator_force_reclaim")
          /\ Goto(c, "working") /\ UNCHANGED <<seen, fence>>
      BY <1>7, <2>1 DEF ForceReclaim
    <3> QED BY <3>1, SupersededType, MintType, GotoType DEF TypeOK, Takeovers
  <2>2. CASE ~MayReclaim(seen[c].gen)
    BY <1>7, <2>2, LeaveType DEF ForceReclaim, TypeOK, disk
  <2> QED BY <2>1, <2>2
<1>8. ASSUME NEW c \in Coords, Reclaim(c) PROVE TypeOK'
  <2>1. Mint(c, Superseded, "none") /\ Goto(c, "working") /\ UNCHANGED <<seen, fence>>
    BY <1>8 DEF Reclaim
  <2> QED BY <2>1, SupersededType, MintType, GotoType DEF TypeOK, Takeovers
<1>8a. ASSUME NEW c \in Coords, ReclaimRunIfExpired(c) PROVE TypeOK'
  <2>1. /\ Mint(c, Superseded, "expiry_reclaim")
        /\ Goto(c, "working") /\ UNCHANGED <<seen, fence>>
    BY <1>8a DEF ReclaimRunIfExpired
  <2> QED BY <2>1, SupersededType, MintType, GotoType DEF TypeOK, Takeovers
<1>9. ASSUME NEW c \in Coords, RunStarted(c) PROVE TypeOK'
  <2>1. handle[c] \in Nat BY DEF TypeOK
  <2>2. CASE RequireCurrent(handle[c])
    <3>1. RecordFact(handle[c], "run_started") /\ Goto(c, "working") /\ UNCHANGED <<seen, handle, fence>>
      BY <1>9, <2>2 DEF RunStarted
    <3> QED BY <2>1, <3>1, FactType, GotoType DEF TypeOK, Events
  <2>3. CASE ~RequireCurrent(handle[c])
    BY <1>9, <2>3, GotoType DEF RunStarted, TypeOK, disk
  <2> QED BY <2>2, <2>3
<1>10. ASSUME NEW c \in Coords, RenewFleetRun(c) PROVE TypeOK'
  <2>1. Goto(c, "beating") /\ UNCHANGED <<settlement, facts, seen, handle>>
    BY <1>10 DEF RenewFleetRun
  <2>2. CASE UNCHANGED leases
    BY <1>10, <2>1, <2>2, GotoType DEF RenewFleetRun, TypeOK
  <2>3. CASE RequireCurrent(handle[c]) /\ Ttl[c] # NoExpiry
    <3> DEFINE g == handle[c]
               e == [leases[g] EXCEPT !.left = IF @ = NoExpiry THEN NoExpiry ELSE Ttl[c]]
    <3>1. g \in 1..Newest BY <2>3, <1>0 DEF RequireCurrent
    <3>2. e \in Lease BY <1>0, <3>1, TtlAssumption DEF Windows
    <3>3. leases' = [leases EXCEPT ![g] = e] /\ UNCHANGED fence
      BY <1>10, <2>3 DEF RenewFleetRun
    <3> HIDE DEF e
    <3>4. leases' \in Seq(Lease) BY <1>0, <3>1, <3>2, <3>3, ExceptSeq DEF Newest
    <3> QED BY <3>3, <3>4, <2>1, GotoType DEF TypeOK
  <2> QED BY <1>10, <2>2, <2>3 DEF RenewFleetRun
<1>11. ASSUME NEW c \in Coords, FenceCheck(c) PROVE TypeOK'
  BY <1>11, GotoType DEF FenceCheck, TypeOK, disk
<1>12. ASSUME NEW c \in Coords, RunEnds(c) PROVE TypeOK'
  BY <1>12, GotoType DEF RunEnds, TypeOK, disk
<1>13. ASSUME NEW c \in Coords, RunSettled(c) PROVE TypeOK'
  <2>1. handle[c] \in Nat BY DEF TypeOK
  <2>2. CASE RequireCurrent(handle[c])
    <3>1. RecordFact(handle[c], "run_settled") /\ Goto(c, "finishing") /\ UNCHANGED <<seen, handle, fence>>
      BY <1>13, <2>2 DEF RunSettled
    <3> QED BY <2>1, <3>1, FactType, GotoType DEF TypeOK, Events
  <2>3. CASE ~RequireCurrent(handle[c])
    BY <1>13, <2>3, LeaveType DEF RunSettled, TypeOK, disk
  <2> QED BY <2>2, <2>3
<1>14. ASSUME NEW c \in Coords, FinishRun(c) PROVE TypeOK'
  <2>1. Leave(c) /\ UNCHANGED fence BY <1>14 DEF FinishRun
  <2>2. CASE MaySettle(handle[c])
    <3> DEFINE g == handle[c]
               e == [leases[g] EXCEPT !.state = "settled"]
    <3>1. g \in 1..Newest BY <2>2, <1>0 DEF MaySettle
    <3>2. e \in Lease BY <1>0, <3>1 DEF LeaseStates
    <3>3. /\ leases' = [leases EXCEPT ![g] = e]
          /\ settlement' = g /\ UNCHANGED facts
      BY <1>14, <2>2 DEF FinishRun, SettledLeases
    <3> HIDE DEF e
    <3>4. leases' \in Seq(Lease) BY <1>0, <3>1, <3>2, <3>3, ExceptSeq DEF Newest
    <3> QED BY <3>1, <3>3, <3>4, <2>1, LeaveType, <1>0 DEF TypeOK
  <2>3. CASE ~MaySettle(handle[c])
    BY <1>14, <2>1, <2>3, LeaveType DEF FinishRun, TypeOK, disk
  <2> QED BY <2>2, <2>3
<1>15. ASSUME NEW c \in Coords, Crash(c) PROVE TypeOK'
  BY <1>15, LeaveType DEF Crash, TypeOK, disk
<1>16. ASSUME NEW c \in Coords, StoreError(c) PROVE TypeOK'
  <2>1. AfterError(pc[c]) \in Labels BY DEF AfterError
  <2>2. CASE AfterError(pc[c]) = "idle"
    BY <1>16, <2>2, LeaveType DEF StoreError, TypeOK, disk
  <2>3. CASE AfterError(pc[c]) # "idle"
    BY <1>16, <2>1, <2>3, GotoType DEF StoreError, TypeOK, disk
  <2> QED BY <2>2, <2>3
<1> QED BY <1>1, <1>2, <1>3, <1>4, <1>5, <1>6, <1>7, <1>8, <1>8a, <1>9,
           <1>10, <1>11, <1>12, <1>13, <1>14, <1>15, <1>16
        DEF Next, Step, Operator, Fault

\* Disk and process state keep their shape whatever the processes do.
THEOREM TypeCorrect == Spec => []TypeOK
BY TypeInit, TypeStep, PTL DEF Spec

-----------------------------------------------------------------------------
(***************************************************************************)
(* Every step changes disk in one of four ways.                            *)
(***************************************************************************)

\* Windows may move, nothing else.
SameStates ==
    /\ Len(leases') = Newest
    /\ \A g \in 1..Newest : leases'[g].state = leases[g].state
    /\ UNCHANGED <<settlement, facts>>

\* A process without a lease gets the next generation.
Granted(c) ==
    /\ Newest = 0 \/ leases[Newest].state # "settled"
    /\ Len(leases') = Newest + 1
    /\ leases'[Newest + 1].state = "active"
    /\ \A g \in 1..Newest : leases'[g].state =
          IF g = Newest THEN "superseded" ELSE leases[g].state
    /\ UNCHANGED <<settlement, facts>>
    /\ pc[c] \in {"idle", "observed"}
    /\ pc' = [pc EXCEPT ![c] = pc'[c]]
    /\ pc'[c] \in {"begun", "working"}
    /\ handle' = [handle EXCEPT ![c] = Newest + 1]
    /\ UNCHANGED seen

\* The carrier of the newest generation writes a fact.
Told(c) ==
    /\ RequireCurrent(handle[c])
    /\ \/ /\ pc[c] = "begun" /\ pc' = [pc EXCEPT ![c] = "working"]
          /\ facts' = Append(facts, [gen |-> handle[c], event |-> "run_started"])
       \/ /\ pc[c] = "settling" /\ pc' = [pc EXCEPT ![c] = "finishing"]
          /\ facts' = Append(facts, [gen |-> handle[c], event |-> "run_settled"])
    /\ UNCHANGED <<leases, settlement, handle, seen>>

\* The carrier of the newest generation settles the run.
Closed(c) ==
    /\ pc[c] = "finishing"
    /\ MaySettle(handle[c])
    /\ settlement' = handle[c]
    /\ Len(leases') = Newest
    /\ \A g \in 1..Newest : leases'[g].state =
          IF g = handle[c] THEN "settled" ELSE leases[g].state
    /\ UNCHANGED facts
    /\ Leave(c)

\* A process moves on without touching disk: it gives its handle up, or keeps
\* it and is not about to write what it has not earned.
Moved(c) ==
    \/ Leave(c)
    \/ /\ pc[c] = "idle"
       /\ pc' = [pc EXCEPT ![c] = "observed"]
       /\ UNCHANGED handle
       /\ \E s \in Seen : /\ seen' = [seen EXCEPT ![c] = s]
                          /\ s.gen <= Newest
                          /\ s.state # "none" => s.gen # 0
    \/ /\ \/ pc[c] = "begun" /\ pc' = [pc EXCEPT ![c] = "settling"]
          \/ /\ pc[c] \in {"working", "beating"}
             /\ pc' = [pc EXCEPT ![c] = pc'[c]]
             /\ pc'[c] \in {"working", "beating", "settling"}
       /\ UNCHANGED <<handle, seen>>

\* Time passes: copies of windows change, nothing a carrier is judged by.
Ticked ==
    /\ UNCHANGED <<pc, handle>>
    /\ seen' \in [Coords -> Seen]
    /\ \A c \in Coords : seen'[c].gen = seen[c].gen /\ seen'[c].state = seen[c].state

DiskSteps ==
    \/ SameStates /\ (Ticked \/ \E c \in Coords : Moved(c))
    \/ \E c \in Coords : Granted(c) \/ Told(c) \/ Closed(c)

\* A takeover leaves the predecessor superseded.
LEMMA MintShape ==
    ASSUME TypeOK, NEW c \in Coords, NEW takeover \in Takeovers,
           NEW label \in {"begun", "working"},
           pc[c] \in {"idle", "observed"}, Goto(c, label), UNCHANGED seen,
           \/ Newest # 0 /\ leases[Newest].state # "settled" /\ Mint(c, Superseded, takeover)
           \/ Newest = 0 /\ Mint(c, leases, takeover)
    PROVE  Granted(c)
<1>1. pc' = [pc EXCEPT ![c] = label] /\ pc'[c] = label /\ UNCHANGED <<settlement, facts>>
      /\ handle' = [handle EXCEPT ![c] = Newest + 1]
  BY DEF TypeOK, Goto, Mint
<1>2. NewLease(c, takeover).state = "active" BY DEF NewLease
<1>3. CASE Newest # 0 /\ leases[Newest].state # "settled" /\ Mint(c, Superseded, takeover)
  <2>1. /\ Len(leases') = Newest + 1
        /\ leases'[Newest + 1] = NewLease(c, takeover)
        /\ \A g \in 1..Newest : leases'[g] = Superseded[g]
    BY <1>3, SupersededType, MintType
  <2>2. \A g \in 1..Newest : leases[g] \in Lease BY LeasesType
  <2>3. \A g \in 1..Newest : leases'[g].state =
          IF g = Newest THEN "superseded" ELSE leases[g].state
    BY <2>1, <2>2, SupersededType DEF Lease
  <2> QED BY <1>1, <1>2, <1>3, <2>1, <2>3 DEF Granted
<1>4. CASE Newest = 0 /\ Mint(c, leases, takeover)
  <2>1. /\ Len(leases') = Newest + 1
        /\ leases'[Newest + 1] = NewLease(c, takeover)
    BY <1>4, LeasesType, MintType DEF Newest
  <2>2. \A g \in 1..Newest : leases'[g].state =
          IF g = Newest THEN "superseded" ELSE leases[g].state
    BY <1>4
  <2> QED BY <1>1, <1>2, <1>4, <2>1, <2>2 DEF Granted
<1> QED BY <1>3, <1>4

LEMMA StepShape ==
    ASSUME TypeOK, OnlyNewestLives, CarriersAreHonest, [Next]_vars
    PROVE  DiskSteps \/ UNCHANGED vars
<1>0. /\ leases \in Seq(Lease) /\ Newest \in Nat
      /\ DOMAIN leases = 1..Newest
      /\ \A g \in 1..Newest : leases[g] \in Lease
  BY LeasesType
<1>d. UNCHANGED disk => SameStates BY DEF disk, SameStates, Newest
<1>1. CASE Tick
  <2>1. \A g \in 1..Newest : leases'[g].state = leases[g].state
    BY <1>0, <1>1 DEF Tick, Lease
  <2>2. Len(leases') = Newest
    <3> DEFINE f == [g \in DOMAIN leases |-> [leases[g] EXCEPT !.left = Less(@)]]
    <3>1. f \in [1..Newest -> Lease] BY <1>0, LessType DEF Lease
    <3>2. leases' = f BY <1>1 DEF Tick
    <3> HIDE DEF f
    <3> QED BY <1>0, <3>1, <3>2, FunctionIsSeq
  <2>3. SameStates BY <1>1, <2>1, <2>2 DEF Tick, SameStates
  <2>4. Ticked BY <1>1, LessType DEF Tick, Ticked, TypeOK, Seen
  <2> QED BY <2>3, <2>4 DEF DiskSteps
<1>3. ASSUME NEW c \in Coords, CurrentLease(c) PROVE DiskSteps
  <2> DEFINE s == IF Newest = 0 THEN NoLease
                  ELSE [gen |-> Newest, state |-> leases[Newest].state,
                        left |-> leases[Newest].left]
  <2>1. s \in Seen /\ s.gen <= Newest /\ (s.state # "none" => s.gen # 0)
    BY <1>0 DEF Seen, NoLease, Lease, Windows
  <2>2. seen' = [seen EXCEPT ![c] = s] BY <1>3 DEF CurrentLease
  <2> HIDE DEF s
  <2>3. Moved(c) BY <1>3, <2>1, <2>2 DEF CurrentLease, Moved, Goto
  <2> QED BY <1>3, <1>d, <2>3 DEF DiskSteps, CurrentLease
<1>4. ASSUME NEW c \in Coords, BeginRefused(c) PROVE DiskSteps
  BY <1>4, <1>d DEF BeginRefused, DiskSteps, Moved
<1>5. ASSUME NEW c \in Coords, AcquireLease(c) PROVE DiskSteps
  <2>1. CASE MayAcquire
    <3>1. Newest = 0 BY <1>0, <2>1 DEF MayAcquire, OnlyNewestLives
    <3>2. Granted(c) BY <1>5, <2>1, <3>1, MintShape DEF AcquireLease, Takeovers
    <3> QED BY <3>2 DEF DiskSteps
  <2>2. CASE ~MayAcquire
    BY <1>5, <1>d, <2>2 DEF AcquireLease, DiskSteps, Moved
  <2> QED BY <2>1, <2>2
<1>6. ASSUME NEW c \in Coords, ReclaimIfExpired(c) PROVE DiskSteps
  <2>1. CASE MayReclaimExpired(seen[c].gen)
    <3>1. Newest # 0 /\ leases[Newest].state # "settled"
      BY <1>6, <2>1 DEF ReclaimIfExpired, MayReclaimExpired, CarriersAreHonest, Carrier
    <3>2. Granted(c) BY <1>6, <2>1, <3>1, MintShape DEF ReclaimIfExpired, Takeovers
    <3> QED BY <3>2 DEF DiskSteps
  <2>2. CASE ~MayReclaimExpired(seen[c].gen)
    BY <1>6, <1>d, <2>2 DEF ReclaimIfExpired, DiskSteps, Moved
  <2> QED BY <2>1, <2>2
<1>7. ASSUME NEW c \in Coords, ForceReclaim(c) PROVE DiskSteps
  <2>1. CASE MayReclaim(seen[c].gen)
    <3>1. Newest # 0 /\ leases[Newest].state # "settled"
      BY <1>7, <2>1 DEF ForceReclaim, MayReclaim
    <3>2. Granted(c) BY <1>7, <2>1, <3>1, MintShape DEF ForceReclaim, Takeovers
    <3> QED BY <3>2 DEF DiskSteps
  <2>2. CASE ~MayReclaim(seen[c].gen)
    BY <1>7, <1>d, <2>2 DEF ForceReclaim, DiskSteps, Moved
  <2> QED BY <2>1, <2>2
<1>8. ASSUME NEW c \in Coords, Reclaim(c) PROVE DiskSteps
  <2>1. Newest # 0 /\ leases[Newest].state # "settled"
    BY <1>8 DEF Reclaim, MayReclaim
  <2>2. Granted(c) BY <1>8, <2>1, MintShape DEF Reclaim, Takeovers
  <2> QED BY <2>2 DEF DiskSteps
<1>8a. ASSUME NEW c \in Coords, ReclaimRunIfExpired(c) PROVE DiskSteps
  <2>1. Newest # 0 /\ leases[Newest].state # "settled"
    BY <1>8a DEF ReclaimRunIfExpired, MayReclaimExpired
  <2>2. Granted(c)
    BY <1>8a, <2>1, MintShape DEF ReclaimRunIfExpired, Takeovers
  <2> QED BY <2>2 DEF DiskSteps
<1>9. ASSUME NEW c \in Coords, RunStarted(c) PROVE DiskSteps
  <2>1. CASE RequireCurrent(handle[c])
    BY <1>9, <2>1 DEF RunStarted, RecordFact, Goto, Told, DiskSteps
  <2>2. CASE ~RequireCurrent(handle[c])
    BY <1>9, <1>d, <2>2 DEF RunStarted, Goto, Moved, DiskSteps
  <2> QED BY <2>1, <2>2
<1>10. ASSUME NEW c \in Coords, RenewFleetRun(c) PROVE DiskSteps
  <2>1. Moved(c) BY <1>10 DEF RenewFleetRun, Moved, Goto, TypeOK
  <2>2. CASE UNCHANGED leases
    BY <1>10, <1>d, <2>1, <2>2 DEF RenewFleetRun, DiskSteps, disk
  <2>3. CASE RequireCurrent(handle[c]) /\ Ttl[c] # NoExpiry
    <3> DEFINE g == handle[c]
               e == [leases[g] EXCEPT !.left = IF @ = NoExpiry THEN NoExpiry ELSE Ttl[c]]
    <3>1. g \in 1..Newest BY <2>3, <1>0 DEF RequireCurrent
    <3>2. e \in Lease /\ e.state = leases[g].state
      BY <1>0, <3>1, TtlAssumption DEF Windows, Lease
    <3>3. leases' = [leases EXCEPT ![g] = e] BY <1>10, <2>3 DEF RenewFleetRun
    <3> HIDE DEF e
    <3>4. /\ Len(leases') = Newest
          /\ \A j \in 1..Newest : leases'[j] = IF j = g THEN e ELSE leases[j]
      BY <1>0, <3>1, <3>2, <3>3, ExceptSeq DEF Newest
    <3>5. SameStates BY <1>10, <3>2, <3>4 DEF SameStates, RenewFleetRun
    <3> QED BY <2>1, <3>5 DEF DiskSteps
  <2> QED BY <1>10, <2>2, <2>3 DEF RenewFleetRun
<1>11. ASSUME NEW c \in Coords, FenceCheck(c) PROVE DiskSteps
  BY <1>11, <1>d DEF FenceCheck, Moved, DiskSteps, Goto, TypeOK
<1>12. ASSUME NEW c \in Coords, RunEnds(c) PROVE DiskSteps
  BY <1>12, <1>d DEF RunEnds, Moved, DiskSteps, Goto, TypeOK
<1>13. ASSUME NEW c \in Coords, RunSettled(c) PROVE DiskSteps
  <2>1. CASE RequireCurrent(handle[c])
    BY <1>13, <2>1 DEF RunSettled, RecordFact, Goto, Told, DiskSteps
  <2>2. CASE ~RequireCurrent(handle[c])
    BY <1>13, <1>d, <2>2 DEF RunSettled, Moved, DiskSteps
  <2> QED BY <2>1, <2>2
<1>14. ASSUME NEW c \in Coords, FinishRun(c) PROVE DiskSteps
  <2>1. CASE MaySettle(handle[c])
    <3> DEFINE g == handle[c]
               e == [leases[g] EXCEPT !.state = "settled"]
    <3>1. g \in 1..Newest BY <2>1, <1>0 DEF MaySettle
    <3>2. e \in Lease /\ e.state = "settled" BY <1>0, <3>1 DEF LeaseStates, Lease
    <3>3. leases' = [leases EXCEPT ![g] = e]
      BY <1>14, <2>1 DEF FinishRun, SettledLeases
    <3> HIDE DEF e
    <3>4. /\ Len(leases') = Newest
          /\ \A j \in 1..Newest : leases'[j] = IF j = g THEN e ELSE leases[j]
      BY <1>0, <3>1, <3>2, <3>3, ExceptSeq DEF Newest
    <3>5. Closed(c) BY <1>14, <2>1, <3>2, <3>4 DEF Closed, FinishRun
    <3> QED BY <3>5 DEF DiskSteps
  <2>2. CASE ~MaySettle(handle[c])
    BY <1>14, <1>d, <2>2 DEF FinishRun, Moved, DiskSteps
  <2> QED BY <2>1, <2>2
<1>15. ASSUME NEW c \in Coords, Crash(c) PROVE DiskSteps
  BY <1>15, <1>d DEF Crash, Moved, DiskSteps
<1>16. ASSUME NEW c \in Coords, StoreError(c) PROVE DiskSteps
  <2>1. Moved(c)
    BY <1>16 DEF StoreError, AfterError, Moved, Goto, TypeOK
  <2> QED BY <1>16, <1>d, <2>1 DEF StoreError, DiskSteps
<1> QED BY <1>1, <1>3, <1>4, <1>5, <1>6, <1>7, <1>8, <1>8a, <1>9,
           <1>10, <1>11, <1>12, <1>13, <1>14, <1>15, <1>16
        DEF Next, Step, Operator, Fault

-----------------------------------------------------------------------------
(***************************************************************************)
(* RegistryIsSound is inductive.                                           *)
(***************************************************************************)

LEMMA InitInv == Init => RegistryIsSound
<1> SUFFICES ASSUME Init PROVE RegistryIsSound OBVIOUS
<1>1. TypeOK BY TypeInit
<1>2. Newest = 0 /\ Len(facts) = 0 BY DEF Init, Newest
<1> QED BY <1>1, <1>2 DEF Init, RegistryIsSound, OnlyNewestLives, SettlementMatchesLease,
        CarriersAreHonest, Carrier, FactsTellOneStory, SettlementIsTold, NoLease

\* Leases and settlement stay in step.
LEMMA LeasesStep ==
    ASSUME TypeOK, TypeOK', OnlyNewestLives, SettlementMatchesLease, DiskSteps
    PROVE  OnlyNewestLives' /\ SettlementMatchesLease'
<1>0. Newest \in Nat /\ settlement \in Nat BY LeasesType DEF TypeOK
<1>1. CASE SameStates
  BY <1>0, <1>1 DEF SameStates, OnlyNewestLives, SettlementMatchesLease, Newest
<1>2. ASSUME NEW c \in Coords, Granted(c) PROVE OnlyNewestLives' /\ SettlementMatchesLease'
  <2>1. settlement = 0
    BY <1>0, <1>2 DEF Granted, OnlyNewestLives, SettlementMatchesLease
  <2> QED BY <1>0, <1>2, <2>1 DEF Granted, OnlyNewestLives, SettlementMatchesLease, Newest
<1>3. ASSUME NEW c \in Coords, Told(c) PROVE OnlyNewestLives' /\ SettlementMatchesLease'
  BY <1>0, <1>3 DEF Told, OnlyNewestLives, SettlementMatchesLease, Newest
<1>4. ASSUME NEW c \in Coords, Closed(c) PROVE OnlyNewestLives' /\ SettlementMatchesLease'
  <2>1. handle[c] \in Nat /\ handle[c] = Newest /\ handle[c] # 0 /\ settlement = 0
    BY <1>4 DEF Closed, MaySettle, TypeOK
  <2>2. Len(leases') = Newest /\ settlement' = Newest
    BY <1>4, <2>1 DEF Closed
  <2> QED BY <1>0, <1>4, <2>1, <2>2 DEF Closed, OnlyNewestLives, SettlementMatchesLease, Newest
<1> QED BY <1>1, <1>2, <1>3, <1>4 DEF DiskSteps

\* A fact is appended to a sequence of facts.
LEMMA ToldType ==
    ASSUME TypeOK, NEW c \in Coords, Told(c)
    PROVE  /\ facts \in Seq(Fact) /\ Len(facts) \in Nat
           /\ Len(facts') = Len(facts) + 1
           /\ \A i \in 1..Len(facts) : facts'[i] = facts[i]
           /\ facts'[Len(facts) + 1].gen = handle[c]
           /\ facts'[Len(facts) + 1].event =
                 IF pc[c] = "begun" THEN "run_started" ELSE "run_settled"
           /\ facts'[Len(facts) + 1] \in Fact
           /\ handle[c] = Newest
<1> DEFINE e == [gen |-> handle[c],
                 event |-> IF pc[c] = "begun" THEN "run_started" ELSE "run_settled"]
<1>1. facts \in Seq(Fact) /\ Len(facts) \in Nat BY DEF TypeOK, Fact
<1>2. e \in Fact BY DEF Fact, Events, TypeOK
<1>3. facts' = Append(facts, e) BY DEF Told
<1>4. e.gen = handle[c] /\ e.event = IF pc[c] = "begun" THEN "run_started" ELSE "run_settled"
  OBVIOUS
<1> HIDE DEF e
<1>5. /\ Len(facts') = Len(facts) + 1
      /\ \A i \in 1..Len(facts) : facts'[i] = facts[i]
      /\ facts'[Len(facts) + 1] = e
  BY <1>1, <1>2, <1>3
<1>6. handle[c] = Newest BY DEF Told, RequireCurrent
<1> QED BY <1>1, <1>2, <1>4, <1>5, <1>6

\* The facts go on telling one story.
LEMMA FactsStep ==
    ASSUME TypeOK, CarriersAreHonest, FactsTellOneStory, DiskSteps
    PROVE  FactsTellOneStory'
<1>1. CASE UNCHANGED facts BY <1>1 DEF FactsTellOneStory
<1>2. ASSUME NEW c \in Coords, Told(c) PROVE FactsTellOneStory'
  <2> DEFINE n == Len(facts)
  <2>1. SUFFICES ASSUME NEW i \in 1..n + 1, NEW j \in 1..n + 1, i < j
                 PROVE  \/ facts'[i].gen < facts'[j].gen
                        \/ /\ facts'[i].gen = facts'[j].gen
                           /\ facts'[i].event = "run_started"
                           /\ facts'[j].event = "run_settled"
    BY <1>2, ToldType DEF FactsTellOneStory
  <2>2. n \in Nat /\ i \in 1..n /\ facts'[i] = facts[i] BY <1>2, <2>1, ToldType
  <2>3. CASE j \in 1..n
    BY <1>2, <2>1, <2>2, <2>3, ToldType DEF FactsTellOneStory
  <2>4. CASE j = n + 1
    <3>1. facts'[j].gen = Newest /\ handle[c] = Newest BY <1>2, <2>4, ToldType
    <3>2. facts[i].gen \in 1..Newest /\ facts[i] \in Fact /\ Newest \in Nat
      BY <1>2, <2>2, ToldType, LeasesType, ElementOfSeq DEF CarriersAreHonest
    <3>3. CASE facts[i].gen < Newest BY <2>2, <3>1, <3>3
    <3>4. CASE facts[i].gen = handle[c]
      <4>1. /\ pc[c] # "begun"
            /\ facts[i].event = "run_settled" => pc[c] = "finishing"
        BY <2>2, <3>4 DEF CarriersAreHonest, Carrier
      <4>2. pc[c] = "settling" BY <1>2, <4>1 DEF Told
      <4>3. facts[i].event = "run_started" BY <3>2, <4>1, <4>2 DEF Fact, Events
      <4> QED BY <1>2, <2>2, <2>4, <3>1, <3>4, <4>2, <4>3, ToldType
    <3> QED BY <3>1, <3>2, <3>3, <3>4
  <2> QED BY <2>2, <2>3, <2>4
<1> QED BY <1>1, <1>2 DEF DiskSteps, SameStates, Granted, Closed

\* Once settled, no fence lets a process write.
LEMMA SettledFence ==
    ASSUME TypeOK, OnlyNewestLives, SettlementMatchesLease, settlement # 0
    PROVE  /\ settlement = Newest
           /\ leases[Newest].state = "settled"
           /\ \A g \in Nat : ~RequireCurrent(g) /\ ~MaySettle(g)
<1>1. settlement \in 1..Newest /\ Newest \in Nat
  BY LeasesType DEF TypeOK, SettlementMatchesLease
<1>2. leases[settlement].state = "settled" BY <1>1 DEF SettlementMatchesLease
<1>3. settlement = Newest BY <1>1, <1>2 DEF OnlyNewestLives
<1> QED BY <1>1, <1>2, <1>3 DEF RequireCurrent, MaySettle

\* A settlement stays told.
LEMMA ToldStep ==
    ASSUME TypeOK, OnlyNewestLives, SettlementMatchesLease, CarriersAreHonest,
           SettlementIsTold, DiskSteps
    PROVE  SettlementIsTold'
<1>1. CASE UNCHANGED <<settlement, facts>> BY <1>1 DEF SettlementIsTold
<1>2. ASSUME NEW c \in Coords, Told(c) PROVE SettlementIsTold'
  <2>1. settlement = 0 BY <1>2, SettledFence DEF Told, TypeOK
  <2> QED BY <1>2, <2>1 DEF Told, SettlementIsTold
<1>3. ASSUME NEW c \in Coords, Closed(c) PROVE SettlementIsTold'
  <2>1. handle[c] = Newest /\ pc[c] = "finishing" /\ settlement' = handle[c] /\ facts' = facts
    BY <1>3 DEF Closed, MaySettle
  <2> QED BY <2>1 DEF CarriersAreHonest, Carrier, SettlementIsTold
<1> QED BY <1>1, <1>2, <1>3 DEF DiskSteps, SameStates, Granted

\* A process that stands still stays an honest carrier while others move: no
\* other process can write facts of its generation.
LEMMA BystanderStep ==
    ASSUME TypeOK, CarriersAreHonest, NEW d \in Coords,
           pc'[d] = pc[d], handle'[d] = handle[d],
           seen'[d].gen = seen[d].gen, seen'[d].state = seen[d].state,
           Len(leases') \in {Newest, Newest + 1},
           \/ UNCHANGED facts
           \/ \E c \in Coords \ {d} : Told(c)
    PROVE  Carrier(d)'
<1>1. /\ Carrier(d) /\ Newest \in Nat /\ handle[d] \in Nat
      /\ seen[d].gen \in Nat
  BY LeasesType DEF CarriersAreHonest, TypeOK
<1>2. /\ handle'[d] <= Len(leases')
      /\ seen'[d].gen <= Len(leases')
      /\ seen'[d].state # "none" => seen'[d].gen # 0
      /\ handle'[d] = 0 <=> pc'[d] \in {"idle", "observed"}
  BY <1>1 DEF Carrier
<1>3. CASE UNCHANGED facts
  <2>1. handle[d] = Len(leases') => handle[d] = Newest BY <1>1 DEF Carrier
  <2> QED BY <1>1, <1>2, <1>3, <2>1 DEF Carrier, Newest
<1>4. ASSUME NEW c \in Coords \ {d}, Told(c) PROVE Carrier(d)'
  <2>1. /\ handle[c] = Newest /\ handle[c] # 0
        /\ UNCHANGED leases
    BY <1>4, ToldType DEF Told, RequireCurrent
  <2>2. handle[d] # Newest BY <1>4, <2>1 DEF CarriersAreHonest
  <2>3. \A i \in 1..Len(facts') : facts'[i].gen = handle[d] =>
           i \in 1..Len(facts) /\ facts'[i] = facts[i]
    BY <1>4, <2>1, <2>2, ToldType
  <2> QED BY <1>1, <1>2, <2>1, <2>2, <2>3 DEF Carrier, Newest
<1> QED BY <1>3, <1>4

\* Carriers stay honest.
LEMMA CarriersStep ==
    ASSUME TypeOK, TypeOK', CarriersAreHonest, DiskSteps
    PROVE  CarriersAreHonest'
<1>0. Newest \in Nat /\ Len(facts) \in Nat BY LeasesType, ToldType DEF TypeOK
<1> DEFINE Known == \A i \in 1..Len(facts) : facts[i].gen \in 1..Newest
           Distinct == \A c, d \in Coords : handle[c] # 0 /\ handle[c] = handle[d] => c = d
<1>1. Known /\ Distinct /\ \A c \in Coords : Carrier(c) BY DEF CarriersAreHonest
<1>2. SUFFICES Known' /\ Distinct' /\ \A c \in Coords : Carrier(c)'
  BY DEF CarriersAreHonest
<1>3. CASE SameStates /\ Ticked
  <2>1. Known' /\ Distinct' BY <1>0, <1>1, <1>3 DEF SameStates, Ticked, Newest
  <2>2. \A d \in Coords : Carrier(d)' BY <1>3, BystanderStep DEF SameStates, Ticked, Newest
  <2> QED BY <2>1, <2>2
<1>4. ASSUME NEW c \in Coords, SameStates, Moved(c)
      PROVE Known' /\ Distinct' /\ \A d \in Coords : Carrier(d)'
  <2>1. Known' BY <1>0, <1>1, <1>4 DEF SameStates, Newest
  <2>2. handle'[c] \in {0, handle[c]} /\ \A d \in Coords \ {c} : handle'[d] = handle[d]
    BY <1>4 DEF Moved, Leave, TypeOK
  <2>3. Distinct' BY <1>1, <2>2
  <2>4. \A d \in Coords \ {c} : /\ pc'[d] = pc[d] /\ seen'[d] = seen[d]
    BY <1>4 DEF Moved, Leave, Goto, TypeOK
  <2>5. \A d \in Coords \ {c} : Carrier(d)'
    BY <1>4, <2>2, <2>4, BystanderStep DEF SameStates
  <2>6. Carrier(c)'
    <3>1. Carrier(c) /\ Len(leases') = Newest /\ facts' = facts
      BY <1>1, <1>4 DEF SameStates
    <3>2. CASE Leave(c)
      <4>1. pc'[c] = "idle" /\ handle'[c] = 0 /\ seen'[c] = NoLease
        BY <3>2 DEF Leave, Goto, TypeOK
      <4>2. \A i \in 1..Len(facts) : facts[i].gen # 0 BY <1>0, <1>1
      <4> QED BY <1>0, <3>1, <4>1, <4>2 DEF Carrier, NoLease, Newest
    <3>3. CASE /\ pc[c] = "idle" /\ pc' = [pc EXCEPT ![c] = "observed"]
               /\ UNCHANGED handle
               /\ \E s \in Seen : /\ seen' = [seen EXCEPT ![c] = s]
                                  /\ s.gen <= Newest
                                  /\ s.state # "none" => s.gen # 0
      <4>1. /\ pc'[c] = "observed" /\ handle'[c] = 0
            /\ seen'[c].gen <= Newest /\ (seen'[c].state # "none" => seen'[c].gen # 0)
        BY <3>1, <3>3 DEF Carrier, TypeOK
      <4>2. \A i \in 1..Len(facts) : facts[i].gen # 0 BY <1>0, <1>1
      <4> QED BY <1>0, <3>1, <4>1, <4>2 DEF Carrier, Newest
    <3>4. CASE /\ \/ pc[c] = "begun" /\ pc' = [pc EXCEPT ![c] = "settling"]
                  \/ /\ pc[c] \in {"working", "beating"}
                     /\ pc' = [pc EXCEPT ![c] = pc'[c]]
                     /\ pc'[c] \in {"working", "beating", "settling"}
               /\ UNCHANGED <<handle, seen>>
      <4>1. /\ pc[c] \in {"begun", "working", "beating"}
            /\ pc'[c] \in {"working", "beating", "settling"}
        BY <3>4 DEF TypeOK
      <4> QED BY <3>1, <3>4, <4>1 DEF Carrier, Newest
    <3> QED BY <1>4, <3>2, <3>3, <3>4 DEF Moved
  <2> QED BY <2>1, <2>3, <2>5, <2>6
<1>5. ASSUME NEW c \in Coords, Granted(c)
      PROVE Known' /\ Distinct' /\ \A d \in Coords : Carrier(d)'
  <2>1. Len(leases') = Newest + 1 /\ facts' = facts /\ seen' = seen
        /\ handle' = [handle EXCEPT ![c] = Newest + 1] /\ pc' = [pc EXCEPT ![c] = pc'[c]]
        /\ pc'[c] \in {"begun", "working"}
    BY <1>5 DEF Granted
  <2>2. Known' BY <1>0, <1>1, <2>1 DEF Newest
  <2>3. \A d \in Coords : handle[d] <= Newest /\ handle[d] \in Nat BY <1>1 DEF Carrier, TypeOK
  <2>4. Distinct' BY <1>0, <1>1, <2>1, <2>3 DEF TypeOK
  <2>5. \A d \in Coords \ {c} : Carrier(d)'
    BY <2>1, BystanderStep DEF TypeOK
  <2>6. Carrier(c)'
    <3>1. handle'[c] = Newest + 1 /\ pc'[c] \in {"begun", "working"} BY <2>1 DEF TypeOK
    <3>2. \A i \in 1..Len(facts') : facts'[i].gen # handle'[c]
      BY <1>0, <1>1, <2>1, <3>1
    <3>3. /\ seen[c].gen <= Newest /\ seen[c].gen \in Nat
          /\ seen[c].state # "none" => seen[c].gen # 0
      BY <1>1 DEF Carrier, TypeOK
    <3>4. seen'[c].gen <= Len(leases') BY <1>0, <2>1, <3>3
    <3>5. handle'[c] <= Len(leases') /\ handle'[c] # 0 BY <1>0, <2>1, <3>1
    <3> QED BY <2>1, <3>1, <3>2, <3>3, <3>4, <3>5 DEF Carrier, Newest
  <2> QED BY <2>2, <2>4, <2>5, <2>6
<1>6. ASSUME NEW c \in Coords, Told(c)
      PROVE Known' /\ Distinct' /\ \A d \in Coords : Carrier(d)'
  <2>1. /\ handle[c] = Newest /\ Newest # 0 /\ UNCHANGED <<leases, handle, seen>>
    BY <1>6, ToldType DEF Told, RequireCurrent
  <2>2. Known' BY <1>0, <1>1, <1>6, <2>1, ToldType DEF Newest
  <2>3. Distinct' BY <1>1, <2>1
  <2>4. \A d \in Coords \ {c} : Carrier(d)'
    BY <1>6, <2>1, BystanderStep DEF Told, TypeOK, Newest
  <2>5. Carrier(c)'
    <3>1. Carrier(c) BY <1>1
    <3>2. CASE pc[c] = "begun"
      <4>1. pc'[c] = "working" BY <1>6, <3>2 DEF Told, TypeOK
      <4>2. \A i \in 1..Len(facts') : facts'[i].gen = handle[c] => facts'[i].event # "run_settled"
        BY <1>0, <1>6, <3>1, <3>2, ToldType DEF Carrier
      <4> QED BY <2>1, <3>1, <4>1, <4>2 DEF Carrier, Newest
    <3>3. CASE pc[c] = "settling"
      <4>1. pc'[c] = "finishing" BY <1>6, <3>3 DEF Told, TypeOK
      <4>2. /\ facts' # << >>
            /\ facts'[Len(facts')] = [gen |-> handle[c], event |-> "run_settled"]
        BY <1>0, <1>6, <3>3, ToldType DEF Told, Fact
      <4> QED BY <2>1, <3>1, <3>3, <4>1, <4>2 DEF Carrier, Newest
    <3> QED BY <1>6, <3>2, <3>3 DEF Told
  <2> QED BY <2>2, <2>3, <2>4, <2>5
<1>7. ASSUME NEW c \in Coords, Closed(c)
      PROVE Known' /\ Distinct' /\ \A d \in Coords : Carrier(d)'
  <2>1. /\ Len(leases') = Newest /\ facts' = facts
        /\ pc' = [pc EXCEPT ![c] = "idle"] /\ handle' = [handle EXCEPT ![c] = 0]
        /\ seen' = [seen EXCEPT ![c] = NoLease]
    BY <1>7 DEF Closed, Leave, Goto
  <2>2. Known' BY <1>0, <1>1, <2>1 DEF Newest
  <2>3. Distinct' BY <1>1, <2>1 DEF TypeOK
  <2>4. \A d \in Coords \ {c} : Carrier(d)'
    BY <2>1, BystanderStep DEF TypeOK
  <2>5. pc'[c] = "idle" /\ handle'[c] = 0 /\ seen'[c] = NoLease BY <2>1 DEF TypeOK
  <2>6. \A i \in 1..Len(facts) : facts[i].gen # 0 BY <1>0, <1>1
  <2>7. Carrier(c)' BY <1>0, <2>1, <2>5, <2>6 DEF Carrier, NoLease, Newest
  <2> QED BY <2>2, <2>3, <2>4, <2>7
<1> QED BY <1>3, <1>4, <1>5, <1>6, <1>7 DEF DiskSteps

LEMMA InvStep == RegistryIsSound /\ [Next]_vars => RegistryIsSound'
<1> SUFFICES ASSUME RegistryIsSound, [Next]_vars PROVE RegistryIsSound' OBVIOUS
<1>1. TypeOK' BY TypeStep DEF RegistryIsSound
<1>2. CASE DiskSteps
  BY <1>1, <1>2, LeasesStep, FactsStep, ToldStep, CarriersStep DEF RegistryIsSound
<1>3. CASE UNCHANGED vars
  BY <1>1, <1>3 DEF RegistryIsSound, vars, OnlyNewestLives, SettlementMatchesLease, CarriersAreHonest,
       Carrier, FactsTellOneStory, SettlementIsTold, Newest
<1> QED BY <1>2, <1>3, StepShape DEF RegistryIsSound

\* The registry and its processes are never out of step, for any number of
\* processes, any windows and any number of crashes and failed writes.
THEOREM RegistryStaysSound == Spec => []RegistryIsSound
BY InitInv, InvStep, PTL DEF Spec

-----------------------------------------------------------------------------
(***************************************************************************)
(* Safety.                                                                 *)
(***************************************************************************)

\* The newest generation, and no other, is not superseded; the settlement entry
\* and the settled lease agree.
THEOREM AuthorityIsUnique == Spec => [](OnlyNewestLives /\ SettlementMatchesLease)
<1>1. RegistryIsSound => OnlyNewestLives /\ SettlementMatchesLease BY DEF RegistryIsSound
<1> QED BY <1>1, RegistryStaysSound, PTL

\* At most one process passes the write fence at a time.
THEOREM HolderIsUnique == Spec => []OneWritableHolder
<1>1. RegistryIsSound => OneWritableHolder
  BY DEF RegistryIsSound, CarriersAreHonest, OneWritableHolder, RequireCurrent
<1> QED BY <1>1, RegistryStaysSound, PTL

\* The facts of the run tell one story, and a settlement is always told.
THEOREM StoryIsTold == Spec => [](FactsTellOneStory /\ SettlementIsTold)
<1>1. RegistryIsSound => FactsTellOneStory /\ SettlementIsTold BY DEF RegistryIsSound
<1> QED BY <1>1, RegistryStaysSound, PTL

\* Settlement is exactly once and closes the run.
THEOREM SettlementCloses == Spec => SettledIsClosed
<1> DEFINE A == settlement # 0 => /\ settlement' = settlement
                                 /\ facts' = facts
                                 /\ Len(leases') = Newest
<1>1. ASSUME RegistryIsSound, [Next]_vars PROVE A
  <2> SUFFICES ASSUME settlement # 0
               PROVE  settlement' = settlement /\ facts' = facts /\ Len(leases') = Newest
    OBVIOUS
  <2>1. /\ leases[Newest].state = "settled" /\ settlement = Newest
        /\ \A g \in Nat : ~RequireCurrent(g) /\ ~MaySettle(g)
    BY <1>1, SettledFence DEF RegistryIsSound
  <2>2. \A c \in Coords : ~Granted(c) /\ ~Told(c) /\ ~Closed(c)
    BY <1>1, <2>1 DEF RegistryIsSound, TypeOK, Granted, Told, Closed
  <2>3. SameStates \/ UNCHANGED vars BY <1>1, <2>2, StepShape DEF RegistryIsSound, DiskSteps
  <2> QED BY <2>3 DEF SameStates, vars, Newest
<1>2. RegistryIsSound /\ [Next]_vars => [A]_vars BY <1>1
<1> QED BY <1>2, RegistryStaysSound, PTL DEF Spec, SettledIsClosed

\* A window that has closed is never opened again, by no operation.
ShutStaysShut == \A g \in 1..Newest : leases[g].left = 0 => leases'[g].left = 0

LEMMA SupersededStaysShut ==
    ASSUME TypeOK, NEW c \in Coords, NEW takeover \in Takeovers,
           Mint(c, Superseded, takeover)
    PROVE  ShutStaysShut
<1>1. \A g \in 1..Newest : leases[g] \in Lease BY LeasesType
<1>2. \A g \in 1..Newest : Superseded[g].left = leases[g].left
  BY <1>1, SupersededType DEF Lease
<1>3. \A g \in 1..Newest : leases'[g] = Superseded[g]
  BY SupersededType, MintType
<1> QED BY <1>2, <1>3 DEF ShutStaysShut

LEMMA WindowsStep ==
    ASSUME TypeOK, [Next]_vars
    PROVE  ShutStaysShut
<1>0. /\ leases \in Seq(Lease) /\ Newest \in Nat /\ DOMAIN leases = 1..Newest
      /\ \A g \in 1..Newest : leases[g] \in Lease
  BY LeasesType
<1>1. CASE UNCHANGED leases BY <1>1 DEF ShutStaysShut
<1>2. CASE Tick
  <2>1. Less(0) = 0 BY DEF Less
  <2>2. \A g \in 1..Newest : leases'[g].left = Less(leases[g].left)
    BY <1>0, <1>2 DEF Tick, Lease
  <2> QED BY <2>1, <2>2 DEF ShutStaysShut
<1>3. ASSUME NEW c \in Coords, Mint(c, leases, "none") PROVE ShutStaysShut
  BY <1>0, <1>3, MintType DEF ShutStaysShut, Takeovers, Newest
<1>4. ASSUME NEW c \in Coords, NEW t \in Takeovers, Mint(c, Superseded, t)
      PROVE ShutStaysShut
  BY <1>4, SupersededStaysShut
<1>5. ASSUME NEW c \in Coords, RenewFleetRun(c) PROVE ShutStaysShut
  <2>1. CASE RequireCurrent(handle[c]) /\ Ttl[c] # NoExpiry
    <3>1. \A g \in 1..Newest : g # handle[c] => leases'[g] = leases[g]
      BY <1>0, <1>5, <2>1 DEF RenewFleetRun
    <3> QED BY <2>1, <3>1 DEF ShutStaysShut, RequireCurrent
  <2> QED BY <1>1, <1>5, <2>1 DEF RenewFleetRun
<1>6. ASSUME NEW c \in Coords, FinishRun(c) PROVE ShutStaysShut
  <2>1. CASE MaySettle(handle[c])
    <3>1. \A g \in 1..Newest : g # handle[c] => leases'[g] = leases[g]
      BY <1>0, <1>6, <2>1 DEF FinishRun, SettledLeases
    <3> QED BY <2>1, <3>1 DEF ShutStaysShut, MaySettle
  <2> QED BY <1>1, <1>6, <2>1 DEF FinishRun, disk
<1>7. ASSUME NEW c \in Coords, RunStarted(c) \/ RunSettled(c) PROVE ShutStaysShut
  BY <1>1, <1>7 DEF RunStarted, RunSettled, RecordFact, disk
<1>8. ASSUME NEW c \in Coords,
             \/ AcquireLease(c) \/ ReclaimIfExpired(c) \/ ForceReclaim(c)
             \/ Reclaim(c) \/ ReclaimRunIfExpired(c)
      PROVE  ShutStaysShut
  BY <1>1, <1>3, <1>4, <1>8
     DEF AcquireLease, ReclaimIfExpired, ForceReclaim, Reclaim,
         ReclaimRunIfExpired, Takeovers, disk
<1>9. ASSUME NEW c \in Coords,
             \/ CurrentLease(c) \/ BeginRefused(c) \/ FenceCheck(c) \/ RunEnds(c)
             \/ Crash(c) \/ StoreError(c)
      PROVE  ShutStaysShut
  BY <1>1, <1>9 DEF CurrentLease, BeginRefused, FenceCheck, RunEnds, Crash, StoreError, disk
<1> QED BY <1>1, <1>2, <1>5, <1>6, <1>7, <1>8, <1>9
        DEF Next, Step, Operator, Fault, vars

\* "TTL is authority": past its window, a lease is neither renewed nor settled
\* and its generation writes no fact, whatever the other processes do.
THEOREM WindowIsAuthority == Spec => ExpiredNeverRevives
<1> DEFINE A == \A g \in 1..Newest : leases[g].state = "active" /\ leases[g].left = 0 =>
                  /\ leases'[g].left = 0
                  /\ leases'[g].state # "settled"
                  /\ \A i \in Len(facts) + 1 .. Len(facts') : facts'[i].gen # g
<1>1. ASSUME RegistryIsSound, [Next]_vars PROVE A
  <2> SUFFICES ASSUME NEW g \in 1..Newest, leases[g].state = "active", leases[g].left = 0
               PROVE  /\ leases'[g].state # "settled"
                      /\ \A i \in Len(facts) + 1 .. Len(facts') : facts'[i].gen # g
    BY <1>1, WindowsStep DEF RegistryIsSound, ShutStaysShut
  <2>1. g = Newest BY <1>1 DEF RegistryIsSound, OnlyNewestLives
  <2>2. \A c \in Coords : ~Told(c) /\ ~Closed(c)
    BY <2>1 DEF Told, Closed, RequireCurrent, MaySettle
  <2>3. Len(facts) \in Nat BY <1>1, LenProperties DEF RegistryIsSound, TypeOK
  <2>4. CASE SameStates \/ UNCHANGED vars BY <2>3, <2>4 DEF SameStates, vars
  <2>5. ASSUME NEW c \in Coords, Granted(c)
        PROVE  leases'[g].state # "settled" /\ facts' = facts
    BY <2>1, <2>5 DEF Granted
  <2> QED BY <1>1, <2>2, <2>3, <2>4, <2>5, StepShape DEF RegistryIsSound, DiskSteps
<1>2. RegistryIsSound /\ [Next]_vars => [A]_vars BY <1>1
<1> QED BY <1>2, RegistryStaysSound, PTL DEF Spec, ExpiredNeverRevives

\* A generation is minted by a process that carries none, and its record says how.
LEMMA MintIsRecorded ==
    ASSUME RegistryIsSound, NEW c \in Coords, NEW d \in Coords, NEW t \in Takeovers,
           Mint(d, leases, t) \/ Mint(d, Superseded, t), handle'[c] = Newest + 1
    PROVE  c = d /\ leases'[Newest + 1].takeover = t
<1>1. TypeOK /\ handle[c] <= Newest /\ Newest \in Nat
  BY LeasesType DEF RegistryIsSound, CarriersAreHonest, Carrier
<1>2. handle' = [handle EXCEPT ![d] = Newest + 1] BY DEF Mint
<1>3. c = d BY <1>1, <1>2 DEF TypeOK
<1>4. leases'[Newest + 1] = NewLease(d, t)
  BY <1>1, LeasesType, SupersededType, MintType DEF Newest
<1> QED BY <1>3, <1>4 DEF NewLease

\* Racing recoveries have one winner: a takeover licensed by time supersedes a
\* lease that is expired at that moment and, when a run begins by it, the one
\* that run observed (reclaim_if_expired, with begin_run's expected_generation
\* and without), for any number of processes.
THEOREM TakeoversAreLicensed == Spec => TimeLicensedTakeover
<1> DEFINE A == \A c \in Coords :
                  /\ Len(leases') = Newest + 1
                  /\ leases'[Newest + 1].takeover = "expiry_reclaim"
                  /\ handle'[c] = Newest + 1
                  => /\ leases[Newest].left = 0
                     /\ pc'[c] = "begun" => seen[c].gen = Newest
<1>1. ASSUME RegistryIsSound, [Next]_vars PROVE A
  <2> SUFFICES ASSUME NEW c \in Coords, Len(leases') = Newest + 1,
                      leases'[Newest + 1].takeover = "expiry_reclaim",
                      handle'[c] = Newest + 1
               PROVE  /\ leases[Newest].left = 0
                      /\ pc'[c] = "begun" => seen[c].gen = Newest
    OBVIOUS
  <2>0. TypeOK /\ leases \in Seq(Lease) /\ Newest \in Nat /\ DOMAIN leases = 1..Newest
    BY <1>1, LeasesType DEF RegistryIsSound
  <2>1. leases' # leases BY <2>0 DEF Newest
  <2>2. ~Tick /\ \A d \in Coords : ~RenewFleetRun(d) /\ ~FinishRun(d)
    <3>1. Len(leases') = Newest + 1 => DOMAIN leases' # DOMAIN leases
      <4>1. leases' \in Seq(Lease)
        BY <1>1, TypeStep DEF RegistryIsSound, TypeOK, Lease
      <4>2. DOMAIN leases' = 1..Len(leases') BY <4>1, LenProperties
      <4> QED BY <4>2, <2>0
    <3>2. Tick => DOMAIN leases' = DOMAIN leases BY DEF Tick
    <3>3. \A d \in Coords : RenewFleetRun(d) \/ FinishRun(d) => DOMAIN leases' = DOMAIN leases
      BY DEF RenewFleetRun, FinishRun, SettledLeases, disk
    <3> QED BY <3>1, <3>2, <3>3
  <2>3. PICK d \in Coords :
          \/ AcquireLease(d) \/ ReclaimIfExpired(d) \/ ForceReclaim(d)
          \/ Reclaim(d) \/ ReclaimRunIfExpired(d)
    BY <1>1, <2>1, <2>2
       DEF Next, Step, Operator, Fault, CurrentLease, BeginRefused, FenceCheck, RunEnds,
           RunStarted, RunSettled, RecordFact, Crash, StoreError, disk, vars
  <2>4. CASE ReclaimIfExpired(d)
    <3>1. MayReclaimExpired(seen[d].gen) /\ Mint(d, Superseded, "expiry_reclaim")
      BY <2>1, <2>4 DEF ReclaimIfExpired, disk
    <3>2. c = d BY <1>1, <3>1, MintIsRecorded DEF Takeovers
    <3> QED BY <3>1, <3>2 DEF MayReclaimExpired
  <2>5. CASE AcquireLease(d)
    <3>1. Mint(d, leases, "none") BY <2>1, <2>5 DEF AcquireLease, disk
    <3> QED BY <1>1, <3>1, MintIsRecorded DEF Takeovers
  <2>6. CASE ForceReclaim(d)
    <3>1. Mint(d, Superseded, "operator_force_reclaim")
      BY <2>1, <2>6 DEF ForceReclaim, disk
    <3> QED BY <1>1, <3>1, MintIsRecorded DEF Takeovers
  <2>7. CASE Reclaim(d)
    <3>1. Mint(d, Superseded, "none") BY <2>7 DEF Reclaim
    <3> QED BY <1>1, <3>1, MintIsRecorded DEF Takeovers
  <2>8. CASE ReclaimRunIfExpired(d)
    <3>1. /\ MayReclaimExpired(Newest)
          /\ Mint(d, Superseded, "expiry_reclaim") /\ Goto(d, "working")
      BY <2>8 DEF ReclaimRunIfExpired
    <3>2. c = d BY <1>1, <3>1, MintIsRecorded DEF Takeovers
    <3>3. pc'[c] = "working" BY <2>0, <3>1, <3>2 DEF Goto, TypeOK
    <3> QED BY <3>1, <3>3 DEF MayReclaimExpired
  <2> QED BY <2>3, <2>4, <2>5, <2>6, <2>7, <2>8
<1>2. RegistryIsSound /\ [Next]_vars => [A]_vars BY <1>1
<1> QED BY <1>2, RegistryStaysSound, PTL DEF Spec, TimeLicensedTakeover

\* The generations a sequence of facts was written by.
LEMMA GenerationsType ==
    ASSUME NEW s \in Seq(Fact)
    PROVE  /\ [i \in DOMAIN s |-> s[i].gen] \in Seq(Nat)
           /\ Len([i \in DOMAIN s |-> s[i].gen]) = Len(s)
           /\ \A j \in 1..Len(s) : [i \in DOMAIN s |-> s[i].gen][j] = s[j].gen
<1> DEFINE f == [i \in DOMAIN s |-> s[i].gen]
<1>1. DOMAIN s = 1..Len(s) /\ Len(s) \in Nat BY LenProperties
<1>2. \A i \in 1..Len(s) : s[i].gen \in Nat
  <2>1. \A i \in 1..Len(s) : s[i] \in Fact BY ElementOfSeq
  <2> QED BY <2>1 DEF Fact
<1>3. f \in [1..Len(s) -> Nat] BY <1>1, <1>2
<1>4. \A j \in 1..Len(s) : f[j] = s[j].gen BY <1>1
<1> HIDE DEF f
<1>5. f \in Seq(Nat) /\ Len(f) = Len(s) BY <1>1, <1>3, FunctionIsSeq
<1> QED BY <1>4, <1>5 DEF f

LEMMA AppendGenerations ==
    ASSUME NEW s \in Seq(Fact), NEW e \in Fact
    PROVE  [i \in DOMAIN Append(s, e) |-> Append(s, e)[i].gen] =
             Append([i \in DOMAIN s |-> s[i].gen], e.gen)
<1> DEFINE f == [i \in DOMAIN s |-> s[i].gen]
           t == Append(s, e)
           h == [i \in DOMAIN t |-> t[i].gen]
<1>1. /\ f \in Seq(Nat) /\ Len(f) = Len(s) /\ Len(s) \in Nat
      /\ \A i \in 1..Len(s) : f[i] = s[i].gen
  BY GenerationsType, LenProperties
<1>2. /\ t \in Seq(Fact) /\ Len(t) = Len(s) + 1 /\ t[Len(s) + 1] = e
      /\ \A i \in 1..Len(s) : t[i] = s[i]
  BY <1>1
<1> HIDE DEF t
<1>3. /\ h \in Seq(Nat) /\ Len(h) = Len(s) + 1
      /\ \A i \in 1..Len(s) + 1 : h[i] = t[i].gen
  BY <1>2, GenerationsType
<1>4. e.gen \in Nat BY DEF Fact
<1> HIDE DEF f, h
<1>5. /\ Append(f, e.gen) \in Seq(Nat)
      /\ Len(Append(f, e.gen)) = Len(s) + 1
      /\ Append(f, e.gen)[Len(s) + 1] = e.gen
      /\ \A i \in 1..Len(s) : Append(f, e.gen)[i] = f[i]
  BY <1>1, <1>4
<1>6. ASSUME NEW i \in 1..Len(s) + 1 PROVE h[i] = Append(f, e.gen)[i]
  <2>1. CASE i = Len(s) + 1 BY <2>1, <1>2, <1>3, <1>5
  <2>2. CASE i # Len(s) + 1
    <3>1. i \in 1..Len(s) BY <2>2, <1>1
    <3>2. h[i] = t[i].gen BY <1>3
    <3>3. t[i] = s[i] BY <3>1, <1>2
    <3>4. Append(f, e.gen)[i] = s[i].gen BY <3>1, <1>1, <1>5
    <3> QED BY <3>2, <3>3, <3>4
  <2> QED BY <2>1, <2>2
<1>7. h = Append(f, e.gen) BY <1>3, <1>5, <1>6, SeqEqual
<1> QED BY <1>7 DEF f, h, t

\* The registry implements RunAuthority: settlement, facts and generations are
\* those of an authority that only moves forward.
THEOREM RegistryKeepsAuthority == Spec => KeepsAuthority
<1> DEFINE log == [i \in DOMAIN facts |-> facts[i].gen]
<1>1. Init => Authority!Init
  BY DEF Init, Authority!Init
<1>2. RegistryIsSound /\ [Next]_vars => [Authority!Next]_Authority!vars
  <2> SUFFICES ASSUME RegistryIsSound, [Next]_vars PROVE [Authority!Next]_Authority!vars
    OBVIOUS
  <2>1. CASE UNCHANGED vars BY <2>1 DEF vars, Authority!vars
  <2>2. CASE SameStates BY <2>2 DEF SameStates, Authority!vars, Newest
  <2>3. ASSUME NEW c \in Coords, Granted(c) PROVE Authority!Grant
    <3>1. settlement = 0
      <4>1. Newest \in Nat /\ settlement \in Nat BY LeasesType DEF RegistryIsSound, TypeOK
      <4> QED BY <2>3, <4>1 DEF RegistryIsSound, Granted, OnlyNewestLives, SettlementMatchesLease
    <3> QED BY <2>3, <3>1 DEF Granted, Authority!Grant, Newest
  <2>4. ASSUME NEW c \in Coords, Told(c) PROVE Authority!Write
    <3>1. settlement = 0 BY <2>4, SettledFence DEF RegistryIsSound, Told, TypeOK
    <3>2. /\ handle[c] = Newest /\ Newest # 0 /\ Newest \in Nat
          /\ UNCHANGED <<leases, settlement>>
      BY <2>4, ToldType, LeasesType DEF RegistryIsSound, Told, RequireCurrent
    <3>3. PICK e \in Fact : e.gen = handle[c] /\ facts' = Append(facts, e)
      <4> DEFINE e == [gen |-> handle[c],
                       event |-> IF pc[c] = "begun" THEN "run_started" ELSE "run_settled"]
      <4>1. e \in Fact BY DEF Fact, Events, RegistryIsSound, TypeOK
      <4>2. e.gen = handle[c] /\ facts' = Append(facts, e) BY <2>4 DEF Told
      <4> QED BY <4>1, <4>2
    <3>4. facts \in Seq(Fact) BY DEF RegistryIsSound, TypeOK, Fact
    <3>5. log' = [i \in DOMAIN Append(facts, e) |-> Append(facts, e)[i].gen]
      BY <3>3
    <3>6. log' = Append(log, Newest)
      BY <3>2, <3>3, <3>4, <3>5, AppendGenerations
    <3>7. Newest > 0 BY <3>2
    <3> QED BY <3>1, <3>2, <3>6, <3>7 DEF Authority!Write, Newest
  <2>5. ASSUME NEW c \in Coords, Closed(c) PROVE Authority!Settle
    <3>1. /\ handle[c] = Newest /\ Newest # 0 /\ Newest \in Nat /\ settlement = 0
      BY <2>5, LeasesType DEF RegistryIsSound, Closed, MaySettle
    <3> QED BY <2>5, <3>1 DEF Closed, Authority!Settle, Newest
  <2> QED BY <2>1, <2>2, <2>3, <2>4, <2>5, StepShape DEF RegistryIsSound, DiskSteps, Authority!Next
<1> QED BY <1>1, <1>2, RegistryStaysSound, PTL DEF Spec, KeepsAuthority, Authority!Spec

-----------------------------------------------------------------------------
\* EffectFence: shapes

\* An attempt is a run and a number.
LEMMA AttemptShape ==
    /\ \A a \in Attempts : a[1] \in Runs /\ Host(a) \in Procs
    /\ \A r \in Runs, n \in 1..MaxCalls :
          <<r, n>> \in Attempts /\ <<r, n>>[1] = r
    /\ \A a \in Attempts : Place(a[1])[1] = Host(a)
    /\ \A r \in Runs : Place(r) \in Procs \X Sessions
BY DEF Attempts, Procs, Host, Place, Sessions

\* The call that a loop waits for exists.
LEMMA CurrentShape ==
    ASSUME FenceTypeOK, NEW r \in Runs
    PROVE  /\ Current(r)[1] = r
           /\ phase[r] \in {"waiting", "revoking"} => Current(r) \in Attempts
           /\ calls[r] < MaxCalls => <<r, calls[r] + 1>> \in Attempts
<1>1. calls[r] \in 0..MaxCalls BY DEF FenceTypeOK
<1>2. MaxCalls \in Nat BY CallAssumption
<1>3. phase[r] \in {"waiting", "revoking"} => calls[r] \in 1..MaxCalls
  BY <1>1, <1>2 DEF FenceTypeOK
<1>4. calls[r] < MaxCalls => calls[r] + 1 \in 1..MaxCalls BY <1>1, <1>2
<1> QED BY <1>3, <1>4, AttemptShape DEF Current

-----------------------------------------------------------------------------
\* Types, the run lock and the active generations

LEMMA FenceTypeInit == FenceInit => FenceTypeOK
BY CallAssumption DEF FenceInit, FenceTypeOK, Phases, Stages, Holding

LEMMA RunStepType ==
    ASSUME FenceTypeOK, NEW r \in Runs, RunStep(r) PROVE FenceTypeOK'
<1> USE DEF FenceTypeOK, Phases, Stages, Holding, Window, Committing, Returned
<1>1. CASE AcquireRunLock(r)
  BY <1>1 DEF AcquireRunLock, RunLockFree, world
<1>2. CASE Activate(r)
  BY <1>2 DEF Activate, world, Place
<1>3. CASE Dispatch(r)
  <2> DEFINE a == <<r, calls[r] + 1>>
  <2>1. a \in Attempts BY <1>3, CurrentShape DEF Dispatch
  <2>2. calls' = [calls EXCEPT ![r] = calls[r] + 1] /\ calls[r] < MaxCalls
    BY <1>3 DEF Dispatch
  <2>3. calls' \in [Runs -> 0..MaxCalls] /\ calls'[r] # 0
    BY <2>2, CallAssumption
  <2>4. worker' \in [Attempts -> Stages] /\ revoked' \subseteq Attempts
    BY <1>3, <2>1 DEF Dispatch, Move
  <2> HIDE DEF a
  <2> QED BY <1>3, <2>2, <2>3, <2>4 DEF Dispatch, world
<1>4. CASE Harvest(r)
  <2>1. Current(r) \in Attempts BY <1>4, CurrentShape DEF Harvest
  <2> QED BY <1>4, <2>1 DEF Harvest, world
<1>5. CASE TimeOut(r)
  BY <1>5 DEF TimeOut, world
<1>6. CASE Revoke(r)
  <2>1. Current(r) \in Attempts BY <1>6, CurrentShape DEF Revoke
  <2> QED BY <1>6, <2>1 DEF Revoke, world
<1>7. CASE Interrupted(r)
  BY <1>7 DEF Interrupted, world
<1>8. CASE Deactivate(r)
  BY <1>8 DEF Deactivate, Deactivated, world
<1>9. CASE ReleaseRunLock(r)
  BY <1>9 DEF ReleaseRunLock, world
<1>10. CASE RenewalFails(r)
  BY <1>10, AttemptShape DEF RenewalFails, world, Leased, Place, Procs
<1>11. CASE LoseLease(r)
  BY <1>11 DEF LoseLease, loop, world
<1> QED
  BY <1>1, <1>2, <1>3, <1>4, <1>5, <1>6, <1>7, <1>8, <1>9, <1>10, <1>11
     DEF RunStep

LEMMA WorkerStepType ==
    ASSUME FenceTypeOK, NEW a \in Attempts, WorkerStep(a) PROVE FenceTypeOK'
<1> USE DEF FenceTypeOK, Phases, Stages, Holding, Window, Committing,
            Returned, loop, world
<1>1. CASE ReadFile(a) BY <1>1 DEF ReadFile, Move
<1>2. CASE Prepare(a) BY <1>2 DEF Prepare, Move
<1>3. CASE EnterAuthority(a) BY <1>3 DEF EnterAuthority, Move
<1>4. CASE EnterGuard(a) BY <1>4 DEF EnterGuard, Move
<1>5. CASE ProbeLease(a)
  <2>1. Place(a[1]) \in Procs \X Managed
    BY <1>5, AttemptShape DEF ProbeLease, Leased, Place, Procs
  <2> QED BY <1>5, <2>1 DEF ProbeLease, Move
<1>6. CASE Land(a) BY <1>6 DEF Land, Move
<1>7. CASE LeaveAuthority(a) BY <1>7 DEF LeaveAuthority, Move
<1> QED
  BY <1>1, <1>2, <1>3, <1>4, <1>5, <1>6, <1>7 DEF WorkerStep

LEMMA CrashType ==
    ASSUME FenceTypeOK, NEW p \in Procs, ProcessDies(p) PROVE FenceTypeOK'
BY DEF FenceTypeOK, ProcessDies, Phases, Stages, Holding, Window, Committing,
       Returned, world

LEMMA FenceTypeStep == FenceTypeOK /\ [FenceNext]_fenceVars => FenceTypeOK'
<1> SUFFICES ASSUME FenceTypeOK, [FenceNext]_fenceVars PROVE FenceTypeOK'
  OBVIOUS
<1>1. CASE UNCHANGED fenceVars
  BY <1>1 DEF FenceTypeOK, fenceVars, world
<1> QED BY <1>1, RunStepType, WorkerStepType, CrashType DEF FenceNext

-----------------------------------------------------------------------------
\* The authority to commit

LEMMA SoundInit == FenceInit => FenceIsSound
<1> SUFFICES ASSUME FenceInit PROVE FenceIsSound
  OBVIOUS
<1>1. FenceTypeOK BY FenceTypeInit
<1>2. OwnershipHeld /\ OneEditor
  BY CallAssumption
     DEF FenceInit, OwnershipHeld, OneEditor, Editing, Window, Committing
<1>3. RevokedStayOut /\ ChildrenAreAwaited
  BY DEF FenceInit, RevokedStayOut, ChildrenAreAwaited, Live
<1> QED BY <1>1, <1>2, <1>3 DEF FenceIsSound

\* What is live has a current attempt number; the next attempt is not current.
LEMMA RunStepSound ==
    ASSUME FenceIsSound, NEW r \in Runs, RunStep(r) PROVE FenceIsSound'
<1>0. FenceTypeOK' BY RunStepType DEF FenceIsSound
<1> USE AttemptShape DEF FenceIsSound
<1> SUFFICES /\ OwnershipHeld' /\ RevokedStayOut'
             /\ ChildrenAreAwaited' /\ OneEditor'
  BY <1>0
<1>1. CASE AcquireRunLock(r)
  <2> USE <1>1 DEF AcquireRunLock, world
  <2>1. OwnershipHeld'
    BY DEF OwnershipHeld, Committing, Leased, Awaited, Owned, Current,
           FenceTypeOK
  <2>2. RevokedStayOut' BY DEF RevokedStayOut, Window, Committing
  <2>3. ChildrenAreAwaited'
    BY DEF ChildrenAreAwaited, Live, Leased, Awaited, Current, Place,
           FenceTypeOK
  <2>4. OneEditor' BY DEF OneEditor, Editing, Window, Committing
  <2> QED BY <2>1, <2>2, <2>3, <2>4
<1>2. CASE Activate(r)
  <2> USE <1>2 DEF Activate, world
  <2>1. OwnershipHeld'
    BY DEF OwnershipHeld, Committing, Leased, Awaited, Owned, Current,
           FenceTypeOK,
           GuardFree, Place, Host
  <2>2. RevokedStayOut' BY DEF RevokedStayOut, Window, Committing
  <2>3. ChildrenAreAwaited'
    BY DEF ChildrenAreAwaited, Live, Leased, Awaited, Current, Place,
           FenceTypeOK
  <2>4. OneEditor' BY DEF OneEditor, Editing, Window, Committing
  <2> QED BY <2>1, <2>2, <2>3, <2>4
<1>3. CASE Dispatch(r)
  <2> USE <1>3 DEF Dispatch, world, Move
  <2>0. <<r, calls[r] + 1>> \in Attempts /\ <<r, calls[r] + 1>>[1] = r
    BY CurrentShape
  <2>1. OwnershipHeld'
    BY <2>0 DEF OwnershipHeld, Committing, Leased, Awaited, Owned, Current,
                FenceTypeOK
  <2>2. RevokedStayOut'
    <3>1. \A a \in revoked : worker'[a] \notin Window
      BY <2>0 DEF RevokedStayOut, Window, Committing, FenceTypeOK
    <3>2. worker'[<<r, calls[r] + 1>>] \notin Window
      BY <2>0 DEF Window, Committing, FenceTypeOK
    <3>3. revoked \subseteq revoked' /\ revoked' \subseteq revoked \union {<<r, calls[r] + 1>>}
      OBVIOUS
    <3> QED BY <3>1, <3>2, <3>3 DEF RevokedStayOut
  <2>3. ChildrenAreAwaited'
    BY <2>0 DEF ChildrenAreAwaited, Live, Leased, Awaited, Current, Place,
                FenceTypeOK, BornRevoked
  <2>4. OneEditor' BY <2>0 DEF OneEditor, Editing, Window, Committing,
                               FenceTypeOK
  <2> QED BY <2>1, <2>2, <2>3, <2>4
<1>4. CASE Harvest(r)
  <2> USE <1>4 DEF Harvest, world
  <2>0. Current(r) \in Attempts /\ Current(r)[1] = r BY CurrentShape
  <2>1. OwnershipHeld'
    BY <2>0 DEF OwnershipHeld, Committing, Returned, Leased, Awaited, Owned,
                Current, FenceTypeOK
  <2>2. RevokedStayOut'
    BY <2>0 DEF RevokedStayOut, Window, Committing, Returned, FenceTypeOK
  <2>3. ChildrenAreAwaited'
    BY <2>0 DEF ChildrenAreAwaited, Live, Leased, Awaited, Current, Place,
                FenceTypeOK
  <2>4. OneEditor' BY DEF OneEditor, Editing, Window, Committing
  <2> QED BY <2>1, <2>2, <2>3, <2>4
<1>5. CASE TimeOut(r)
  <2> USE <1>5 DEF TimeOut, world
  <2>1. OwnershipHeld'
    BY DEF OwnershipHeld, Committing, Leased, Awaited, Owned, Current,
           FenceTypeOK
  <2>2. RevokedStayOut' BY DEF RevokedStayOut, Window, Committing
  <2>3. ChildrenAreAwaited'
    BY DEF ChildrenAreAwaited, Live, Leased, Awaited, Current, Place,
           FenceTypeOK
  <2>4. OneEditor' BY DEF OneEditor, Editing, Window, Committing
  <2> QED BY <2>1, <2>2, <2>3, <2>4
<1>6. CASE Revoke(r)
  <2> USE <1>6 DEF Revoke, world, AuthorityFree
  <2>0. Current(r) \in Attempts /\ Current(r)[1] = r BY CurrentShape
  <2>1. OwnershipHeld'
    BY <2>0 DEF OwnershipHeld, Committing, Window, Leased, Awaited, Owned,
                Current, FenceTypeOK
  <2>2. RevokedStayOut'
    BY <2>0 DEF RevokedStayOut, Window, Committing, FenceTypeOK
  <2>3. ChildrenAreAwaited'
    BY <2>0 DEF ChildrenAreAwaited, Live, Leased, Awaited, Current, Place,
                FenceTypeOK
  <2>4. OneEditor' BY DEF OneEditor, Editing, Window, Committing
  <2> QED BY <2>1, <2>2, <2>3, <2>4
<1>7. CASE Interrupted(r)
  <2> USE <1>7 DEF Interrupted, world
  <2>1. OwnershipHeld'
    BY DEF OwnershipHeld, Committing, Leased, Awaited, Owned, Current,
           FenceTypeOK
  <2>2. RevokedStayOut' BY DEF RevokedStayOut, Window, Committing
  <2>3. ChildrenAreAwaited'
    BY DEF ChildrenAreAwaited, Live, Leased, Awaited, Current, Place,
           FenceTypeOK
  <2>4. OneEditor' BY DEF OneEditor, Editing, Window, Committing
  <2> QED BY <2>1, <2>2, <2>3, <2>4
<1>8. CASE Deactivate(r)
  <2> USE <1>8 DEF Deactivate, Deactivated, world
  <2>1. OwnershipHeld'
    BY DEF OwnershipHeld, Committing, Leased, Awaited, Owned, Current,
           FenceTypeOK,
           GuardFree, Host
  <2>2. RevokedStayOut' BY DEF RevokedStayOut, Window, Committing
  <2>3. ChildrenAreAwaited'
    BY DEF ChildrenAreAwaited, Live, Leased, Awaited, Current, Place,
           FenceTypeOK
  <2>4. OneEditor' BY DEF OneEditor, Editing, Window, Committing
  <2> QED BY <2>1, <2>2, <2>3, <2>4
<1>9. CASE ReleaseRunLock(r)
  <2> USE <1>9 DEF ReleaseRunLock, world
  <2>1. OwnershipHeld'
    BY DEF OwnershipHeld, Committing, Leased, Awaited, Owned, Current,
           FenceTypeOK
  <2>2. RevokedStayOut' BY DEF RevokedStayOut, Window, Committing
  <2>3. ChildrenAreAwaited'
    BY DEF ChildrenAreAwaited, Live, Leased, Awaited, Current, Place,
           FenceTypeOK
  <2>4. OneEditor' BY DEF OneEditor, Editing, Window, Committing
  <2> QED BY <2>1, <2>2, <2>3, <2>4
<1>10. CASE RenewalFails(r)
  <2> USE <1>10 DEF RenewalFails, world
  <2>1. OwnershipHeld'
    BY DEF OwnershipHeld, Committing, Leased, Awaited, Owned, Current,
           FenceTypeOK
  <2>2. RevokedStayOut' BY DEF RevokedStayOut, Window, Committing
  <2>3. ChildrenAreAwaited'
    BY DEF ChildrenAreAwaited, Live, Leased, Awaited, Current, Place,
           FenceTypeOK, Holding
  <2>4. OneEditor' BY DEF OneEditor, Editing, Window, Committing
  <2> QED BY <2>1, <2>2, <2>3, <2>4
<1>11. CASE LoseLease(r)
  <2> USE <1>11 DEF LoseLease, loop, world
  <2>1. OwnershipHeld'
    BY DEF OwnershipHeld, Committing, Leased, Awaited, Owned, Current,
           FenceTypeOK
  <2>2. RevokedStayOut' BY DEF RevokedStayOut, Window, Committing
  <2>3. ChildrenAreAwaited'
    BY DEF ChildrenAreAwaited, Live, Leased, Awaited, Current, Place,
           FenceTypeOK
  <2>4. OneEditor' BY DEF OneEditor, Editing, Window, Committing
  <2> QED BY <2>1, <2>2, <2>3, <2>4
<1> QED
  BY <1>1, <1>2, <1>3, <1>4, <1>5, <1>6, <1>7, <1>8, <1>9, <1>10, <1>11
     DEF RunStep

LEMMA WorkerStepSound ==
    ASSUME FenceIsSound, NEW a \in Attempts, WorkerStep(a) PROVE FenceIsSound'
<1>0. FenceTypeOK' BY WorkerStepType DEF FenceIsSound
<1> USE AttemptShape DEF FenceIsSound
<1> SUFFICES /\ OwnershipHeld' /\ RevokedStayOut'
             /\ ChildrenAreAwaited' /\ OneEditor'
  BY <1>0
<1>1. CASE ReadFile(a)
  <2> USE <1>1 DEF ReadFile, Move, loop, world, FenceTypeOK
  <2>1. OwnershipHeld'
    BY DEF OwnershipHeld, Committing, Leased, Awaited, Owned, Current
  <2>2. RevokedStayOut' BY DEF RevokedStayOut, Window, Committing
  <2>3. ChildrenAreAwaited'
    BY DEF ChildrenAreAwaited, Live, Returned, Leased, Awaited, Current, Place
  <2>4. OneEditor' BY CallAssumption DEF OneEditor, PathFree, Editing, Window,
                                         Committing
  <2> QED BY <2>1, <2>2, <2>3, <2>4
<1>2. CASE Prepare(a)
  <2> USE <1>2 DEF Prepare, Move, loop, world, FenceTypeOK
  <2>1. OwnershipHeld'
    BY DEF OwnershipHeld, Committing, Leased, Awaited, Owned, Current
  <2>2. RevokedStayOut' BY DEF RevokedStayOut, Window, Committing
  <2>3. ChildrenAreAwaited'
    BY DEF ChildrenAreAwaited, Live, Returned, Leased, Awaited, Current, Place
  <2>4. OneEditor' BY CallAssumption DEF OneEditor, Editing, Window, Committing
  <2> QED BY <2>1, <2>2, <2>3, <2>4
<1>3. CASE EnterAuthority(a)
  <2> USE <1>3 DEF EnterAuthority, AsksAuthority, Move, loop, world,
                   FenceTypeOK
  <2>1. OwnershipHeld'
    BY DEF OwnershipHeld, Committing, Leased, Awaited, Owned, Current
  <2>2. RevokedStayOut' BY DEF RevokedStayOut, Window, Committing
  <2>3. ChildrenAreAwaited'
    BY DEF ChildrenAreAwaited, Live, Returned, Leased, Awaited, Current, Place
  <2>4. OneEditor' BY CallAssumption DEF OneEditor, Editing, Window, Committing
  <2> QED BY <2>1, <2>2, <2>3, <2>4
<1>4. CASE EnterGuard(a)
  <2> USE <1>4 DEF EnterGuard, Move, loop, world, FenceTypeOK
  <2>1. OwnershipHeld'
    BY DEF OwnershipHeld, RevokedStayOut, ChildrenAreAwaited, Live, Returned,
           Window, Committing, Leased, Awaited, Owned, Current
  <2>2. RevokedStayOut' BY DEF RevokedStayOut, Window, Committing
  <2>3. ChildrenAreAwaited'
    BY DEF ChildrenAreAwaited, Live, Returned, Leased, Awaited, Current, Place
  <2>4. OneEditor' BY CallAssumption DEF OneEditor, Editing, Window, Committing
  <2> QED BY <2>1, <2>2, <2>3, <2>4
<1>5. CASE ProbeLease(a)
  <2> USE <1>5 DEF ProbeLease, AsksAuthority, Move, loop, world, FenceTypeOK
  <2>1. OwnershipHeld'
    BY DEF OwnershipHeld, ChildrenAreAwaited, Live, Returned, Committing,
           Leased, Awaited, Owned, Current
  <2>2. RevokedStayOut' BY DEF RevokedStayOut, Window, Committing
  <2>3. ChildrenAreAwaited'
    BY DEF ChildrenAreAwaited, Live, Returned, Leased, Awaited, Current,
           Place, Holding
  <2>4. OneEditor' BY CallAssumption DEF OneEditor, Editing, Window, Committing
  <2> QED BY <2>1, <2>2, <2>3, <2>4
<1>6. CASE Land(a)
  <2> USE <1>6 DEF Land, Move, loop, world, FenceTypeOK
  <2>1. OwnershipHeld'
    BY DEF OwnershipHeld, Committing, Leased, Awaited, Owned, Current
  <2>2. RevokedStayOut' BY DEF RevokedStayOut, Window, Committing
  <2>3. ChildrenAreAwaited'
    BY DEF ChildrenAreAwaited, Live, Returned, Leased, Awaited, Current, Place
  <2>4. OneEditor' BY CallAssumption DEF OneEditor, Editing, Window, Committing
  <2> QED BY <2>1, <2>2, <2>3, <2>4
<1>7. CASE LeaveAuthority(a)
  <2> USE <1>7 DEF LeaveAuthority, MayLeave, Move, loop, world, FenceTypeOK
  <2>1. OwnershipHeld'
    BY DEF OwnershipHeld, Committing, Leased, Awaited, Owned, Current
  <2>2. RevokedStayOut' BY DEF RevokedStayOut, Window, Committing
  <2>3. ChildrenAreAwaited'
    BY DEF ChildrenAreAwaited, Live, Returned, Leased, Awaited, Current, Place
  <2>4. OneEditor' BY CallAssumption DEF OneEditor, Editing, Window, Committing
  <2> QED BY <2>1, <2>2, <2>3, <2>4
<1> QED
  BY <1>1, <1>2, <1>3, <1>4, <1>5, <1>6, <1>7 DEF WorkerStep

LEMMA CrashSound ==
    ASSUME FenceIsSound, NEW p \in Procs, ProcessDies(p) PROVE FenceIsSound'
<1>0. FenceTypeOK' BY CrashType DEF FenceIsSound
<1> USE AttemptShape DEF FenceIsSound, ProcessDies, world
<1>1. OwnershipHeld'
  BY DEF OwnershipHeld, ChildrenAreAwaited, Live, Returned, Committing, Leased,
         Awaited, Owned, Current, FenceTypeOK, Host, Holding
<1>2. RevokedStayOut' BY DEF RevokedStayOut, Window, Committing, FenceTypeOK
<1>3. ChildrenAreAwaited'
  BY DEF ChildrenAreAwaited, Live, Returned, Leased, Awaited, Current, Place,
         FenceTypeOK, Host, Holding
<1>4. OneEditor'
  BY CallAssumption DEF OneEditor, Editing, Window, Committing, FenceTypeOK
<1> QED BY <1>0, <1>1, <1>2, <1>3, <1>4

LEMMA SoundStep == FenceIsSound /\ [FenceNext]_fenceVars => FenceIsSound'
<1> SUFFICES ASSUME FenceIsSound, [FenceNext]_fenceVars PROVE FenceIsSound'
  OBVIOUS
<1>1. CASE UNCHANGED fenceVars
  <2>1. FenceTypeOK' BY <1>1, FenceTypeStep DEF FenceIsSound
  <2> USE <1>1 DEF fenceVars, world, FenceIsSound
  <2>2. OwnershipHeld'
    BY DEF OwnershipHeld, Committing, Leased, Awaited, Owned, Current
  <2>3. RevokedStayOut' BY DEF RevokedStayOut, Window, Committing
  <2>4. ChildrenAreAwaited'
    BY DEF ChildrenAreAwaited, Live, Leased, Awaited, Current, Place
  <2>5. OneEditor' BY DEF OneEditor, Editing, Window, Committing
  <2> QED BY <2>1, <2>2, <2>3, <2>4, <2>5
<1> QED BY <1>1, RunStepSound, WorkerStepSound, CrashSound DEF FenceNext

\* The fence is never out of step with the runs it stands for, for any runs,
\* sessions and processes, whatever timeouts, interrupts, lost leases and
\* crashes come between (effect_mutation_authority).
THEOREM FenceStaysSound == FenceSpec => []FenceIsSound
BY SoundInit, SoundStep, PTL DEF FenceSpec

-----------------------------------------------------------------------------
\* What a step may never do.  Only Land changes the world.

LEMMA OnlyLandingChanges ==
    ASSUME [FenceNext]_fenceVars, world' # world
    PROVE  \E a \in Attempts :
              /\ worker[a] = "committing"
              /\ landed' = landed \union {a}
              /\ file' = IF a \in Edits THEN a ELSE file
              /\ UNCHANGED <<revoked, base, lost, fenced, phase, told>>
<1>1. ~UNCHANGED fenceVars BY DEF fenceVars, world
<1>2. ASSUME NEW r \in Runs, RunStep(r) PROVE FALSE
  BY <1>2
     DEF RunStep, AcquireRunLock, Activate, Dispatch, Harvest, TimeOut, Revoke,
         Interrupted, Deactivate, ReleaseRunLock, RenewalFails, LoseLease, world
<1>3. ASSUME NEW p \in Procs, ProcessDies(p) PROVE FALSE
  BY <1>3 DEF ProcessDies, world
<1>4. PICK a \in Attempts : WorkerStep(a)
  BY <1>1, <1>2, <1>3 DEF FenceNext
<1>5. Land(a)
  BY <1>4 DEF WorkerStep, ReadFile, Prepare, EnterAuthority, EnterGuard,
              ProbeLease, LeaveAuthority, world
<1> QED BY <1>5 DEF Land, world, loop

\* After a timeout was told, nothing the abandoned worker does changes the
\* world: the timeout is the end of the call for the model and for the disk.
THEOREM TimeoutSilences == FenceSpec => SilentAfterTimeout
<1> DEFINE Silent == \A a \in Attempts :
                        told[a] = "timeout" => (a \in landed' <=> a \in landed)
<1>1. ASSUME FenceIsSound, [FenceNext]_fenceVars PROVE Silent
  <2>1. CASE UNCHANGED world BY <2>1 DEF world
  <2>2. CASE world' # world
    <3>1. PICK a \in Attempts : /\ worker[a] = "committing"
                                /\ landed' = landed \union {a}
      BY <1>1, <2>2, OnlyLandingChanges
    <3>2. told[a] # "timeout"
      BY <1>1, <3>1 DEF FenceIsSound, RevokedStayOut, Window, Committing
    <3> QED BY <3>1, <3>2
  <2> QED BY <2>1, <2>2
<1>2. FenceIsSound /\ [FenceNext]_fenceVars => [Silent]_fenceVars BY <1>1
<1> QED BY <1>2, FenceStaysSound, PTL DEF FenceSpec, SilentAfterTimeout

\* No effect lands unless the run of its call still holds the session's run
\* lock, in whatever process the abandoned thread lives.
THEOREM LandingsAreLocked == FenceSpec => LandsUnderRunLock
<1> DEFINE Locked == \A a \in landed' \ landed : phase[a[1]] \in Holding
<1>1. ASSUME FenceIsSound, [FenceNext]_fenceVars PROVE Locked
  <2>1. CASE UNCHANGED world BY <2>1 DEF world
  <2>2. CASE world' # world
    <3>1. PICK a \in Attempts : /\ worker[a] = "committing"
                                /\ landed' = landed \union {a}
      BY <1>1, <2>2, OnlyLandingChanges
    <3>2. Awaited(a) \/ a[1] \in active
      BY <1>1, <3>1 DEF FenceIsSound, OwnershipHeld, Committing, Owned
    <3>3. phase[a[1]] \in Holding
      BY <1>1, <3>2 DEF FenceIsSound, FenceTypeOK, Awaited, Holding
    <3> QED BY <3>1, <3>3
  <2> QED BY <2>1, <2>2
<1>2. FenceIsSound /\ [FenceNext]_fenceVars => [Locked]_fenceVars BY <1>1
<1> QED BY <1>2, FenceStaysSound, PTL DEF FenceSpec, LandsUnderRunLock

\* An edit replaces exactly the bytes it read, whatever other sessions do to
\* the same file.
THEOREM EditsAreNotLost == FenceSpec => NoLostEdit
<1> DEFINE Kept == file' # file => base[file'] = file
<1>1. ASSUME FenceIsSound, [FenceNext]_fenceVars PROVE Kept
  <2>1. CASE UNCHANGED world BY <2>1 DEF world
  <2>2. CASE world' # world
    <3>1. PICK a \in Attempts : /\ worker[a] = "committing"
                                /\ file' = IF a \in Edits THEN a ELSE file
      BY <1>1, <2>2, OnlyLandingChanges
    <3>2. a \in Edits => base[a] = file
      BY <1>1, <3>1 DEF FenceIsSound, OneEditor
    <3> QED BY <3>1, <3>2
  <2> QED BY <2>1, <2>2
<1>2. FenceIsSound /\ [FenceNext]_fenceVars => [Kept]_fenceVars BY <1>1
<1> QED BY <1>2, FenceStaysSound, PTL DEF FenceSpec, NoLostEdit

\* Once a process has seen the lease of a session lost, or could not tell, none
\* of its calls changes the world again.
THEOREM FencedStaySilent == FenceSpec => FencedIsSilent
<1> DEFINE Quiet == \A a \in landed' \ landed : Place(a[1]) \notin fenced
<1>1. ASSUME FenceIsSound, [FenceNext]_fenceVars PROVE Quiet
  <2>1. CASE UNCHANGED world BY <2>1 DEF world
  <2>2. CASE world' # world
    <3>1. PICK a \in Attempts : /\ worker[a] = "committing"
                                /\ landed' = landed \union {a}
      BY <1>1, <2>2, OnlyLandingChanges
    <3>2. CASE Leased(a[1])
      <4>1. Live(a) /\ a \notin revoked
        BY <1>1, <3>1 DEF FenceIsSound, OwnershipHeld, Committing, Live,
                          Returned
      <4>2. Place(a[1]) \notin fenced
        BY <1>1, <3>2, <4>1 DEF FenceIsSound, ChildrenAreAwaited
      <4> QED BY <3>1, <4>2
    <3>3. CASE ~Leased(a[1])
      <4>1. Place(a[1]) \notin fenced
        BY <1>1, <3>3 DEF FenceIsSound, FenceTypeOK, Place, Leased
      <4> QED BY <3>1, <4>1
    <3> QED BY <3>2, <3>3
  <2> QED BY <2>1, <2>2
<1>2. FenceIsSound /\ [FenceNext]_fenceVars => [Quiet]_fenceVars BY <1>1
<1> QED BY <1>2, FenceStaysSound, PTL DEF FenceSpec, FencedIsSilent
=============================================================================
