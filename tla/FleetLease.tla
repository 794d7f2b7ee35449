----------------------------- MODULE FleetLease -----------------------------
(***************************************************************************)
(* The durable fleet registry (fleet/store.py), the run coordinator        *)
(* (fleet/coordinator.py) and the discipline the sub-agent runner keeps    *)
(* around one run (subagent/runner.py: begin, round heartbeat, fence       *)
(* check, settlement), for ONE run workspace shared by several processes.  *)
(*                                                                         *)
(* Disk: the leases of the workspace, the settlement entry, the JSONL of   *)
(* facts.  Each registry operation re-reads disk under the cross-process   *)
(* flock and writes it back with one os.replace, hence is one action.      *)
(* begin_run's first read takes no lock and is an action of its own.       *)
(*                                                                         *)
(* Time is kept as the seconds left in each window (expires_at - now,      *)
(* floored at 0), so that only differences of clock readings matter.       *)
(***************************************************************************)
EXTENDS Naturals, Sequences

CONSTANTS
    Coords,    \* processes: runners with a coordinator, and operators
    Ttl,       \* the ttl_seconds each of them is configured with
    NoExpiry,  \* expires_at = None
    MaxGen     \* bound: generations minted for the workspace

ASSUME NoExpiryAssumption == NoExpiry \notin Nat
ASSUME TtlAssumption == Ttl \in [Coords -> (Nat \ {0}) \union {NoExpiry}]
ASSUME MaxGenAssumption == MaxGen \in Nat \ {0}

VARIABLES
    leases,      \* state["leases"]; lease-<ws>-g<n> is leases[n]
    settlement,  \* state["settlements"][ws]: the settling generation, or 0
    facts,       \* facts/<ws>.jsonl
    pc,          \* where each process is in the life of its run
    seen,        \* begin_run's local `current`, from the unlocked read
    handle,      \* generation of the lease object the process carries, or 0
    fence       \* ToolExecutionJournal's sticky effect fence for the run

disk == <<leases, settlement, facts>>
vars == <<leases, settlement, facts, pc, seen, handle, fence>>

Windows == Nat \union {NoExpiry}
LeaseStates == {"active", "superseded", "settled"}
Takeovers == {"none", "expiry_reclaim", "operator_force_reclaim"}
Events == {"run_started", "run_settled"}
NoLease == [gen |-> 0, state |-> "none", left |-> NoExpiry]

-----------------------------------------------------------------------------
\* The registry

Newest == Len(leases)

\* Mutant: the fence forgets that the window is authority.
RequireCurrentNoWindow(g) ==
    g # 0 /\ g = Newest /\ leases[g].state = "active"

\* _require_current: newest generation, active, window still open.
RequireCurrent(g) ==
    /\ g # 0
    /\ g = Newest
    /\ leases[g].state = "active"
    /\ leases[g].left # 0

NewLease(c, takeover) ==
    [state |-> "active", left |-> Ttl[c], takeover |-> takeover]

Superseded == [leases EXCEPT ![Newest].state = "superseded"]

\* The successor's record is added to `old`, the leases as they are left.
Mint(c, old, takeover) ==
    /\ Newest < MaxGen
    /\ leases' = Append(old, NewLease(c, takeover))
    /\ handle' = [handle EXCEPT ![c] = Newest + 1]
    /\ UNCHANGED <<settlement, facts>>

RecordFact(g, event) ==
    /\ facts' = Append(facts, [gen |-> g, event |-> event])
    /\ UNCHANGED <<leases, settlement>>

\* Mutant: the settled check is dropped.
MayAcquireSettled == Newest = 0 \/ leases[Newest].state # "active"

\* acquire_lease: never steps on a live lease nor on a settled run.
MayAcquire == Newest = 0 \/ leases[Newest].state = "superseded"

\* Mutant: no generation CAS.
MayReclaimExpiredNoCas(expected) ==
    leases[Newest].state # "settled" /\ leases[Newest].left = 0

\* reclaim_if_expired: past its window, and still the generation observed.
MayReclaimExpired(expected) ==
    /\ leases[Newest].state # "settled"
    /\ leases[Newest].left = 0
    /\ Newest = expected

\* Mutant: settlement does not gate the takeover.
MayReclaimSettled(expected) == Newest = expected

\* force_reclaim and reclaim: any generation that is not settled, if it is the
\* expected one.
MayReclaim(expected) ==
    /\ leases[Newest].state # "settled"
    /\ Newest = expected

\* settle accepts the newest lease even when it is already settled; the
\* settlements entry is what refuses a second one.
MaySettle(g) ==
    /\ g # 0
    /\ g = Newest
    /\ leases[g].state \in {"active", "settled"}
    /\ leases[g].left # 0
    /\ settlement = 0

SettledLeases(g) == [leases EXCEPT ![g].state = "settled"]

\* begin_run: settled (SettlementError) or a live window (LeaseActiveError).
BeginRefuses(lease) ==
    \/ lease.state = "settled"
    \/ lease.state = "active" /\ lease.left # 0

Goto(c, label) == pc' = [pc EXCEPT ![c] = label]

\* The operation raised, or the run is over: the process gives the run up.
Leave(c) ==
    /\ Goto(c, "idle")
    /\ handle' = [handle EXCEPT ![c] = 0]
    /\ seen' = [seen EXCEPT ![c] = NoLease]

-----------------------------------------------------------------------------
Init ==
    /\ leases = << >>
    /\ settlement = 0
    /\ facts = << >>
    /\ pc = [c \in Coords |-> "idle"]
    /\ seen = [c \in Coords |-> NoLease]
    /\ handle = [c \in Coords |-> 0]
    /\ fence = [c \in Coords |-> FALSE]

\* store.current_lease as begin_run (and an operator's recover()) calls it.
CurrentLease(c) ==
    /\ pc[c] = "idle"
    /\ seen' = [seen EXCEPT ![c] =
           IF Newest = 0 THEN NoLease
           ELSE [gen |-> Newest, state |-> leases[Newest].state,
                 left |-> leases[Newest].left]]
    /\ Goto(c, "observed")
    /\ UNCHANGED <<disk, handle, fence>>

\* begin_run refuses on what it saw.
BeginRefused(c) ==
    /\ pc[c] = "observed"
    /\ BeginRefuses(seen[c])
    /\ Leave(c)
    /\ UNCHANGED <<disk, fence>>

\* begin_run saw no lease, or one that is neither active nor settled.
AcquireLease(c) ==
    /\ pc[c] = "observed"
    /\ seen[c].state \in {"none", "superseded"}
    /\ IF MayAcquire
         THEN /\ Mint(c, leases, "none")
              /\ Goto(c, "begun")
              /\ UNCHANGED seen
         ELSE Leave(c) /\ UNCHANGED disk
    /\ UNCHANGED fence

\* begin_run saw an expired lease: takeover licensed by time, and by the
\* generation it saw still being the newest.
ReclaimIfExpired(c) ==
    /\ pc[c] = "observed"
    /\ seen[c].state = "active"
    /\ seen[c].left = 0
    /\ IF MayReclaimExpired(seen[c].gen)
         THEN /\ Mint(c, Superseded, "expiry_reclaim")
              /\ Goto(c, "begun")
              /\ UNCHANGED seen
         ELSE Leave(c) /\ UNCHANGED disk
    /\ UNCHANGED fence

\* force_reclaim_run: the operator names the exact lease it saw.
ForceReclaim(c) ==
    /\ pc[c] = "observed"
    /\ seen[c].gen # 0
    /\ IF MayReclaim(seen[c].gen)
         THEN /\ Mint(c, Superseded, "operator_force_reclaim")
              /\ Goto(c, "working")
              /\ UNCHANGED seen
         ELSE Leave(c) /\ UNCHANGED disk
    /\ UNCHANGED fence

\* reclaim_run without expected_generation: takes over whatever is there.
Reclaim(c) ==
    /\ pc[c] = "idle"
    /\ Newest # 0
    /\ MayReclaim(Newest)
    /\ Mint(c, Superseded, "none")
    /\ Goto(c, "working")
    /\ UNCHANGED <<seen, fence>>

\* reclaim_run_if_expired: an operator's takeover licensed by time.  It names no
\* generation, so it takes whatever lease it finds, provided it is expired.
ReclaimRunIfExpired(c) ==
    /\ pc[c] = "idle"
    /\ Newest # 0
    /\ MayReclaimExpired(Newest)
    /\ Mint(c, Superseded, "expiry_reclaim")
    /\ Goto(c, "working")
    /\ UNCHANGED <<seen, fence>>

\* _begin_fleet_run's run_started fact; if it is fenced the run is refused
\* and finalized, which tries to settle.
RunStarted(c) ==
    /\ pc[c] = "begun"
    /\ IF RequireCurrent(handle[c])
         THEN RecordFact(handle[c], "run_started") /\ Goto(c, "working")
         ELSE Goto(c, "settling") /\ UNCHANGED disk
    /\ UNCHANGED <<seen, handle, fence>>

\* _renew_fleet_run at the round boundary.  Without a ttl it does nothing; a
\* refused renewal fences the effects of the run for good.
RenewFleetRun(c) ==
    /\ pc[c] = "working"
    /\ Goto(c, "beating")
    /\ IF Ttl[c] = NoExpiry THEN UNCHANGED <<leases, fence>>
       ELSE IF RequireCurrent(handle[c])
         THEN /\ leases' = [leases EXCEPT ![handle[c]].left =
                     IF @ = NoExpiry THEN NoExpiry ELSE Ttl[c]]
              /\ UNCHANGED fence
         ELSE fence' = [fence EXCEPT ![c] = TRUE] /\ UNCHANGED leases
    /\ UNCHANGED <<settlement, facts, seen, handle>>

\* Mutant: only the fence of the tool journal is looked at.
FenceLostStickyOnly(c) == fence[c]

\* _fleet_fence_lost: fenced for good, or the registry no longer knows the
\* lease as current.
FenceLost(c) == fence[c] \/ ~RequireCurrent(handle[c])

\* After the heartbeat the loop goes on, or returns a refused result.
FenceCheck(c) ==
    /\ pc[c] = "beating"
    /\ Goto(c, IF FenceLost(c) THEN "settling" ELSE "working")
    /\ UNCHANGED <<disk, seen, handle, fence>>

\* The loop returns: answered, failed, cancelled or out of rounds.
RunEnds(c) ==
    /\ pc[c] = "working"
    /\ Goto(c, "settling")
    /\ UNCHANGED <<disk, seen, handle, fence>>

\* _settle_fleet_run, first half: the run_settled fact.
RunSettled(c) ==
    /\ pc[c] = "settling"
    /\ IF RequireCurrent(handle[c])
         THEN /\ RecordFact(handle[c], "run_settled")
              /\ Goto(c, "finishing")
              /\ UNCHANGED <<seen, handle>>
         ELSE Leave(c) /\ UNCHANGED disk
    /\ UNCHANGED fence

\* _settle_fleet_run, second half: finish_run.
FinishRun(c) ==
    /\ pc[c] = "finishing"
    /\ IF MaySettle(handle[c])
         THEN /\ settlement' = handle[c]
              /\ leases' = SettledLeases(handle[c])
              /\ UNCHANGED facts
         ELSE UNCHANGED disk
    /\ Leave(c)
    /\ UNCHANGED fence

\* The process dies: only disk survives.
Crash(c) ==
    /\ pc[c] # "idle"
    /\ Leave(c)
    /\ fence' = [fence EXCEPT ![c] = FALSE]
    /\ UNCHANGED disk

\* Mutant: a run_settled fact that could not be written is skipped.
AfterErrorSkipsFact(label) ==
    CASE label = "working" -> "beating"
      [] label \in {"begun", "beating"} -> "settling"
      [] label = "settling" -> "finishing"
      [] OTHER -> "idle"

\* A failed heartbeat goes on to the fence check, a failed start fact or fence
\* check finalizes the run, a failed begin or settlement is given up.
AfterError(label) ==
    CASE label = "working" -> "beating"
      [] label \in {"begun", "beating"} -> "settling"
      [] OTHER -> "idle"

\* The registry cannot be read or written: the pending operation raises and
\* nothing reaches disk; a failed heartbeat fences the run's effects.
StoreError(c) ==
    /\ pc[c] # "idle"
    /\ IF AfterError(pc[c]) = "idle" THEN Leave(c)
         ELSE Goto(c, AfterError(pc[c])) /\ UNCHANGED <<seen, handle>>
    /\ fence' = IF pc[c] = "working" /\ Ttl[c] # NoExpiry
                   THEN [fence EXCEPT ![c] = TRUE] ELSE fence
    /\ UNCHANGED disk

Less(window) == IF window \in Nat \ {0} THEN window - 1 ELSE window

\* A second passes for every window, and for begin_run's copies of one.
Tick ==
    /\ leases' = [g \in DOMAIN leases |->
                    [leases[g] EXCEPT !.left = Less(@)]]
    /\ seen' = [c \in Coords |-> [seen[c] EXCEPT !.left = Less(@)]]
    /\ UNCHANGED <<settlement, facts, pc, handle, fence>>

\* What a process does of its own once it has been asked to run.
Step(c) ==
    \/ CurrentLease(c) \/ BeginRefused(c) \/ AcquireLease(c)
    \/ ReclaimIfExpired(c) \/ RunStarted(c) \/ RenewFleetRun(c)
    \/ FenceCheck(c) \/ RunEnds(c) \/ RunSettled(c) \/ FinishRun(c)

Operator(c) == ForceReclaim(c) \/ Reclaim(c) \/ ReclaimRunIfExpired(c)
Fault(c) == Crash(c) \/ StoreError(c)

Next == Tick \/ \E c \in Coords : Step(c) \/ Operator(c) \/ Fault(c)

Spec == Init /\ [][Next]_vars

-----------------------------------------------------------------------------
\* Properties

\* Disk and process state keep their shape; windows never run negative.
TypeOK ==
    /\ leases \in Seq([state : LeaseStates, left : Windows,
                      takeover : Takeovers])
    /\ settlement \in Nat
    /\ facts \in Seq([gen : Nat, event : Events])
    /\ pc \in [Coords -> {"idle", "observed", "begun", "working", "beating",
                          "settling", "finishing"}]
    /\ seen \in [Coords -> [gen : Nat, state : LeaseStates \union {"none"},
                            left : Windows]]
    /\ handle \in [Coords -> Nat]
    /\ fence \in [Coords -> BOOLEAN]

\* However takeovers interleave, exactly the newest generation is not
\* superseded: no phantom second active lease (store.py, reclaim).
OnlyNewestLives ==
    \A g \in 1..Newest : leases[g].state = "superseded" <=> g # Newest

\* The settlements entry and the settled lease state, two records written by
\* settle, name the same generation or none.
SettlementMatchesLease ==
    /\ settlement <= Newest
    /\ \A g \in 1..Newest : leases[g].state = "settled" <=> settlement = g

\* No two processes pass the write fence at the same time, whatever stale
\* handles they carry.
OneWritableHolder ==
    \A c, d \in Coords :
        RequireCurrent(handle[c]) /\ RequireCurrent(handle[d]) => c = d

\* The facts of the run read as one story: generations in order, and in each
\* at most one start, then at most one end.
FactsTellOneStory ==
    \A i, j \in 1..Len(facts) : i < j =>
        \/ facts[i].gen < facts[j].gen
        \/ /\ facts[i].gen = facts[j].gen
           /\ facts[i].event = "run_started"
           /\ facts[j].event = "run_settled"

\* What a process has got to: its handle is a minted generation exactly while
\* it runs one, and the facts of that generation are no further than it is.
Carrier(c) ==
    /\ handle[c] <= Newest
    /\ seen[c].gen <= Newest
    /\ seen[c].state # "none" => seen[c].gen # 0
    /\ handle[c] = 0 <=> pc[c] \in {"idle", "observed"}
    /\ \A i \in 1..Len(facts) : facts[i].gen = handle[c] =>
          /\ pc[c] # "begun"
          /\ facts[i].event = "run_settled" => pc[c] = "finishing"
    /\ pc[c] = "finishing" /\ handle[c] = Newest =>
          /\ facts # << >>
          /\ facts[Len(facts)] = [gen |-> handle[c], event |-> "run_settled"]

\* A generation is carried by at most one process, while that process runs, and
\* the facts of that generation are exactly what the process has got to:
\* nothing before run_started, no run_settled before it settles, and
\* run_settled last while it is still the newest.  (What makes the properties
\* about facts and settlement inductive.)
CarriersAreHonest ==
    /\ \A i \in 1..Len(facts) : facts[i].gen \in 1..Newest
    /\ \A c, d \in Coords : handle[c] # 0 /\ handle[c] = handle[d] => c = d
    /\ \A c \in Coords : Carrier(c)

\* A settlement is always told: the last fact of a settled run is the settling
\* generation's run_settled (runner.py writes the fact before finish_run).
SettlementIsTold ==
    settlement # 0 =>
        /\ facts # << >>
        /\ facts[Len(facts)] = [gen |-> settlement, event |-> "run_settled"]

\* The registry and the processes around it are never out of step, whatever
\* takeovers, settlements, crashes and failed writes interleave: the parts
\* above together, which is the invariant every step preserves.
RegistryIsSound ==
    /\ TypeOK
    /\ OnlyNewestLives
    /\ SettlementMatchesLease
    /\ CarriersAreHonest
    /\ FactsTellOneStory
    /\ SettlementIsTold

\* Settlement is exactly once and closes the run: afterwards no takeover, no
\* fact, no other settlement, from any process and any stale handle.
SettledIsClosed ==
    [][settlement # 0 =>
         /\ settlement' = settlement
         /\ facts' = facts
         /\ Len(leases') = Newest]_vars

\* "TTL is authority": once the window of the active lease has passed, its
\* holder can no longer renew it, write a fact or settle, successor or not.
ExpiredNeverRevives ==
    [][\A g \in 1..Newest : leases[g].state = "active" /\ leases[g].left = 0 =>
         /\ leases'[g].left = 0
         /\ leases'[g].state # "settled"
         /\ \A i \in Len(facts) + 1 .. Len(facts') : facts'[i].gen # g]_vars

\* A takeover licensed by time supersedes a lease that is expired at that very
\* moment; and when a run begins by it (begin_run reads, and later reclaims),
\* the lease it supersedes is the one that run observed: of racing recoveries
\* one wins.  (An operator's reclaim_run_if_expired observes nothing.)
TimeLicensedTakeover ==
    [][\A c \in Coords :
         /\ Len(leases') = Newest + 1
         /\ leases'[Newest + 1].takeover = "expiry_reclaim"
         /\ handle'[c] = Newest + 1
         => /\ leases[Newest].left = 0
            /\ pc'[c] = "begun" => seen[c].gen = Newest]_vars

\* The registry keeps the promise of RunAuthority.
Authority == INSTANCE RunAuthority WITH
    epoch <- Len(leases),
    log <- [i \in DOMAIN facts |-> facts[i].gen],
    done <- settlement

KeepsAuthority == Authority!Spec

\* A superseded or expired worker stops: whoever carries a generation that is
\* no longer current gives the run up, at the latest at the fence check of its
\* next round, and without counting on the limit of rounds (runner.py,
\* _fleet_fence_lost).  An expiry-free worker does not heartbeat, so the check
\* of the registry is all that tells it.
StaleWorkersStop ==
    \A c \in Coords, g \in 1..MaxGen :
        handle[c] = g /\ ~RequireCurrent(g) ~> handle[c] # g
=============================================================================
