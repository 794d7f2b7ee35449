------------------------------ MODULE TaskClaim ------------------------------
(***************************************************************************)
(* The right to execute one task (introspection/task_claim.py) and the     *)
(* task ledger it protects (introspection/task_store.py).  Both are files  *)
(* of rows of which the last one that parses counts.  Every operation runs *)
(* under the claims lock of the goal and takes the tasks lock inside it,   *)
(* so it is one step here; what can come between its writes is an error,   *)
(* a line written in part, or the death of the process.                    *)
(*                                                                         *)
(* A row appended after a line written in part is glued to it and lost,    *)
(* although the append returns: a file is [now, torn], the row that counts *)
(* and whether it ends with such a line.                                   *)
(***************************************************************************)
EXTENDS Naturals, FiniteSets

CONSTANTS
    Runs,       \* sessions that have an identity
    Policies,   \* the values of claim_enforcement considered
    Faults,     \* what may happen at an append
    MaxClaims,  \* bound: claims issued
    MaxFaults,  \* bound: appends that go wrong
    None        \* no token; a caller without a run identity

ASSUME PolicyAssumption == Policies \subseteq {"off", "warn", "enforce"}
ASSUME FaultAssumption == Faults \subseteq {"fail", "torn", "crash"}
ASSUME BoundAssumption == MaxClaims \in Nat /\ MaxFaults \in Nat
ASSUME NoneAssumption == None \notin Runs

VARIABLES
    policy,  \* ClaimPolicy.enforcement
    claims,  \* the claims ledger: the claim that counts
    tasks,   \* the task ledger: the status that counts
    tokens,  \* the tokens each run has been given
    ids,     \* claims issued so far
    wrote,   \* history: who wrote the task in this step, and with which claim
    ended,   \* history: claims that were released, revoked or taken over
    faults

ledgers == <<claims, tasks>>
vars == <<policy, ledgers, tokens, ids, wrote, ended, faults>>

-----------------------------------------------------------------------------
Statuses == {"pending", "in_progress", "blocked", "done", "failed", "cancelled"}
ClaimableStates == {"pending", "in_progress"}

AllowedTransitions ==
    {"pending"} \X {"in_progress", "cancelled", "failed"}
    \union {"in_progress"} \X {"done", "blocked", "cancelled", "failed"}
    \union {"blocked"} \X {"in_progress", "cancelled", "failed"}
    \union {"done"} \X {"in_progress", "failed"}
    \union {<<"failed", "in_progress">>}

NoClaim == [id |-> 0, holder |-> None, gen |-> 0, state |-> "absent",
            lapsed |-> FALSE, unbounded |-> FALSE]
NoWrite == [by |-> None, id |-> 0]

Claim == claims.now
Task == tasks.now
Token(c) == [id |-> c.id, gen |-> c.gen]

\* Claim.is_active: not released or revoked, and not past its deadline.
IsActive(c) == c.state = "active" /\ (c.unbounded \/ ~c.lapsed)

\* Mutant: the state of the claim is not looked at.
CheckIgnoresState(c, t, r) ==
    /\ c.id = t.id /\ c.gen = t.gen
    /\ r # None => c.holder = r

\* _check: does the token still stand for the right to execute?  A deadline
\* that has passed is not a reason to refuse.
Check(c, t, r) ==
    /\ c.id = t.id /\ c.gen = t.gen
    /\ c.state \notin {"released", "revoked"}
    /\ r # None => c.holder = r

\* A claim of the next generation.
Issued(r, u) == [id |-> ids + 1, holder |-> r, gen |-> Claim.gen + 1,
                 state |-> "active", lapsed |-> FALSE, unbounded |-> u]
Renewed(c) == [c EXCEPT !.lapsed = FALSE, !.state = "active"]

\* _append of either store: "ok", or it raises having written nothing ("fail")
\* or a part ("torn"), or the process dies once the row is down ("crash").
Put(file, row, result) ==
    CASE result \in {"ok", "crash"} ->
            [now |-> IF file.torn THEN file.now ELSE row, torn |-> FALSE]
      [] result = "torn" -> [file EXCEPT !.torn = TRUE]
      [] OTHER -> file

\* The result of an append when something may go wrong.
Result(result) ==
    \/ result = "ok" /\ UNCHANGED faults
    \/ result \in Faults /\ faults < MaxFaults /\ faults' = faults + 1

Results == {"ok"} \union Faults

Tell(r, c) == tokens' = [tokens EXCEPT ![r] = @ \union {Token(c)}]

Init ==
    /\ policy \in Policies
    /\ claims = [now |-> NoClaim, torn |-> FALSE]
    /\ tasks = [now |-> "pending", torn |-> FALSE]
    /\ tokens = [r \in Runs |-> {}]
    /\ ids = 0
    /\ wrote = NoWrite
    /\ ended = {}
    /\ faults = 0

-----------------------------------------------------------------------------
\* The claim tools

\* grant, when the caller holds the active claim: the same claim, extended.
GrantAgain(r, u) ==
    /\ Task \in ClaimableStates
    /\ IsActive(Claim) /\ Claim.holder = r
    /\ \E result \in Results :
         /\ Result(result)
         /\ claims' = Put(claims, [Renewed(Claim) EXCEPT !.unbounded = @ \/ u],
                          result)
         /\ IF result = "ok" THEN Tell(r, Claim) ELSE UNCHANGED tokens
    /\ wrote' = NoWrite
    /\ UNCHANGED <<policy, tasks, ids, ended>>

\* grant, when nobody holds an active claim: a new one, which takes over from
\* the one that is past its deadline, released or revoked.
Grant(r, u) ==
    /\ Task \in ClaimableStates
    /\ ~IsActive(Claim)
    /\ ids < MaxClaims
    /\ ids' = ids + 1
    /\ \E result \in Results :
         /\ Result(result)
         /\ claims' = Put(claims, Issued(r, u), result)
         /\ IF result = "ok"
            THEN Tell(r, Issued(r, u)) /\ ended' = ended \union 1..ids
            ELSE UNCHANGED <<tokens, ended>>
    /\ wrote' = NoWrite
    /\ UNCHANGED <<policy, tasks>>

\* renew.
Renew(r, t) ==
    /\ Check(Claim, t, r)
    /\ \E result \in Results :
         /\ Result(result)
         /\ claims' = Put(claims, Renewed(Claim), result)
    /\ wrote' = NoWrite
    /\ UNCHANGED <<policy, tasks, tokens, ids, ended>>

\* A row that ends the claim.
End(state) ==
    /\ IsActive(Claim)
    /\ \E result \in Results :
         /\ Result(result)
         /\ claims' = Put(claims, [Claim EXCEPT !.state = state], result)
         /\ ended' = IF result = "ok" THEN ended \union {Claim.id} ELSE ended
    /\ wrote' = NoWrite
    /\ UNCHANGED <<policy, tasks, tokens, ids>>

\* release, by its holder, with or without the token.
Release(r, t) ==
    /\ Claim.holder = r
    /\ t # None => Check(Claim, t, r)
    /\ End("released")

\* revoke, by a caller that takes the task away from outside.
Revoke == End("revoked")

\* The clock passes a deadline, or is set back behind it.
TimeMoves ==
    /\ Claim.state = "active" /\ ~Claim.unbounded
    /\ claims' = [claims EXCEPT !.now.lapsed = ~@]
    /\ wrote' = NoWrite
    /\ UNCHANGED <<policy, tasks, tokens, ids, ended, faults>>

-----------------------------------------------------------------------------
\* update_task_under_claim

\* Mutant: a caller without a token is never seen as an intruder.
HeldByOtherNever(r) == FALSE

\* _resolve_token_or_conflict, without a token: another run is executing.
HeldByOther(r) ==
    /\ policy # "off"
    /\ IsActive(Claim)
    /\ r # None /\ Claim.holder # r

MayUpdate(r, t) ==
    IF t # None THEN Check(Claim, t, r) /\ Task \in ClaimableStates
    ELSE ~(policy = "enforce" /\ HeldByOther(r))

\* _revoke_on_reopen.
Reopens(target) == Task = "done" /\ target # "done"
RevokesFirst(target) == Reopens(target) /\ IsActive(Claim)

\* _auto_claim_on_start: the first start of a task is a claim.
ClaimsFirst(r, t, target) ==
    /\ t = None /\ r # None
    /\ Task = "pending" /\ target = "in_progress"
    /\ ~HeldByOther(r)

\* The row the claims ledger gets before the task is written.
FirstRow(r, t, target) ==
    IF RevokesFirst(target) THEN [Claim EXCEPT !.state = "revoked"]
    ELSE IF ClaimsFirst(r, t, target) THEN Issued(r, FALSE)
    ELSE NoClaim

\* TaskStore.update accepts the transition; confirm covers a reopening.
Accepts(target, confirm) ==
    /\ target = Task \/ <<Task, target>> \in AllowedTransitions
    /\ Reopens(target) => confirm

\* Which write goes wrong, and how.
Mishaps == {<<"none", "ok">>} \union ({"first", "store", "renew"} \X Faults)

\* The claims ledger first, then the task, then the renewal of the claim whose
\* token was shown; an error in that last one is swallowed.  TaskStore.update may
\* refuse for reasons of its own, whatever the claims ledger says by then (a
\* refusal with nothing written before it leaves no trace).
Update(r, t, target, confirm) ==
    LET row == FirstRow(r, t, target)
        claiming == ClaimsFirst(r, t, target)
    IN
    /\ MayUpdate(r, t)
    /\ confirm => Reopens(target)
    /\ claiming => ids < MaxClaims
    /\ \E store \in {"write", "refuse"}, mishap \in Mishaps :
         LET of(w) == IF w = mishap[1] THEN mishap[2] ELSE "ok"
             first == IF row = NoClaim THEN claims
                      ELSE Put(claims, row, of("first"))
             tried == store = "write" /\ of("first") = "ok"
             written == tried /\ of("store") \in {"ok", "crash"}
             renews == t # None /\ tried /\ of("store") = "ok"
             told == tried /\ of("store") = "ok" /\ of("renew") # "crash"
         IN
         /\ store = "write" => Accepts(target, confirm)
         /\ store = "refuse" => row # NoClaim /\ mishap[1] = "none"
         /\ mishap[1] = "first" => row # NoClaim
         /\ mishap[1] = "renew" => t # None
         /\ Result(mishap[2])
         /\ claims' = IF renews THEN Put(first, Renewed(Claim), of("renew"))
                      ELSE first
         /\ tasks' = IF tried THEN Put(tasks, target, of("store")) ELSE tasks
         /\ wrote' = IF written /\ ~tasks.torn
                     THEN [by |-> r, id |-> IF t = None THEN 0 ELSE t.id]
                     ELSE NoWrite
         /\ IF told /\ claiming
            THEN Tell(r, row) /\ ended' = ended \union 1..ids
            ELSE /\ UNCHANGED tokens
                 /\ ended' = IF told /\ RevokesFirst(target)
                             THEN ended \union {Claim.id} ELSE ended
    /\ ids' = IF claiming THEN ids + 1 ELSE ids
    /\ UNCHANGED policy

Next ==
    \/ TimeMoves
    \/ Revoke
    \/ \E r \in Runs :
         \/ \E u \in BOOLEAN : GrantAgain(r, u) \/ Grant(r, u)
         \/ \E t \in tokens[r] : Renew(r, t)
         \/ \E t \in tokens[r] \union {None} : Release(r, t)
    \/ \E target \in Statuses, confirm \in BOOLEAN :
         \/ Update(None, None, target, confirm)
         \/ \E r \in Runs : \E t \in tokens[r] \union {None} :
              Update(r, t, target, confirm)

Spec == Init /\ [][Next]_vars

-----------------------------------------------------------------------------
\* Properties

\* A run that was told its claim is released, revoked or taken over by another
\* run never writes the task with it again, however late its call comes and
\* whatever the clock did (the fencing of update_task_under_claim).
HoldersAreFenced == wrote.id \notin ended

ClaimType == [id : 0..MaxClaims, holder : Runs \union {None}, gen : Nat,
              state : {"absent", "active", "released", "revoked"},
              lapsed : BOOLEAN, unbounded : BOOLEAN]

\* Every component has values of its type, claims and tokens are of those that
\* were issued, and a line is written in part only where that may happen.
TypeOK ==
    /\ policy \in Policies
    /\ claims \in [now : ClaimType, torn : BOOLEAN]
    /\ tasks \in [now : Statuses, torn : BOOLEAN]
    /\ claims.torn \/ tasks.torn => "torn" \in Faults
    /\ tokens \in [Runs -> SUBSET [id : 1..ids, gen : Nat]]
    /\ wrote \in [by : Runs \union {None}, id : 0..MaxClaims]
    /\ Claim.id <= ids /\ (Claim.id = 0 <=> Claim.state = "absent")
    /\ ids \in 0..MaxClaims /\ ended \subseteq 1..ids /\ faults \in 0..MaxFaults

\* The newest claim has the highest generation: no run has the token of a claim
\* that the ledger does not know, or knows no more.
TokensAreKnown ==
    \A r \in Runs : \A t \in tokens[r] : t.gen <= Claim.gen

\* The claim that counts is over for the ledger as soon as its holder was told
\* so, and it does not come back by a late renewal.
EndedStaysOver == Claim.state = "active" => Claim.id \notin ended

\* The two ledgers and the tokens that are about agree: the parts above, which
\* is the invariant that every step preserves as long as no line is torn.
ClaimsAreSound ==
    /\ TypeOK
    /\ HoldersAreFenced
    /\ TokensAreKnown
    /\ EndedStaysOver

\* While a claim is live no other run takes it over, not even by the implicit
\* claim of a first start, unless claims are switched off; and where they are
\* enforced nobody but its holder writes the task, callers without an identity
\* excepted.
LiveClaimIsKept ==
    [][IsActive(Claim) =>
         /\ policy # "off" => claims'.now.holder = Claim.holder
         /\ policy = "enforce" => wrote'.by \in {None, Claim.holder}]_vars
=============================================================================
