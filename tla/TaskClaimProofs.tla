---------------------------- MODULE TaskClaimProofs ----------------------------
(***************************************************************************)
(* Theorems about TaskClaim, for every set of runs and policies, whatever  *)
(* appends fail and wherever the process dies.  That an ended claim stays  *)
(* ended is proved for ledgers without torn lines, after which the code    *)
(* does lose acknowledged rows.                                            *)
(***************************************************************************)
EXTENDS TaskClaim, TLAPS

Files(Row) == [now : Row, torn : BOOLEAN]
TokenType == [id : 1..ids, gen : Nat]

\* What an append leaves: the row or what was there, and no torn line unless it
\* was there or this append was torn.
LEMMA PutShape ==
    ASSUME NEW Row, NEW file \in Files(Row), NEW row \in Row,
           NEW result \in Results
    PROVE  /\ Put(file, row, result) \in Files(Row)
           /\ Put(file, row, result).now \in {file.now, row}
           /\ Put(file, row, result).torn => file.torn \/ "torn" \in Faults
           /\ result = "ok" /\ ~file.torn => Put(file, row, result).now = row
<1>1. result \in {"ok", "fail", "torn", "crash"}
  BY FaultAssumption DEF Results
<1>2. result = "torn" => "torn" \in Faults
  BY DEF Results
<1>3. CASE result \in {"ok", "crash"}
  <2>1. Put(file, row, result) =
          [now |-> IF file.torn THEN file.now ELSE row, torn |-> FALSE]
    BY <1>3 DEF Put
  <2> QED BY <2>1 DEF Files
<1>4. CASE result = "torn"
  <2>1. Put(file, row, result) = [file EXCEPT !.torn = TRUE] BY <1>4 DEF Put
  <2> QED BY <2>1, <1>2, <1>4 DEF Files
<1>5. CASE result = "fail"
  <2>1. Put(file, row, result) = file BY <1>5 DEF Put
  <2> QED BY <2>1, <1>5 DEF Files
<1> QED BY <1>1, <1>3, <1>4, <1>5

\* The claims that the operations write are claims.
LEMMA ClaimShape ==
    ASSUME TypeOK
    PROVE  /\ Claim \in ClaimType /\ claims \in Files(ClaimType)
           /\ Task \in Statuses /\ tasks \in Files(Statuses)
           /\ \A u \in BOOLEAN, r \in Runs : ids < MaxClaims =>
                /\ Issued(r, u) \in ClaimType
                /\ Issued(r, u).id = ids + 1 /\ Issued(r, u).gen = Claim.gen + 1
                /\ Issued(r, u).state = "active" /\ Issued(r, u).holder = r
           /\ /\ Renewed(Claim) \in ClaimType
              /\ Renewed(Claim).id = Claim.id /\ Renewed(Claim).gen = Claim.gen
              /\ Renewed(Claim).state = "active"
              /\ Renewed(Claim).holder = Claim.holder
           /\ \A state \in {"released", "revoked"} :
                LET c == [Claim EXCEPT !.state = state] IN
                /\ c \in ClaimType /\ c.id = Claim.id /\ c.gen = Claim.gen
                /\ c.state = state /\ c.holder = Claim.holder
<1>1. Claim \in ClaimType /\ claims \in Files(ClaimType)
  BY DEF TypeOK, Claim, Files
<1>2. Task \in Statuses /\ tasks \in Files(Statuses)
  BY DEF TypeOK, Task, Files
<1>3. ids \in Nat /\ MaxClaims \in Nat /\ ids <= MaxClaims
  BY BoundAssumption DEF TypeOK
<1>4. ASSUME NEW u \in BOOLEAN, NEW r \in Runs, ids < MaxClaims
      PROVE  /\ Issued(r, u) \in ClaimType
             /\ Issued(r, u).id = ids + 1 /\ Issued(r, u).gen = Claim.gen + 1
             /\ Issued(r, u).state = "active" /\ Issued(r, u).holder = r
  BY <1>1, <1>3, <1>4 DEF Issued, ClaimType
<1>5. /\ Renewed(Claim) \in ClaimType
      /\ Renewed(Claim).id = Claim.id /\ Renewed(Claim).gen = Claim.gen
      /\ Renewed(Claim).state = "active" /\ Renewed(Claim).holder = Claim.holder
  BY <1>1 DEF Renewed, ClaimType
<1>6. \A state \in {"released", "revoked"} :
        LET c == [Claim EXCEPT !.state = state] IN
        /\ c \in ClaimType /\ c.id = Claim.id /\ c.gen = Claim.gen
        /\ c.state = state /\ c.holder = Claim.holder
  BY <1>1 DEF ClaimType
<1> QED BY <1>1, <1>2, <1>4, <1>5, <1>6

LEMMA SoundInit == Init => ClaimsAreSound
<1> SUFFICES ASSUME Init PROVE ClaimsAreSound
  OBVIOUS
<1>1. NoClaim \in ClaimType BY BoundAssumption DEF NoClaim, ClaimType
<1>2. TypeOK
  BY <1>1, BoundAssumption DEF Init, TypeOK, Claim, NoClaim, NoWrite, Statuses
<1>3. HoldersAreFenced /\ TokensAreKnown /\ EndedStaysOver
  BY DEF Init, HoldersAreFenced, TokensAreKnown, EndedStaysOver, Claim, NoClaim
<1> QED BY <1>2, <1>3 DEF ClaimsAreSound

-----------------------------------------------------------------------------
\* Types

\* A token of the claim that counts is a token of this run of the ledger.
LEMMA TokenShape ==
    ASSUME TypeOK, NEW c \in ClaimType, c.id \in 1..ids
    PROVE  Token(c) \in TokenType /\ Token(c).id = c.id /\ Token(c).gen = c.gen
BY DEF Token, TokenType, ClaimType

\* Types of what every claim tool but Grant leaves.
LEMMA ToolType ==
    ASSUME TypeOK, NEW result \in Results, Result(result),
           NEW row \in ClaimType, row.id = Claim.id, Claim.id # 0,
           row.state # "absent",
           claims' = Put(claims, row, result), wrote' = NoWrite,
           UNCHANGED <<policy, tasks, ids>>,
           tokens' \in [Runs -> SUBSET TokenType],
           ended' \in {ended, ended \union {Claim.id}}
    PROVE  TypeOK'
<1>1. /\ claims' \in Files(ClaimType) /\ claims'.now \in {claims.now, row}
      /\ claims'.torn => claims.torn \/ "torn" \in Faults
  BY ClaimShape, PutShape
<1>2. Claim.id \in 1..ids BY ClaimShape DEF TypeOK, ClaimType
<1>3. Claim' \in {Claim, row} BY <1>1 DEF Claim
<1>4. faults' \in 0..MaxFaults BY BoundAssumption DEF TypeOK, Result
<1>5. Claim'.id <= ids /\ (Claim'.id = 0 <=> Claim'.state = "absent")
  BY <1>2, <1>3 DEF TypeOK
<1>6. NoWrite \in [by : Runs \union {None}, id : 0..MaxClaims]
  BY BoundAssumption DEF NoWrite
<1> QED BY <1>1, <1>2, <1>4, <1>5, <1>6 DEF TypeOK, TokenType, Files

LEMMA GrantAgainType ==
    ASSUME TypeOK, NEW r \in Runs, NEW u \in BOOLEAN, GrantAgain(r, u)
    PROVE  TypeOK'
<1>1. PICK result \in Results :
        /\ Result(result)
        /\ claims' = Put(claims, [Renewed(Claim) EXCEPT !.unbounded = @ \/ u], result)
        /\ IF result = "ok" THEN Tell(r, Claim) ELSE UNCHANGED tokens
  BY DEF GrantAgain
<1> DEFINE row == [Renewed(Claim) EXCEPT !.unbounded = @ \/ u]
<1>2. /\ row \in ClaimType /\ row.id = Claim.id /\ row.state = "active"
      /\ Claim \in ClaimType
  BY ClaimShape DEF ClaimType
<1>3. Claim.id \in 1..ids BY <1>2 DEF GrantAgain, IsActive, TypeOK, ClaimType
<1>4. tokens' \in [Runs -> SUBSET TokenType]
  BY <1>1, <1>2, <1>3, TokenShape DEF Tell, TypeOK, TokenType
<1> HIDE DEF row
<1>5. Result(result) /\ claims' = Put(claims, row, result) BY <1>1 DEF row
<1>6. Claim.id # 0 /\ row.state # "absent" BY <1>2, <1>3
<1>7. wrote' = NoWrite /\ ended' = ended /\ UNCHANGED <<policy, tasks, ids>>
  BY DEF GrantAgain
<1> QED BY <1>2, <1>4, <1>5, <1>6, <1>7, ToolType

LEMMA RenewType ==
    ASSUME TypeOK, NEW r \in Runs, NEW t \in tokens[r], Renew(r, t)
    PROVE  TypeOK'
<1>1. PICK result \in Results :
        Result(result) /\ claims' = Put(claims, Renewed(Claim), result)
  BY DEF Renew
<1>2. t \in TokenType BY DEF TypeOK, TokenType
<1>3. Claim.id # 0 BY <1>2 DEF Renew, Check, TokenType
<1>4. tokens' \in [Runs -> SUBSET TokenType] BY DEF Renew, TypeOK, TokenType
<1> QED BY <1>1, <1>3, <1>4, ClaimShape, ToolType DEF Renew

LEMMA EndType ==
    ASSUME TypeOK, NEW state \in {"released", "revoked"}, End(state)
    PROVE  TypeOK'
<1> DEFINE row == [Claim EXCEPT !.state = state]
<1>1. PICK result \in Results :
        /\ Result(result)
        /\ claims' = Put(claims, row, result)
        /\ ended' = IF result = "ok" THEN ended \union {Claim.id} ELSE ended
  BY DEF End
<1>2. row \in ClaimType /\ row.id = Claim.id /\ row.state = state
  BY ClaimShape
<1>3. Claim.id # 0 BY ClaimShape DEF End, IsActive, TypeOK
<1>4. tokens' \in [Runs -> SUBSET TokenType] BY DEF End, TypeOK, TokenType
<1> HIDE DEF row
<1> QED BY <1>1, <1>2, <1>3, <1>4, ToolType DEF End

LEMMA TimeMovesType == TypeOK /\ TimeMoves => TypeOK'
<1> SUFFICES ASSUME TypeOK, TimeMoves PROVE TypeOK'
  OBVIOUS
<1>1. claims' = [claims EXCEPT !.now = [claims.now EXCEPT !.lapsed = ~@]]
  BY DEF TimeMoves
<1>2. claims.now \in ClaimType /\ claims \in Files(ClaimType)
  BY DEF TypeOK, Files
<1>3. [claims.now EXCEPT !.lapsed = ~@] \in ClaimType
  BY <1>2 DEF ClaimType
<1>4. /\ claims' \in Files(ClaimType) /\ claims'.torn = claims.torn
      /\ claims'.now = [claims.now EXCEPT !.lapsed = ~@]
  BY <1>1, <1>2, <1>3 DEF Files
<1>5. Claim'.id = Claim.id /\ Claim'.state = Claim.state
  BY <1>2, <1>4 DEF Claim, ClaimType
<1>6. NoWrite \in [by : Runs \union {None}, id : 0..MaxClaims]
  BY BoundAssumption DEF NoWrite
<1> QED BY <1>4, <1>5, <1>6 DEF TimeMoves, TypeOK, Files

LEMMA GrantType ==
    ASSUME TypeOK, NEW r \in Runs, NEW u \in BOOLEAN, Grant(r, u)
    PROVE  TypeOK'
<1>1. PICK result \in Results :
        /\ Result(result)
        /\ claims' = Put(claims, Issued(r, u), result)
        /\ IF result = "ok"
           THEN Tell(r, Issued(r, u)) /\ ended' = ended \union 1..ids
           ELSE UNCHANGED <<tokens, ended>>
  BY DEF Grant
<1>2. /\ Issued(r, u) \in ClaimType /\ Issued(r, u).id = ids + 1
      /\ Issued(r, u).state = "active" /\ claims \in Files(ClaimType)
      /\ Claim \in ClaimType
  BY ClaimShape DEF Grant
<1>3. /\ claims' \in Files(ClaimType) /\ claims'.now \in {claims.now, Issued(r, u)}
      /\ claims'.torn => claims.torn \/ "torn" \in Faults
  BY <1>1, <1>2, PutShape
<1>4. ids \in Nat /\ ids' = ids + 1 /\ ids' \in 0..MaxClaims
  BY BoundAssumption DEF TypeOK, Grant
<1>5. Claim' \in {Claim, Issued(r, u)} BY <1>3 DEF Claim
<1>6. Claim'.id <= ids' /\ (Claim'.id = 0 <=> Claim'.state = "absent")
  BY <1>2, <1>4, <1>5 DEF TypeOK, ClaimType
<1>7. Token(Issued(r, u)) \in [id : 1..ids', gen : Nat]
  BY <1>2, <1>4 DEF Token, ClaimType
<1>8. tokens' \in [Runs -> SUBSET [id : 1..ids', gen : Nat]]
  <2>1. tokens \in [Runs -> SUBSET [id : 1..ids', gen : Nat]]
    <3>1. [id : 1..ids, gen : Nat] \subseteq [id : 1..ids', gen : Nat] BY <1>4
    <3> QED BY <3>1 DEF TypeOK
  <2> QED BY <1>1, <1>7, <2>1 DEF Tell
<1>9. ended' \subseteq 1..ids'
  <2>1. 1..ids \subseteq 1..ids' BY <1>4
  <2>2. ended' \in {ended, ended \union 1..ids} BY <1>1
  <2> QED BY <2>1, <2>2 DEF TypeOK
<1>10. faults' \in 0..MaxFaults BY <1>1, BoundAssumption DEF TypeOK, Result
<1>11. NoWrite \in [by : Runs \union {None}, id : 0..MaxClaims]
  BY BoundAssumption DEF NoWrite
<1> QED
  BY <1>3, <1>4, <1>6, <1>8, <1>9, <1>10, <1>11 DEF Grant, TypeOK, Files

\* The row that an update puts in the claims ledger first.
LEMMA FirstShape ==
    ASSUME TypeOK, NEW r \in Runs \union {None}, NEW t, NEW target \in Statuses,
           ClaimsFirst(r, t, target) => ids < MaxClaims,
           FirstRow(r, t, target) # NoClaim
    PROVE  /\ FirstRow(r, t, target) \in ClaimType
           /\ \/ /\ ClaimsFirst(r, t, target)
                 /\ ~RevokesFirst(target)
                 /\ r \in Runs
                 /\ FirstRow(r, t, target) = Issued(r, FALSE)
                 /\ FirstRow(r, t, target).id = ids + 1
                 /\ FirstRow(r, t, target).gen = Claim.gen + 1
                 /\ FirstRow(r, t, target).state = "active"
                 /\ FirstRow(r, t, target).holder = r
              \/ /\ RevokesFirst(target)
                 /\ ~ClaimsFirst(r, t, target)
                 /\ FirstRow(r, t, target).id = Claim.id
                 /\ FirstRow(r, t, target).gen = Claim.gen
                 /\ FirstRow(r, t, target).state = "revoked"
                 /\ FirstRow(r, t, target).holder = Claim.holder
<1>1. CASE RevokesFirst(target)
  <2>1. FirstRow(r, t, target) = [Claim EXCEPT !.state = "revoked"]
    BY <1>1 DEF FirstRow
  <2>2. ~ClaimsFirst(r, t, target)
    BY <1>1 DEF RevokesFirst, Reopens, ClaimsFirst
  <2> QED BY <1>1, <2>1, <2>2, ClaimShape
<1>2. CASE ~RevokesFirst(target)
  <2>1. ClaimsFirst(r, t, target) BY <1>2 DEF FirstRow
  <2>2. FirstRow(r, t, target) = Issued(r, FALSE) BY <1>2, <2>1 DEF FirstRow
  <2>3. r \in Runs BY <2>1 DEF ClaimsFirst
  <2> QED BY <1>2, <2>1, <2>2, <2>3, ClaimShape
<1> QED BY <1>1, <1>2

\* An update that shows a token touches the claims ledger only to renew the claim.
LEMMA UpdateWithToken ==
    ASSUME TypeOK, NEW r \in Runs \union {None}, NEW t, NEW target \in Statuses,
           NEW confirm \in BOOLEAN, Update(r, t, target, confirm), t # None
    PROVE  /\ Check(Claim, t, r) /\ Task \in ClaimableStates
           /\ UNCHANGED <<policy, tokens, ids, ended>>
           /\ \/ claims' = claims
              \/ \E result \in Results : claims' = Put(claims, Renewed(Claim), result)
           /\ \/ tasks' = tasks
              \/ \E result \in Results : tasks' = Put(tasks, target, result)
           /\ wrote' \in {NoWrite, [by |-> r, id |-> t.id]}
           /\ faults' \in {faults, faults + 1} /\ (faults' # faults => faults < MaxFaults)
<1>1. Check(Claim, t, r) /\ Task \in ClaimableStates BY DEF Update, MayUpdate
<1>2. ~RevokesFirst(target)
  BY <1>1 DEF RevokesFirst, Reopens, ClaimableStates
<1>3. ~ClaimsFirst(r, t, target) BY DEF ClaimsFirst
<1>4. FirstRow(r, t, target) = NoClaim BY <1>2, <1>3 DEF FirstRow
<1>5. "ok" \in Results /\ \A m \in Mishaps : m[2] \in Results
  BY DEF Results, Mishaps
<1>6. UNCHANGED <<policy, ids>> BY <1>3 DEF Update
<1> QED BY <1>1, <1>2, <1>3, <1>4, <1>5, <1>6 DEF Update, Result

\* An update without a token: the first row, if there is one, then the task.
LEMMA UpdateWithout ==
    ASSUME TypeOK, NEW r \in Runs \union {None}, NEW target \in Statuses,
           NEW confirm \in BOOLEAN, Update(r, None, target, confirm)
    PROVE  LET row == FirstRow(r, None, target)
               claiming == ClaimsFirst(r, None, target)
           IN
           /\ ~(policy = "enforce" /\ HeldByOther(r))
           /\ claiming => ids < MaxClaims
           /\ UNCHANGED policy /\ ids' = IF claiming THEN ids + 1 ELSE ids
           /\ \/ tasks' = tasks
              \/ \E result \in Results : tasks' = Put(tasks, target, result)
           /\ wrote' \in {NoWrite, [by |-> r, id |-> 0]}
           /\ faults' \in {faults, faults + 1} /\ (faults' # faults => faults < MaxFaults)
           /\ \/ claims' = claims /\ row = NoClaim /\ UNCHANGED <<tokens, ended>>
              \/ /\ row # NoClaim
                 /\ \E result \in Results :
                      /\ claims' = Put(claims, row, result)
                      /\ \/ UNCHANGED <<tokens, ended>>
                         \/ /\ claiming /\ result = "ok"
                            /\ Tell(r, row) /\ ended' = ended \union 1..ids
                         \/ /\ RevokesFirst(target) /\ result = "ok"
                            /\ UNCHANGED tokens /\ ended' = ended \union {Claim.id}
<1>1. "ok" \in Results /\ \A m \in Mishaps : m[2] \in Results
  BY DEF Results, Mishaps
<1>2. \A r2 : FirstRow(r2, None, target) = NoClaim =>
        ~ClaimsFirst(r2, None, target) /\ ~RevokesFirst(target)
  BY DEF FirstRow, Issued, NoClaim, RevokesFirst
<1> QED BY <1>1, <1>2 DEF Update, Result, MayUpdate

LEMMA UpdateType ==
    ASSUME TypeOK, NEW r \in Runs \union {None},
           NEW t, t = None \/ (r \in Runs /\ t \in tokens[r]),
           NEW target \in Statuses, NEW confirm \in BOOLEAN,
           Update(r, t, target, confirm)
    PROVE  TypeOK'
<1>1. /\ ids \in Nat /\ ids <= MaxClaims /\ MaxClaims \in Nat /\ MaxFaults \in Nat
      /\ Claim \in ClaimType
  BY BoundAssumption, ClaimShape DEF TypeOK
<1>2. ASSUME NEW result \in Results, tasks' = Put(tasks, target, result)
      PROVE  /\ tasks' \in Files(Statuses)
             /\ tasks'.torn => tasks.torn \/ "torn" \in Faults
  BY <1>2, ClaimShape, PutShape
<1>3. tasks' \in Files(Statuses) /\ (tasks'.torn => "torn" \in Faults)
  <2>1. tasks' = tasks \/ \E result \in Results : tasks' = Put(tasks, target, result)
    BY UpdateWithToken, UpdateWithout
  <2> QED BY <2>1, <1>2, ClaimShape DEF TypeOK
<1>4. policy' \in Policies /\ faults' \in 0..MaxFaults
  <2>1. /\ policy' = policy
        /\ faults' \in {faults, faults + 1} /\ (faults' # faults => faults < MaxFaults)
    BY UpdateWithToken, UpdateWithout
  <2> QED BY <2>1, <1>1 DEF TypeOK
<1>5. CASE t # None
  <2>1. t \in TokenType BY <1>5 DEF TypeOK, TokenType
  <2>2. /\ Check(Claim, t, r) /\ UNCHANGED <<tokens, ids, ended>>
        /\ \/ claims' = claims
           \/ \E result \in Results : claims' = Put(claims, Renewed(Claim), result)
        /\ wrote' \in {NoWrite, [by |-> r, id |-> t.id]}
    BY <1>5, UpdateWithToken
  <2>3. Claim.id \in 1..ids /\ t.id \in 0..MaxClaims
    BY <2>1, <2>2, <1>1 DEF Check, TokenType
  <2>4. /\ claims' \in Files(ClaimType) /\ claims'.now \in {Claim, Renewed(Claim)}
        /\ claims'.torn => "torn" \in Faults
    BY <2>2, ClaimShape, PutShape DEF Claim, TypeOK
  <2>5. Claim'.id <= ids' /\ (Claim'.id = 0 <=> Claim'.state = "absent")
    BY <2>2, <2>3, <2>4, ClaimShape DEF Claim, TypeOK
  <2>6. wrote' \in [by : Runs \union {None}, id : 0..MaxClaims]
    BY <2>2, <2>3, <1>1 DEF NoWrite
  <2> QED BY <2>2, <2>4, <2>5, <2>6, <1>3, <1>4 DEF TypeOK, Files
<1>6. CASE t = None
  <2> DEFINE row == FirstRow(r, None, target)
             claiming == ClaimsFirst(r, None, target)
             done(result) ==
               /\ claims' = Put(claims, row, result)
               /\ \/ UNCHANGED <<tokens, ended>>
                  \/ /\ claiming /\ result = "ok"
                     /\ Tell(r, row) /\ ended' = ended \union 1..ids
                  \/ /\ RevokesFirst(target) /\ result = "ok"
                     /\ UNCHANGED tokens /\ ended' = ended \union {Claim.id}
  <2>1. /\ claiming => ids < MaxClaims
        /\ ids' = IF claiming THEN ids + 1 ELSE ids
        /\ wrote' \in {NoWrite, [by |-> r, id |-> 0]}
        /\ \/ claims' = claims /\ row = NoClaim /\ UNCHANGED <<tokens, ended>>
           \/ row # NoClaim /\ \E result \in Results : done(result)
    BY <1>6, UpdateWithout
  <2>2. ids' \in 0..MaxClaims /\ ids <= ids' BY <2>1, <1>1
  <2>3. wrote' \in [by : Runs \union {None}, id : 0..MaxClaims]
    BY <2>1, <1>1 DEF NoWrite
  <2>4. /\ tokens \in [Runs -> SUBSET [id : 1..ids', gen : Nat]]
        /\ ended \subseteq 1..ids' /\ 1..ids \subseteq 1..ids'
    <3>1. 1..ids \subseteq 1..ids' BY <2>2, <1>1
    <3>2. [id : 1..ids, gen : Nat] \subseteq [id : 1..ids', gen : Nat] BY <3>1
    <3> QED BY <3>1, <3>2 DEF TypeOK
  <2>5. CASE claims' = claims /\ row = NoClaim /\ UNCHANGED <<tokens, ended>>
    <3>1. Claim'.id <= ids' /\ (Claim'.id = 0 <=> Claim'.state = "absent")
      BY <2>5, <2>2, <1>1 DEF Claim, TypeOK, ClaimType
    <3> QED BY <2>2, <2>3, <2>4, <2>5, <3>1, <1>3, <1>4 DEF TypeOK, Files
  <2>6. ASSUME row # NoClaim, NEW result \in Results, done(result)
        PROVE  TypeOK'
    <3>1. /\ row \in ClaimType
          /\ \/ /\ claiming /\ row.id = ids + 1 /\ row.state = "active" /\ r \in Runs
                /\ ~RevokesFirst(target)
             \/ /\ RevokesFirst(target) /\ ~claiming /\ row.id = Claim.id
                /\ row.state = "revoked"
      BY <2>1, <2>6, FirstShape
    <3>2. RevokesFirst(target) => Claim.id \in 1..ids
      BY <1>1 DEF RevokesFirst, IsActive, TypeOK, ClaimType
    <3>3. row.id \in 1..ids' /\ row.state # "absent" BY <3>1, <3>2, <2>1, <1>1
    <3> HIDE DEF row
    <3>4. /\ claims' \in Files(ClaimType) /\ claims'.now \in {Claim, row}
          /\ claims'.torn => "torn" \in Faults
      BY <2>6, <3>1, ClaimShape, PutShape DEF Claim, TypeOK
    <3>5. Claim'.id <= ids' /\ (Claim'.id = 0 <=> Claim'.state = "absent")
      BY <3>3, <3>4, <2>2, <1>1 DEF Claim, TypeOK, ClaimType
    <3>6. tokens' \in [Runs -> SUBSET [id : 1..ids', gen : Nat]]
      <4>1. Token(row) \in [id : 1..ids', gen : Nat]
        BY <3>1, <3>3 DEF Token, ClaimType
      <4>2. claiming => r \in Runs BY <3>1
      <4>3. tokens' = tokens \/ (r \in Runs /\ Tell(r, row))
        <5> HIDE DEF claiming
        <5> QED BY <2>6, <4>2 DEF Tell
      <4> QED BY <4>1, <4>3, <2>4 DEF Tell
    <3>7. ended' \subseteq 1..ids'
      <4>1. \/ ended' \in {ended, ended \union 1..ids}
            \/ RevokesFirst(target) /\ ended' = ended \union {Claim.id}
        BY <2>6
      <4> QED BY <4>1, <3>2, <2>4
    <3> QED BY <2>2, <2>3, <3>4, <3>5, <3>6, <3>7, <1>3, <1>4 DEF TypeOK, Files
  <2> HIDE DEF row, claiming, done
  <2> QED BY <2>1, <2>5, <2>6
<1> QED BY <1>5, <1>6

LEMMA TypeStep == TypeOK /\ [Next]_vars => TypeOK'
<1> SUFFICES ASSUME TypeOK, [Next]_vars PROVE TypeOK'
  OBVIOUS
<1>1. CASE UNCHANGED vars
  BY <1>1 DEF TypeOK, vars, ledgers, Claim
<1>2. CASE TimeMoves BY <1>2, TimeMovesType
<1>3. CASE Revoke BY <1>3, EndType DEF Revoke
<1>4. CASE \E r \in Runs, u \in BOOLEAN : GrantAgain(r, u) \/ Grant(r, u)
  BY <1>4, GrantAgainType, GrantType
<1>5. CASE \E r \in Runs : \E t \in tokens[r] : Renew(r, t)
  BY <1>5, RenewType
<1>6. CASE \E r \in Runs : \E t \in tokens[r] \union {None} : Release(r, t)
  BY <1>6, EndType DEF Release
<1>7. CASE \E target \in Statuses, confirm \in BOOLEAN :
             \/ Update(None, None, target, confirm)
             \/ \E r \in Runs : \E t \in tokens[r] \union {None} :
                  Update(r, t, target, confirm)
  <2>1. PICK target \in Statuses, confirm \in BOOLEAN :
          \/ Update(None, None, target, confirm)
          \/ \E r \in Runs : \E t \in tokens[r] \union {None} :
               Update(r, t, target, confirm)
    BY <1>7
  <2>2. CASE Update(None, None, target, confirm)
    <3>1. None \in Runs \union {None} OBVIOUS
    <3> QED BY <2>2, <3>1, UpdateType
  <2>3. ASSUME NEW r \in Runs, NEW t \in tokens[r] \union {None},
               Update(r, t, target, confirm)
        PROVE  TypeOK'
    <3>1. r \in Runs \union {None} /\ (t = None \/ (r \in Runs /\ t \in tokens[r]))
      OBVIOUS
    <3> QED BY <2>3, <3>1, UpdateType
  <2> QED BY <2>1, <2>2, <2>3
<1> QED BY <1>1, <1>2, <1>3, <1>4, <1>5, <1>6, <1>7 DEF Next

THEOREM TypeCorrect == Spec => []TypeOK
<1>1. Init => TypeOK BY SoundInit DEF ClaimsAreSound
<1> QED BY <1>1, TypeStep, PTL DEF Spec

-----------------------------------------------------------------------------
\* The invariant of ledgers without torn lines

NothingTorn == "torn" \notin Faults

\* After a row of the claim that counts: an append leaves that row or the claim as
\* it was, and an append that returned leaves the row.
LEMMA RowOfTheClaim ==
    ASSUME NothingTorn, ClaimsAreSound, TypeOK',
           NEW result \in Results, NEW row \in ClaimType,
           row.id = Claim.id, row.gen = Claim.gen,
           row.state = "active" => Claim.id \notin ended,
           claims' = Put(claims, row, result),
           ended' \in {ended, ended \union {Claim.id}},
           ended' # ended => result = "ok" /\ row.state # "active",
           \A r \in Runs : \A t \in tokens'[r] : t \in tokens[r] \/ t.gen = Claim.gen,
           wrote'.id = 0
    PROVE  ClaimsAreSound'
<1>1. /\ Claim' \in {Claim, row} /\ (result = "ok" => Claim' = row)
      /\ Claim.gen \in Nat
  <2>1. ~claims.torn BY DEF NothingTorn, ClaimsAreSound, TypeOK
  <2>2. claims \in Files(ClaimType) /\ Claim \in ClaimType
    BY ClaimShape DEF ClaimsAreSound
  <2>3. /\ claims'.now \in {claims.now, row}
        /\ result = "ok" => claims'.now = row
    BY <2>1, <2>2, PutShape
  <2> QED BY <2>2, <2>3 DEF Claim, ClaimType
<1>2. HoldersAreFenced' BY DEF HoldersAreFenced, TypeOK
<1>3. TokensAreKnown' BY <1>1 DEF ClaimsAreSound, TokensAreKnown
<1>4. EndedStaysOver' BY <1>1 DEF ClaimsAreSound, EndedStaysOver
<1> QED BY <1>2, <1>3, <1>4 DEF ClaimsAreSound

\* After a claim of the next generation, with or without its holder knowing.
LEMMA RowOfANewClaim ==
    ASSUME NothingTorn, ClaimsAreSound, TypeOK',
           NEW result \in Results, NEW row \in ClaimType,
           row.id = ids + 1, row.gen = Claim.gen + 1,
           claims' = Put(claims, row, result),
           ended' \in {ended, ended \union 1..ids},
           tokens' # tokens \/ ended' # ended => result = "ok",
           \A r \in Runs : \A t \in tokens'[r] : t \in tokens[r] \/ t.gen = row.gen,
           wrote'.id = 0
    PROVE  ClaimsAreSound'
<1>1. /\ Claim' \in {Claim, row} /\ (result = "ok" => Claim' = row)
      /\ Claim.gen \in Nat /\ ids \in Nat /\ Claim.id <= ids
  <2>1. ~claims.torn BY DEF NothingTorn, ClaimsAreSound, TypeOK
  <2>2. claims \in Files(ClaimType) /\ Claim \in ClaimType
    BY ClaimShape DEF ClaimsAreSound
  <2>3. /\ claims'.now \in {claims.now, row}
        /\ result = "ok" => claims'.now = row
    BY <2>1, <2>2, PutShape
  <2> QED BY <2>2, <2>3 DEF Claim, ClaimType, ClaimsAreSound, TypeOK
<1>2. HoldersAreFenced' BY DEF HoldersAreFenced, TypeOK
<1>3. TokensAreKnown'
  <2>1. ASSUME NEW r \in Runs, NEW t \in tokens'[r] PROVE t.gen <= Claim'.gen
    <3>1. CASE t \in tokens[r]
      <4>1. t.gen <= Claim.gen /\ t.gen \in Nat
        BY <3>1 DEF ClaimsAreSound, TokensAreKnown, TypeOK
      <4> QED BY <4>1, <1>1
    <3>2. CASE t \notin tokens[r]
      <4>1. t.gen = row.gen /\ result = "ok" BY <3>2
      <4> QED BY <4>1, <1>1
    <3> QED BY <3>1, <3>2
  <2> QED BY <2>1 DEF TokensAreKnown
<1>4. EndedStaysOver'
  <2>1. ended \subseteq 1..ids BY DEF ClaimsAreSound, TypeOK
  <2>2. CASE Claim' = row
    <3>1. ids + 1 \notin ended' BY <1>1, <2>1
    <3> QED BY <2>2, <3>1 DEF EndedStaysOver
  <2>3. CASE Claim' # row
    <3>1. Claim' = Claim /\ ended' = ended BY <1>1, <2>3
    <3> QED BY <3>1 DEF ClaimsAreSound, EndedStaysOver
  <2> QED BY <2>2, <2>3
<1> QED BY <1>2, <1>3, <1>4 DEF ClaimsAreSound

\* A claim that passes the check is not over.
LEMMA CheckedIsNotOver ==
    ASSUME ClaimsAreSound, NEW q \in Runs, NEW t \in tokens[q], NEW r,
           Check(Claim, t, r)
    PROVE  Claim.state = "active" /\ Claim.id \notin ended /\ t.id = Claim.id
<1>1. t.id # 0 BY DEF ClaimsAreSound, TypeOK
<1>2. Claim.state = "active"
  BY <1>1, ClaimShape DEF Check, ClaimsAreSound, TypeOK, ClaimType
<1> QED BY <1>2 DEF Check, ClaimsAreSound, EndedStaysOver

LEMMA GrantAgainSound ==
    ASSUME NothingTorn, ClaimsAreSound, TypeOK',
           NEW r \in Runs, NEW u \in BOOLEAN, GrantAgain(r, u)
    PROVE  ClaimsAreSound'
<1> DEFINE row == [Renewed(Claim) EXCEPT !.unbounded = @ \/ u]
<1>1. PICK result \in Results :
        /\ claims' = Put(claims, row, result)
        /\ IF result = "ok" THEN Tell(r, Claim) ELSE UNCHANGED tokens
  BY DEF GrantAgain
<1>2. Renewed(Claim) \in ClaimType /\ Claim \in ClaimType
  BY ClaimShape DEF ClaimsAreSound
<1>3. row \in ClaimType /\ row.id = Claim.id /\ row.gen = Claim.gen
  BY <1>2, ClaimShape DEF ClaimType, ClaimsAreSound
<1>4. Claim.id \notin ended
  BY DEF GrantAgain, IsActive, ClaimsAreSound, EndedStaysOver
<1> HIDE DEF row
<1>5. \A q \in Runs : \A t \in tokens'[q] : t \in tokens[q] \/ t.gen = Claim.gen
  BY <1>1, <1>2 DEF Tell, Token, ClaimsAreSound, TypeOK
<1>6. ended' = ended /\ wrote'.id = 0 BY DEF GrantAgain, NoWrite
<1> QED BY <1>1, <1>3, <1>4, <1>5, <1>6, RowOfTheClaim

LEMMA GrantSound ==
    ASSUME NothingTorn, ClaimsAreSound, TypeOK',
           NEW r \in Runs, NEW u \in BOOLEAN, Grant(r, u)
    PROVE  ClaimsAreSound'
<1> DEFINE row == Issued(r, u)
<1>1. PICK result \in Results :
        /\ claims' = Put(claims, row, result)
        /\ IF result = "ok" THEN Tell(r, row) /\ ended' = ended \union 1..ids
           ELSE UNCHANGED <<tokens, ended>>
  BY DEF Grant
<1>2. row \in ClaimType /\ row.id = ids + 1 /\ row.gen = Claim.gen + 1
  BY ClaimShape DEF Grant, ClaimsAreSound
<1> HIDE DEF row
<1>3. \A q \in Runs : \A t \in tokens'[q] : t \in tokens[q] \/ t.gen = row.gen
  BY <1>1, <1>2 DEF Tell, Token, ClaimsAreSound, TypeOK
<1>4. wrote'.id = 0 BY DEF Grant, NoWrite
<1>5. /\ ended' \in {ended, ended \union 1..ids}
      /\ tokens' # tokens \/ ended' # ended => result = "ok"
  BY <1>1
<1> QED BY <1>1, <1>2, <1>3, <1>4, <1>5, RowOfANewClaim

LEMMA RenewSound ==
    ASSUME NothingTorn, ClaimsAreSound, TypeOK',
           NEW r \in Runs, NEW t \in tokens[r], Renew(r, t)
    PROVE  ClaimsAreSound'
<1>1. PICK result \in Results : claims' = Put(claims, Renewed(Claim), result)
  BY DEF Renew
<1>2. Claim.id \notin ended BY CheckedIsNotOver DEF Renew
<1>3. UNCHANGED <<tokens, ended>> /\ wrote'.id = 0 BY DEF Renew, NoWrite
<1>4. /\ Renewed(Claim) \in ClaimType
      /\ Renewed(Claim).id = Claim.id /\ Renewed(Claim).gen = Claim.gen
  BY ClaimShape DEF ClaimsAreSound
<1> QED BY <1>1, <1>2, <1>3, <1>4, RowOfTheClaim

LEMMA EndSound ==
    ASSUME NothingTorn, ClaimsAreSound, TypeOK',
           NEW state \in {"released", "revoked"}, End(state)
    PROVE  ClaimsAreSound'
<1> DEFINE row == [Claim EXCEPT !.state = state]
<1>1. PICK result \in Results :
        /\ claims' = Put(claims, row, result)
        /\ ended' = IF result = "ok" THEN ended \union {Claim.id} ELSE ended
  BY DEF End
<1>2. /\ row \in ClaimType /\ row.id = Claim.id /\ row.gen = Claim.gen
      /\ row.state # "active"
  BY ClaimShape DEF ClaimsAreSound
<1> HIDE DEF row
<1>3. tokens' = tokens /\ wrote'.id = 0 BY DEF End, NoWrite
<1> QED BY <1>1, <1>2, <1>3, RowOfTheClaim

LEMMA TimeMovesSound ==
    ASSUME ClaimsAreSound, TypeOK', TimeMoves
    PROVE  ClaimsAreSound'
<1>1. Claim \in ClaimType BY ClaimShape DEF ClaimsAreSound
<1>2. Claim' = [Claim EXCEPT !.lapsed = ~@]
  BY ClaimShape DEF TimeMoves, Claim, ClaimsAreSound, Files
<1>3. Claim'.id = Claim.id /\ Claim'.gen = Claim.gen /\ Claim'.state = Claim.state
  BY <1>1, <1>2 DEF ClaimType
<1>4. UNCHANGED <<tokens, ended, ids>> /\ wrote' = NoWrite BY DEF TimeMoves
<1>5. HoldersAreFenced' BY <1>4 DEF HoldersAreFenced, NoWrite, TypeOK
<1> QED BY <1>3, <1>4, <1>5 DEF ClaimsAreSound, TokensAreKnown, EndedStaysOver

\* Whoever writes with a token holds a claim that is not over; whoever writes
\* without one shows no claim at all.
LEMMA UpdateSound ==
    ASSUME NothingTorn, ClaimsAreSound, TypeOK', NEW r \in Runs \union {None},
           NEW t, t = None \/ (r \in Runs /\ t \in tokens[r]),
           NEW target \in Statuses, NEW confirm \in BOOLEAN,
           Update(r, t, target, confirm)
    PROVE  ClaimsAreSound'
<1>1. CASE t # None
  <2>1. /\ Check(Claim, t, r) /\ UNCHANGED <<tokens, ids, ended>>
        /\ \/ claims' = claims
           \/ \E result \in Results : claims' = Put(claims, Renewed(Claim), result)
        /\ wrote' \in {NoWrite, [by |-> r, id |-> t.id]}
    BY <1>1, UpdateWithToken DEF ClaimsAreSound
  <2>2. Claim.id \notin ended /\ t.id = Claim.id /\ Claim.state = "active"
    BY <1>1, <2>1, CheckedIsNotOver
  <2>3. /\ claims'.now \in {Claim, Renewed(Claim)}
        /\ Renewed(Claim).id = Claim.id /\ Renewed(Claim).gen = Claim.gen
    BY <2>1, ClaimShape, PutShape DEF Claim, ClaimsAreSound
  <2>4. Claim'.id = Claim.id /\ Claim'.gen = Claim.gen BY <2>3 DEF Claim
  <2>5. HoldersAreFenced'
    BY <2>1, <2>2 DEF HoldersAreFenced, NoWrite, TypeOK
  <2> QED BY <2>1, <2>2, <2>4, <2>5 DEF ClaimsAreSound, TokensAreKnown, EndedStaysOver
<1>2. CASE t = None
  <2> DEFINE row == FirstRow(r, None, target)
             claiming == ClaimsFirst(r, None, target)
             done(result) ==
               /\ claims' = Put(claims, row, result)
               /\ \/ UNCHANGED <<tokens, ended>>
                  \/ /\ claiming /\ result = "ok"
                     /\ Tell(r, row) /\ ended' = ended \union 1..ids
                  \/ /\ RevokesFirst(target) /\ result = "ok"
                     /\ UNCHANGED tokens /\ ended' = ended \union {Claim.id}
  <2>1. /\ claiming => ids < MaxClaims
        /\ wrote' \in {NoWrite, [by |-> r, id |-> 0]}
        /\ \/ claims' = claims /\ row = NoClaim /\ UNCHANGED <<tokens, ended>>
           \/ row # NoClaim /\ \E result \in Results : done(result)
    BY <1>2, UpdateWithout DEF ClaimsAreSound
  <2>2. wrote'.id = 0 BY <2>1 DEF NoWrite
  <2>3. CASE claims' = claims /\ UNCHANGED <<tokens, ended>>
    <3>1. HoldersAreFenced' BY <2>2 DEF HoldersAreFenced, TypeOK
    <3> QED BY <2>3, <3>1
         DEF ClaimsAreSound, TokensAreKnown, EndedStaysOver, Claim
  <2>4. ASSUME row # NoClaim, NEW result \in Results, done(result)
        PROVE  ClaimsAreSound'
    <3>1. /\ row \in ClaimType
          /\ \/ /\ claiming /\ row.id = ids + 1 /\ row.gen = Claim.gen + 1
                /\ r \in Runs /\ ~RevokesFirst(target)
             \/ /\ RevokesFirst(target) /\ ~claiming /\ row.id = Claim.id
                /\ row.gen = Claim.gen /\ row.state = "revoked"
      BY <2>1, <2>4, FirstShape DEF ClaimsAreSound
    <3> HIDE DEF row
    <3>2. CASE claiming
      <4>1. \/ UNCHANGED <<tokens, ended>>
            \/ result = "ok" /\ Tell(r, row) /\ ended' = ended \union 1..ids
        BY <2>4, <3>1, <3>2
      <4>2. \A q \in Runs : \A x \in tokens'[q] : x \in tokens[q] \/ x.gen = row.gen
        BY <3>1, <3>2, <4>1 DEF Tell, Token, ClaimsAreSound, TypeOK
      <4>3. /\ ended' \in {ended, ended \union 1..ids}
            /\ tokens' # tokens \/ ended' # ended => result = "ok"
        BY <4>1
      <4>4. claims' = Put(claims, row, result) BY <2>4
      <4> QED BY <2>2, <3>1, <3>2, <4>2, <4>3, <4>4, RowOfANewClaim
    <3>3. CASE ~claiming
      <4>1. /\ tokens' = tokens /\ claims' = Put(claims, row, result)
            /\ \/ ended' = ended
               \/ result = "ok" /\ ended' = ended \union {Claim.id}
        BY <2>4, <3>1, <3>3
      <4>2. \A q \in Runs : \A x \in tokens'[q] : x \in tokens[q] BY <4>1
      <4> QED BY <2>2, <3>1, <3>3, <4>1, <4>2, RowOfTheClaim
    <3> QED BY <3>2, <3>3
  <2> HIDE DEF row, claiming, done
  <2> QED BY <2>1, <2>3, <2>4
<1> QED BY <1>1, <1>2

LEMMA SoundStep == NothingTorn /\ ClaimsAreSound /\ [Next]_vars => ClaimsAreSound'
<1> SUFFICES ASSUME NothingTorn, ClaimsAreSound, [Next]_vars
             PROVE  ClaimsAreSound'
  OBVIOUS
<1>0. TypeOK' BY TypeStep DEF ClaimsAreSound
<1>1. CASE UNCHANGED vars
  BY <1>0, <1>1 DEF vars, ledgers, ClaimsAreSound, HoldersAreFenced,
     TokensAreKnown, EndedStaysOver, Claim
<1>2. CASE TimeMoves BY <1>0, <1>2, TimeMovesSound
<1>3. CASE Revoke BY <1>0, <1>3, EndSound DEF Revoke
<1>4. CASE \E r \in Runs, u \in BOOLEAN : GrantAgain(r, u) \/ Grant(r, u)
  BY <1>0, <1>4, GrantAgainSound, GrantSound
<1>5. CASE \E r \in Runs : \E t \in tokens[r] : Renew(r, t)
  BY <1>0, <1>5, RenewSound
<1>6. CASE \E r \in Runs : \E t \in tokens[r] \union {None} : Release(r, t)
  BY <1>0, <1>6, EndSound DEF Release
<1>7. CASE \E target \in Statuses, confirm \in BOOLEAN :
             \/ Update(None, None, target, confirm)
             \/ \E r \in Runs : \E t \in tokens[r] \union {None} :
                  Update(r, t, target, confirm)
  <2>1. PICK target \in Statuses, confirm \in BOOLEAN :
          \/ Update(None, None, target, confirm)
          \/ \E r \in Runs : \E t \in tokens[r] \union {None} :
               Update(r, t, target, confirm)
    BY <1>7
  <2>2. CASE Update(None, None, target, confirm)
    <3>1. None \in Runs \union {None} OBVIOUS
    <3> QED BY <1>0, <2>2, <3>1, UpdateSound
  <2>3. ASSUME NEW r \in Runs, NEW t \in tokens[r] \union {None},
               Update(r, t, target, confirm)
        PROVE  ClaimsAreSound'
    <3>1. r \in Runs \union {None} /\ (t = None \/ (r \in Runs /\ t \in tokens[r]))
      OBVIOUS
    <3> QED BY <1>0, <2>3, <3>1, UpdateSound
  <2> QED BY <2>1, <2>2, <2>3
<1> QED BY <1>1, <1>2, <1>3, <1>4, <1>5, <1>6, <1>7 DEF Next

\* As long as no line of a ledger is torn, errors and crashes at every append
\* included, a run that was told its claim is over never writes the task with it
\* again, and the claim is over in the ledger too (update_task_under_claim).
THEOREM HoldersStayFenced ==
    ASSUME NothingTorn
    PROVE  Spec => []ClaimsAreSound
<1>1. ClaimsAreSound /\ [Next]_vars => ClaimsAreSound' BY SoundStep
<1> QED BY <1>1, SoundInit, PTL DEF Spec

-----------------------------------------------------------------------------
\* Live claims

\* No step takes a live claim away from its holder, nor lets another run write
\* the task under it, as the policy has it; torn lines change nothing here.
LEMMA KeptAtStep ==
    ASSUME TypeOK, [Next]_vars, IsActive(Claim)
    PROVE  /\ policy # "off" => claims'.now.holder = Claim.holder
           /\ policy = "enforce" => wrote'.by \in {None, Claim.holder} \/ UNCHANGED vars
<1> DEFINE kept == claims'.now.holder = Claim.holder
<1>0. ASSUME NEW row \in ClaimType, row.holder = Claim.holder,
             NEW result \in Results, claims' = Put(claims, row, result)
      PROVE  kept
  BY <1>0, ClaimShape, PutShape DEF Claim
<1>00. NoWrite.by = None BY DEF NoWrite
<1>1. CASE UNCHANGED vars BY <1>1 DEF vars, ledgers, Claim
<1>2. CASE TimeMoves
  <2>1. claims'.now = [Claim EXCEPT !.lapsed = ~@] /\ Claim \in ClaimType
    BY <1>2, ClaimShape DEF TimeMoves, Claim, Files
  <2> QED BY <1>2, <1>00, <2>1 DEF TimeMoves, ClaimType
<1>3. ASSUME NEW state \in {"released", "revoked"}, End(state)
      PROVE  kept /\ wrote'.by = None
  <2>1. PICK result \in Results :
          claims' = Put(claims, [Claim EXCEPT !.state = state], result)
    BY <1>3 DEF End
  <2>2. /\ [Claim EXCEPT !.state = state] \in ClaimType
        /\ [Claim EXCEPT !.state = state].holder = Claim.holder
    BY ClaimShape
  <2> QED BY <1>0, <1>00, <1>3, <2>1, <2>2 DEF End
<1>4. ASSUME NEW r \in Runs, NEW u \in BOOLEAN, GrantAgain(r, u)
      PROVE  kept /\ wrote'.by = None
  <2> DEFINE row == [Renewed(Claim) EXCEPT !.unbounded = @ \/ u]
  <2>1. PICK result \in Results : claims' = Put(claims, row, result)
    BY <1>4 DEF GrantAgain
  <2>2. row \in ClaimType /\ row.holder = Claim.holder
    BY ClaimShape DEF ClaimType
  <2> HIDE DEF row
  <2> QED BY <1>0, <1>00, <1>4, <2>1, <2>2 DEF GrantAgain
<1>5. ASSUME NEW r \in Runs, NEW u \in BOOLEAN, Grant(r, u)
      PROVE  FALSE
  BY <1>5 DEF Grant
<1>6. ASSUME NEW r \in Runs, NEW t \in tokens[r], Renew(r, t)
      PROVE  kept /\ wrote'.by = None
  <2>1. PICK result \in Results : claims' = Put(claims, Renewed(Claim), result)
    BY <1>6 DEF Renew
  <2> QED BY <1>0, <1>00, <1>6, <2>1, ClaimShape DEF Renew
<1>7. ASSUME NEW r \in Runs \union {None},
             NEW t, t = None \/ (r \in Runs /\ t \in tokens[r]),
             NEW target \in Statuses, NEW confirm \in BOOLEAN,
             Update(r, t, target, confirm)
      PROVE  /\ policy # "off" => kept
             /\ policy = "enforce" => wrote'.by \in {None, Claim.holder}
  <2>1. CASE t # None
    <3>1. /\ Check(Claim, t, r)
          /\ \/ claims' = claims
             \/ \E result \in Results : claims' = Put(claims, Renewed(Claim), result)
          /\ wrote' \in {NoWrite, [by |-> r, id |-> t.id]}
      BY <1>7, <2>1, UpdateWithToken
    <3>2. kept BY <3>1, <1>0, ClaimShape DEF Claim
    <3>3. wrote'.by \in {None, Claim.holder} BY <3>1, <1>00 DEF Check
    <3> QED BY <3>2, <3>3
  <2>2. CASE t = None
    <3> DEFINE row == FirstRow(r, None, target)
    <3>1. /\ ~(policy = "enforce" /\ HeldByOther(r))
          /\ ClaimsFirst(r, None, target) => ids < MaxClaims
          /\ wrote' \in {NoWrite, [by |-> r, id |-> 0]}
          /\ \/ claims' = claims
             \/ row # NoClaim /\ \E result \in Results : claims' = Put(claims, row, result)
      BY <1>7, <2>2, UpdateWithout
    <3>2. ASSUME row # NoClaim, policy # "off"
          PROVE  row \in ClaimType /\ row.holder = Claim.holder
      <4>1. /\ row \in ClaimType
            /\ \/ ClaimsFirst(r, None, target) /\ row.holder = r
               \/ row.holder = Claim.holder
        BY <3>1, <3>2, FirstShape
      <4>2. ClaimsFirst(r, None, target) => Claim.holder = r
        BY <3>2 DEF ClaimsFirst, HeldByOther
      <4> QED BY <4>1, <4>2
    <3>3. policy # "off" => kept
      <4> HIDE DEF row
      <4> QED BY <3>1, <3>2, <1>0 DEF Claim
    <3>4. policy = "enforce" => wrote'.by \in {None, Claim.holder}
      BY <3>1, <1>00 DEF HeldByOther
    <3> QED BY <3>3, <3>4
  <2> QED BY <2>1, <2>2
<1> HIDE DEF kept
<1>8. CASE \E target \in Statuses, confirm \in BOOLEAN :
             \/ Update(None, None, target, confirm)
             \/ \E r \in Runs : \E t \in tokens[r] \union {None} :
                  Update(r, t, target, confirm)
  <2>1. \E r \in Runs \union {None}, target \in Statuses, confirm \in BOOLEAN :
          \E t : /\ t = None \/ (r \in Runs /\ t \in tokens[r])
                 /\ Update(r, t, target, confirm)
    BY <1>8
  <2> QED BY <2>1, <1>7 DEF kept
<1> QED BY <1>1, <1>2, <1>3, <1>4, <1>5, <1>6, <1>8
        DEF Next, Revoke, Release, kept

\* LiveClaimIsKept: while a claim is live no other run takes it over unless claims
\* are switched off, and where they are enforced nobody else writes the task
\* (grant, _resolve_token_or_conflict, _auto_claim_on_start).
THEOREM LiveClaimsAreKept == Spec => LiveClaimIsKept
<1> DEFINE A == IsActive(Claim) =>
                  /\ policy # "off" => claims'.now.holder = Claim.holder
                  /\ policy = "enforce" => wrote'.by \in {None, Claim.holder}
<1>1. TypeOK /\ [Next]_vars => [A]_vars BY KeptAtStep
<1> QED BY <1>1, TypeCorrect, PTL DEF Spec, LiveClaimIsKept
=============================================================================
