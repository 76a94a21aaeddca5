---------------------------- MODULE PeopleProofs ----------------------------
(***************************************************************************)
(* Theorems about Sessions and Membership, for any account's threads,      *)
(* links and limits, and any workspaces, addresses and threads.            *)
(***************************************************************************)
EXTENDS MCPeople, FiniteSetTheorems, TLAPS

(***************************************************************************)
(* Sessions                                                                *)
(***************************************************************************)

(* What a request holds at each of its steps, n passwords having been      *)
(* written: no version or password that was not given out.                 *)
Holds(r, n) ==
  \/ r \in [step : {"idle", "guess", "verifyWrite"}]
  \/ r \in [step : {"mint", "changeMail", "changeMint"}, version : 0..n, pass : 0..n]
  \/ r \in [step : {"resetWrite"}, link : ResetTokens, version : 0..n]
  \/ r \in [step : {"change", "changeGuess"}, version : 0..n]
  \/ r \in [step : {"reset"}, link : ResetTokens]
  \/ r \in [step : {"verifyMark"}, link : VerifyTokens]

RequestsTyped ==
  /\ req = [p \in Procs |-> req[p]]
  /\ \A p \in Procs : Holds(req[p], writes.count)

(* The password is the one written last, and no version is ahead of it.    *)
RowFollows ==
  /\ account.pass = writes.count /\ account.version <= writes.count
  /\ \A t \in ResetTokens : uses[t] <= writes.count

(* The window counts the attempts judged; those being judged come on top.  *)
Guessers(w) == {p \in Procs : At(p, IF w = "login" THEN "guess" ELSE "changeGuess")}

AttemptsCounted ==
  \A w \in Limiters :
    /\ window[w] \in Nat
    /\ window[w] + Cardinality(Guessers(w)) <= MaxAttempts + Cardinality(Procs) - 1

(* Who has read a link and not written yet.  A link that nobody marked was *)
(* used by nobody.                                                         *)
Readers(t) == {p \in Procs : (At(p, "reset") \/ At(p, "resetWrite")) /\ req[p].link = t}

LinksCounted ==
  \A t \in ResetTokens :
    /\ uses[t] + Cardinality(Readers(t)) <= Cardinality(Procs)
    /\ links[t] \in {"none", "live"} =>
         uses[t] = 0 /\ \A p \in Procs : At(p, "resetWrite") => req[p].link # t

(* Unless password writes overlapped, a version stands for one password,   *)
(* and whoever loaded the account before writing it knows the latest.      *)
VersionsAreTrue ==
  ~writes.overlapped =>
    /\ account.version = writes.count
    /\ \A s \in minted : s.version = s.proof
    /\ \A p \in Procs :
         /\ At(p, "mint") => req[p].version = req[p].pass
         /\ Loaded(p) => req[p].version = writes.count
         /\ At(p, "changeMail") \/ At(p, "changeMint") => req[p].pass = writes.count

SessionsInv ==
  /\ SessionsTypeOK /\ IsFiniteSet(minted) /\ RequestsTyped /\ RowFollows
  /\ AttemptsCounted /\ LinksCounted /\ VersionsAreTrue

-----------------------------------------------------------------------------
LEMMA ProcsCounted ==
  /\ Cardinality(Procs) \in Nat /\ Cardinality(Procs) >= 1
  /\ \A T \in SUBSET Procs : /\ IsFiniteSet(T) /\ Cardinality(T) \in Nat
                             /\ Cardinality(T) <= Cardinality(Procs)
<1>1. IsFiniteSet(Procs) /\ Procs # {}
  BY SessionsAssumption DEF SessionsAssumption
<1>2. Cardinality(Procs) \in Nat /\ Cardinality(Procs) # 0
  BY <1>1, FS_CardinalityType, FS_EmptySet
<1>3. ASSUME NEW T \in SUBSET Procs
      PROVE  IsFiniteSet(T) /\ Cardinality(T) \in Nat /\ Cardinality(T) <= Cardinality(Procs)
  BY <1>1, FS_Subset, FS_CardinalityType
<1> QED BY <1>2, <1>3

LEMMA InitSessions ==
  ASSUME SessionsInit
  PROVE  SessionsInv
<1>0. /\ Cardinality(Procs) \in Nat /\ Cardinality(Procs) >= 1 /\ MaxAttempts \in Nat
      /\ MaxWrites \in Nat /\ 0 \in 0..MaxWrites
  BY ProcsCounted, SessionsAssumption DEF SessionsAssumption
<1>1. \A p \in Procs : req[p] = Idle /\ req[p].step = "idle"
  BY DEF SessionsInit, Idle
<1>2. SessionsTypeOK
  BY <1>0, <1>1 DEF SessionsInit, SessionsTypeOK, UserRow, Session, LinkStates, Steps
<1>3. IsFiniteSet(minted)
  BY FS_EmptySet DEF SessionsInit
<1>4. RequestsTyped
  BY <1>1 DEF SessionsInit, RequestsTyped, Holds, Idle
<1>5. RowFollows
  BY DEF SessionsInit, RowFollows
<1>6. AttemptsCounted
  <2>1. \A w \in Limiters : Guessers(w) = {} /\ window[w] = 0
    BY <1>1 DEF Guessers, At, SessionsInit
  <2>2. Cardinality({}) = 0
    BY FS_EmptySet
  <2>3. \A w \in Limiters : window[w] = 0 /\ Cardinality(Guessers(w)) = 0
    BY <2>1, <2>2
  <2> QED BY <1>0, <2>3 DEF AttemptsCounted
<1>7. LinksCounted
  <2>1. \A t \in ResetTokens : Readers(t) = {} /\ uses[t] = 0
    BY <1>1 DEF Readers, At, SessionsInit
  <2>2. Cardinality({}) = 0
    BY FS_EmptySet
  <2> QED BY <1>0, <1>1, <2>1, <2>2 DEF LinksCounted, At
<1>8. VersionsAreTrue
  BY <1>1 DEF SessionsInit, VersionsAreTrue, At, Loaded
<1> QED BY <1>2, <1>3, <1>4, <1>5, <1>6, <1>7, <1>8 DEF SessionsInv

-----------------------------------------------------------------------------
(* The types, and what each request holds.                                 *)
LEMMA Went ==
  ASSUME RequestsTyped, NEW p \in Procs, NEW next, Goto(p, next), NEW n,
         Holds(next, n), \A q \in Procs : Holds(req[q], n)
  PROVE  /\ req' = [q \in Procs |-> req'[q]]
         /\ \A q \in Procs : Holds(req'[q], n) /\ req'[q] = IF q = p THEN next ELSE req[q]
BY DEF RequestsTyped, Goto

LEMMA HoldsMore ==
  ASSUME NEW r, NEW n \in Nat, Holds(r, n)
  PROVE  Holds(r, n + 1)
<1>1. 0..n \subseteq 0..(n + 1)
  OBVIOUS
<1> QED BY <1>1 DEF Holds

LEMMA HoldsStep ==
  ASSUME NEW r, NEW n, Holds(r, n)
  PROVE  r.step \in Steps
BY DEF Holds, Steps

(* A request that does not write the password only moves on.               *)
LEMMA RequestTypes ==
  ASSUME SessionsInv, NEW p \in Procs,
         \/ LoginCheck(p) \/ LoginFails(p) \/ LoginMatches(p) \/ LoginMint(p)
         \/ ResetMark(p)
         \/ ChangeRead(p) \/ ChangeCheck(p) \/ ChangeRefused(p)
         \/ ChangeMail(p) \/ ChangeMint(p)
         \/ VerifyMark(p) \/ VerifyWrite(p)
         \/ \E t \in ResetTokens : ResetRead(p, t)
         \/ \E t \in VerifyTokens : VerifyRead(p, t)
  PROVE  /\ RequestsTyped' /\ writes' = writes
         /\ \A q \in Procs : req'[q].step \in Steps
<1> DEFINE n == writes.count
<1>1. /\ account.pass \in 0..n /\ account.version \in 0..n /\ n \in Nat
  BY DEF SessionsInv, SessionsTypeOK, RowFollows, UserRow
<1>2. RequestsTyped /\ Holds(req[p], n) /\ \A q \in Procs : Holds(req[q], n)
  BY DEF SessionsInv, RequestsTyped
<1>3. writes' = writes
  BY DEF LoginCheck, LoginFails, LoginMatches, LoginMint, ResetMark, ChangeRead, ChangeCheck, ChangeRefused,
     ChangeMail, ChangeMint, VerifyMark, VerifyWrite, ResetRead, VerifyRead
<1>4. ASSUME NEW next, Goto(p, next), Holds(next, n)
      PROVE  RequestsTyped' /\ \A q \in Procs : req'[q].step \in Steps
  BY <1>2, <1>3, <1>4, Went, HoldsStep DEF RequestsTyped
<1>5. Holds(Idle, n)
  BY DEF Holds, Idle
<1>6. CASE LoginFails(p) \/ LoginMint(p) \/ ChangeRefused(p) \/ ChangeMint(p) \/ VerifyWrite(p)
  BY <1>4, <1>5, <1>6 DEF LoginFails, LoginMint, ChangeRefused, ChangeMint, VerifyWrite
<1>7. CASE LoginCheck(p)
  <2>1. Holds([step |-> "guess"], n)
    BY DEF Holds
  <2> QED BY <1>4, <1>7, <2>1 DEF LoginCheck
<1>8. CASE LoginMatches(p)
  <2>1. Holds([step |-> "mint", version |-> account.version, pass |-> account.pass], n)
    BY <1>1 DEF Holds
  <2> QED BY <1>4, <1>8, <2>1 DEF LoginMatches
<1>9. CASE ResetMark(p)
  <2>1. req[p].link \in ResetTokens
    BY <1>2, <1>9 DEF ResetMark, At, Holds
  <2>2. Holds([step |-> "resetWrite", link |-> req[p].link, version |-> account.version], n)
    BY <1>1, <2>1 DEF Holds
  <2> QED BY <1>4, <1>9, <2>2 DEF ResetMark
<1>10. CASE ChangeRead(p)
  <2>1. Holds([step |-> "change", version |-> account.version], n)
    BY <1>1 DEF Holds
  <2> QED BY <1>4, <1>10, <2>1 DEF ChangeRead
<1>11. CASE ChangeCheck(p)
  <2>1. req[p] \in [step : {"change", "changeGuess"}, version : 0..n]
    BY <1>2, <1>11 DEF ChangeCheck, At, Holds
  <2>2. Holds([req[p] EXCEPT !.step = "changeGuess"], n)
    BY <2>1 DEF Holds
  <2> QED BY <1>4, <1>5, <1>11, <2>2 DEF ChangeCheck
<1>12. CASE ChangeMail(p)
  <2>1. req[p].pass \in 0..n /\ req[p].version \in 0..n
    BY <1>2, <1>12 DEF ChangeMail, At, Holds
  <2>2. Holds([step |-> "changeMint", pass |-> req[p].pass,
               version |-> IF account.verified THEN account.version ELSE req[p].version], n)
    BY <1>1, <2>1 DEF Holds
  <2> QED BY <1>4, <1>12, <2>2 DEF ChangeMail
<1>13. CASE VerifyMark(p)
  <2>1. Holds([step |-> "verifyWrite"], n)
    BY DEF Holds
  <2> QED BY <1>4, <1>13, <2>1 DEF VerifyMark
<1>14. ASSUME NEW t \in ResetTokens, ResetRead(p, t)
       PROVE  RequestsTyped' /\ \A q \in Procs : req'[q].step \in Steps
  <2>1. Holds([step |-> "reset", link |-> t], n)
    BY DEF Holds
  <2> QED BY <1>4, <1>14, <2>1 DEF ResetRead
<1>15. ASSUME NEW t \in VerifyTokens, VerifyRead(p, t)
       PROVE  RequestsTyped' /\ \A q \in Procs : req'[q].step \in Steps
  <2>1. Holds([step |-> "verifyMark", link |-> t], n)
    BY DEF Holds
  <2> QED BY <1>4, <1>15, <2>1 DEF VerifyRead
<1> QED BY <1>3, <1>6, <1>7, <1>8, <1>9, <1>10, <1>11, <1>12, <1>13, <1>14, <1>15

(* Writing the password writes a version one ahead of the one loaded.      *)
LEMMA WriteTypes ==
  ASSUME SessionsInv, NEW p \in Procs, ResetWrite(p) \/ ChangeWrite(p)
  PROVE  /\ RequestsTyped' /\ RowFollows' /\ account' \in UserRow
         /\ writes' \in [count : 0..MaxWrites, overlapped : BOOLEAN]
         /\ uses' \in [ResetTokens -> 0..MaxWrites]
         /\ \A q \in Procs : req'[q].step \in Steps
<1> DEFINE n == writes.count
<1>1. /\ n \in Nat /\ MaxWrites \in Nat /\ account \in UserRow
      /\ uses \in [ResetTokens -> 0..MaxWrites] /\ \A t \in ResetTokens : uses[t] <= n
  BY SessionsAssumption DEF SessionsInv, SessionsTypeOK, RowFollows, SessionsAssumption
<1>2. RequestsTyped /\ \A q \in Procs : Holds(req[q], n) /\ Holds(req[q], n + 1)
  BY <1>1, HoldsMore DEF SessionsInv, RequestsTyped
<1>3. req[p].version \in 0..n /\ SetPassword(p, req[p].version)
  BY <1>2 DEF ResetWrite, ChangeWrite, At, Holds
<1>4. PICK b \in BOOLEAN : b = (writes.overlapped \/ \E q \in Procs \ {p} : Loaded(q))
  BY Zenon
<1>5. /\ n < MaxWrites /\ writes'.count = n + 1
      /\ account'.pass = n + 1 /\ account'.version = req[p].version + 1
      /\ account' \in UserRow /\ writes' \in [count : 0..MaxWrites, overlapped : BOOLEAN]
  <2>1. /\ n < MaxWrites /\ writes' = [count |-> n + 1, overlapped |-> b]
        /\ account' = [account EXCEPT !.pass = n + 1, !.version = req[p].version + 1]
    BY <1>3, <1>4 DEF SetPassword
  <2>2. n + 1 \in 0..MaxWrites /\ req[p].version + 1 \in 0..MaxWrites
    BY <1>1, <1>3, <2>1
  <2> QED BY <1>1, <1>4, <2>1, <2>2 DEF UserRow
<1>6. ASSUME NEW next, Goto(p, next), Holds(next, n + 1)
      PROVE  RequestsTyped' /\ \A q \in Procs : req'[q].step \in Steps
  BY <1>2, <1>5, <1>6, Went, HoldsStep DEF RequestsTyped
<1>7. CASE ResetWrite(p)
  <2>1. req[p].link \in ResetTokens
    BY <1>2, <1>7 DEF ResetWrite, At, Holds
  <2>2. Holds(Idle, n + 1) /\ Goto(p, Idle)
    BY <1>7 DEF Holds, Idle, ResetWrite
  <2>3. \A t \in ResetTokens : uses'[t] = IF t = req[p].link THEN uses[t] + 1 ELSE uses[t]
    BY <1>1, <1>7, <2>1 DEF ResetWrite
  <2>4. uses' \in [ResetTokens -> 0..MaxWrites] /\ \A t \in ResetTokens : uses'[t] <= n + 1
    <3>1. \A t \in ResetTokens : uses'[t] \in 0..MaxWrites /\ uses'[t] <= n + 1
      BY <1>1, <1>5, <2>3
    <3> QED BY <1>1, <1>7, <3>1 DEF ResetWrite
  <2>5. RowFollows'
    BY <1>1, <1>3, <1>5, <2>4 DEF RowFollows
  <2>6. RequestsTyped' /\ \A q \in Procs : req'[q].step \in Steps
    BY <1>6, <2>2
  <2> QED BY <1>5, <2>4, <2>5, <2>6
<1>8. CASE ChangeWrite(p)
  <2>1. Holds([step |-> "changeMail", version |-> req[p].version + 1, pass |-> n + 1], n + 1)
    BY <1>1, <1>3 DEF Holds
  <2>2. uses' = uses
    BY <1>8 DEF ChangeWrite
  <2> QED BY <1>1, <1>3, <1>5, <1>6, <1>8, <2>1, <2>2 DEF RowFollows, ChangeWrite
<1> QED BY <1>5, <1>7, <1>8

LEMMA MintTypes ==
  ASSUME SessionsInv, NEW v \in 0..MaxWrites, NEW k \in 0..MaxWrites, Mint(v, k)
  PROVE  minted' \subseteq Session /\ IsFiniteSet(minted')
<1>1. IsFiniteSet(minted) /\ Cardinality(minted) \in Nat /\ minted \subseteq Session
  BY FS_CardinalityType DEF SessionsInv, SessionsTypeOK
<1>2. Cardinality(minted) + 1 \in 1..MaxSessions
  BY <1>1, SessionsAssumption DEF Mint, SessionsAssumption
<1>3. [id |-> Cardinality(minted) + 1, version |-> v, proof |-> k] \in Session
  BY <1>2 DEF Session
<1> QED BY <1>1, <1>3, FS_AddElement DEF Mint

LEMMA TypeStep ==
  ASSUME SessionsInv, AttemptsCounted', SessionsNext
  PROVE  SessionsTypeOK' /\ IsFiniteSet(minted)' /\ RequestsTyped' /\ RowFollows'
<1>1. /\ SessionsTypeOK /\ IsFiniteSet(minted) /\ RequestsTyped /\ RowFollows
      /\ account \in UserRow /\ links \in [Links -> LinkStates] /\ minted \subseteq Session
  BY DEF SessionsInv, SessionsTypeOK
<1>2. ASSUME window' = window \/ window' = [w \in Limiters |-> 0]
             \/ \E w \in Limiters : RecordFailure(w) \/ ResetWindow(w)
      PROVE  window' \in [Limiters -> 0..(MaxAttempts + Cardinality(Procs))]
  <2>1. window' = [w \in Limiters |-> window'[w]]
    BY <1>1, <1>2 DEF SessionsTypeOK, RecordFailure, ResetWindow
  <2>2. \A w \in Limiters : window'[w] \in 0..(MaxAttempts + Cardinality(Procs))
    <3> SUFFICES ASSUME NEW w \in Limiters
                 PROVE  window'[w] \in 0..(MaxAttempts + Cardinality(Procs))
      OBVIOUS
    <3>1. /\ window'[w] \in Nat
          /\ window'[w] + Cardinality(Guessers(w)') <= MaxAttempts + Cardinality(Procs) - 1
      BY DEF AttemptsCounted
    <3>2. Cardinality(Guessers(w)') \in Nat
      BY ProcsCounted DEF Guessers
    <3> QED BY <3>1, <3>2, ProcsCounted, SessionsAssumption DEF SessionsAssumption
  <2> QED BY <2>1, <2>2
<1> USE <1>1
<1>3. CASE Logout \/ DeactivateAccount
  BY <1>3 DEF Logout, DeactivateAccount, SessionsTypeOK, RequestsTyped, RowFollows, UserRow, Session
<1>4. CASE Restart
  <2>1. \A p \in Procs : Holds(Idle, writes.count) /\ req'[p] = Idle /\ Idle.step \in Steps
    BY <1>4 DEF Restart, Holds, Idle, Steps
  <2>2. window' \in [Limiters -> 0..(MaxAttempts + Cardinality(Procs))]
    BY <1>2, <1>4 DEF Restart
  <2> QED BY <1>4, <2>1, <2>2 DEF Restart, SessionsTypeOK, RequestsTyped, RowFollows
<1>5. ASSUME NEW w \in Limiters, WindowEnds(w)
      PROVE  SessionsTypeOK' /\ IsFiniteSet(minted)' /\ RequestsTyped' /\ RowFollows'
  <2>1. window' \in [Limiters -> 0..(MaxAttempts + Cardinality(Procs))]
    BY <1>2, <1>5 DEF WindowEnds
  <2> QED BY <1>5, <2>1 DEF WindowEnds, SessionsTypeOK, RequestsTyped, RowFollows
<1>6. ASSUME \/ \E l \in Links : LinkExpires(l)
             \/ \E t \in ResetTokens : MailReset(t)
             \/ \E t \in VerifyTokens : MailVerification(t)
      PROVE  SessionsTypeOK' /\ IsFiniteSet(minted)' /\ RequestsTyped' /\ RowFollows'
  BY <1>6 DEF LinkExpires, MailReset, MailVerification, SessionsTypeOK, RequestsTyped, RowFollows, Links, LinkStates
<1>7. ASSUME NEW p \in Procs, ResetWrite(p) \/ ChangeWrite(p)
      PROVE  SessionsTypeOK' /\ IsFiniteSet(minted)' /\ RequestsTyped' /\ RowFollows'
  BY <1>7, WriteTypes DEF ResetWrite, ChangeWrite, SessionsTypeOK
<1>8. ASSUME NEW p \in Procs,
             \/ LoginCheck(p) \/ LoginFails(p) \/ LoginMatches(p)
             \/ ChangeRead(p) \/ ChangeCheck(p) \/ ChangeRefused(p) \/ ChangeMail(p)
             \/ VerifyWrite(p)
             \/ \E t \in ResetTokens : ResetRead(p, t)
             \/ \E t \in VerifyTokens : VerifyRead(p, t)
      PROVE  SessionsTypeOK' /\ IsFiniteSet(minted)' /\ RequestsTyped' /\ RowFollows'
  <2>1. RequestsTyped' /\ writes' = writes /\ \A q \in Procs : req'[q].step \in Steps
    BY <1>8, RequestTypes
  <2>2. UNCHANGED <<links, minted, revoked, uses>>
    BY <1>8 DEF LoginCheck, LoginFails, LoginMatches, ChangeRead, ChangeCheck, ChangeRefused, ChangeMail,
       VerifyWrite, ResetRead, VerifyRead
  <2>3. window' \in [Limiters -> 0..(MaxAttempts + Cardinality(Procs))]
    BY <1>2, <1>8 DEF LoginCheck, LoginFails, LoginMatches, ChangeRead, ChangeCheck, ChangeRefused, ChangeMail,
       VerifyWrite, ResetRead, VerifyRead, Limiters
  <2>4. account' \in UserRow /\ account'.pass = account.pass /\ account'.version = account.version
    BY <1>8 DEF LoginCheck, LoginFails, LoginMatches, ChangeRead, ChangeCheck, ChangeRefused, ChangeMail,
       VerifyWrite, ResetRead, VerifyRead, UserRow
  <2> QED BY <2>1, <2>2, <2>3, <2>4 DEF SessionsTypeOK, RowFollows
<1>9. ASSUME NEW p \in Procs, LoginMint(p) \/ ChangeMint(p)
      PROVE  SessionsTypeOK' /\ IsFiniteSet(minted)' /\ RequestsTyped' /\ RowFollows'
  <2>1. RequestsTyped' /\ writes' = writes /\ \A q \in Procs : req'[q].step \in Steps
    BY <1>9, RequestTypes
  <2>2. req[p].version \in 0..writes.count /\ req[p].pass \in 0..writes.count
    BY <1>9 DEF LoginMint, ChangeMint, At, RequestsTyped, Holds
  <2>3. 0..writes.count \subseteq 0..MaxWrites
    BY SessionsAssumption DEF SessionsTypeOK, SessionsAssumption
  <2>4. minted' \subseteq Session /\ IsFiniteSet(minted')
    BY <1>9, <2>2, <2>3, MintTypes DEF LoginMint, ChangeMint
  <2> QED BY <1>9, <2>1, <2>4 DEF LoginMint, ChangeMint, SessionsTypeOK, RowFollows
<1>10. ASSUME NEW p \in Procs, ResetMark(p) \/ VerifyMark(p)
       PROVE  SessionsTypeOK' /\ IsFiniteSet(minted)' /\ RequestsTyped' /\ RowFollows'
  <2>1. RequestsTyped' /\ writes' = writes /\ \A q \in Procs : req'[q].step \in Steps
    BY <1>10, RequestTypes
  <2>2. links' \in [Links -> LinkStates]
    BY <1>10 DEF ResetMark, VerifyMark, LinkStates
  <2> QED BY <1>10, <2>1, <2>2 DEF ResetMark, VerifyMark, SessionsTypeOK, RowFollows
<1> QED BY <1>3, <1>4, <1>5, <1>6, <1>7, <1>8, <1>9, <1>10 DEF SessionsNext

-----------------------------------------------------------------------------
(* Attempts.  A window grows by what a request judged, which then is no    *)
(* longer judging, and a request begins to judge below the limit only.     *)
LEMMA AttemptsStep ==
  ASSUME SessionsInv, SessionsNext
  PROVE  AttemptsCounted'
<1> DEFINE Step(w) == IF w = "login" THEN "guess" ELSE "changeGuess"
<1>1. /\ window \in [Limiters -> 0..(MaxAttempts + Cardinality(Procs))] /\ AttemptsCounted
      /\ req = [p \in Procs |-> req[p]] /\ MaxAttempts \in Nat
      /\ \A w \in Limiters : Guessers(w) \subseteq Procs
  BY SessionsAssumption DEF SessionsInv, SessionsTypeOK, RequestsTyped, SessionsAssumption, Guessers
<1>2. \A w \in Limiters : window[w] \in Nat
  BY <1>1 DEF AttemptsCounted
<1>3. ASSUME NEW w \in Limiters, window'[w] \in Nat, window'[w] <= window[w], Guessers(w)' \subseteq Guessers(w)
      PROVE  /\ window'[w] \in Nat
             /\ window'[w] + Cardinality(Guessers(w)') <= MaxAttempts + Cardinality(Procs) - 1
  <2>1. IsFiniteSet(Guessers(w)) /\ Cardinality(Guessers(w)) \in Nat
    BY <1>1, ProcsCounted
  <2>2. Cardinality(Guessers(w)') \in Nat /\ Cardinality(Guessers(w)') <= Cardinality(Guessers(w))
    BY <1>3, <2>1, FS_Subset, FS_CardinalityType
  <2> QED BY <1>1, <1>2, <1>3, <2>1, <2>2, ProcsCounted DEF AttemptsCounted
<1>4. ASSUME \A w \in Limiters : window'[w] = window[w] \/ window'[w] = 0,
             \A p \in Procs : req'[p].step \in {"guess", "changeGuess"} => req'[p].step = req[p].step
      PROVE  AttemptsCounted'
  <2>1. \A w \in Limiters : Guessers(w)' \subseteq Guessers(w)
    BY <1>4 DEF Guessers, At
  <2>2. \A w \in Limiters : window'[w] \in Nat /\ window'[w] <= window[w]
    BY <1>2, <1>4
  <2> QED BY <1>3, <2>1, <2>2 DEF AttemptsCounted
(* A request judged and counted.                                           *)
<1>5. ASSUME NEW w \in Limiters, NEW p \in Guessers(w), RecordFailure(w), Goto(p, Idle)
      PROVE  AttemptsCounted'
  <2>1. Guessers(w)' = Guessers(w) \ {p} /\ \A v \in Limiters : Guessers(v)' \subseteq Guessers(v)
    BY <1>1, <1>5 DEF Guessers, At, Goto, Idle
  <2>2. Cardinality(Guessers(w)') = Cardinality(Guessers(w)) - 1 /\ Cardinality(Guessers(w)) \in Nat
    BY <1>1, <2>1, ProcsCounted, FS_RemoveElement
  <2>3. window'[w] = window[w] + 1 /\ \A v \in Limiters : v # w => window'[v] = window[v]
    BY <1>1, <1>5 DEF RecordFailure
  <2>4. \A v \in Limiters : v # w => window'[v] \in Nat /\ window'[v] <= window[v]
    BY <1>2, <2>3
  <2>5. window[w] + Cardinality(Guessers(w)) <= MaxAttempts + Cardinality(Procs) - 1
    BY <1>1 DEF AttemptsCounted
  <2>6. /\ window'[w] \in Nat
        /\ window'[w] + Cardinality(Guessers(w)') <= MaxAttempts + Cardinality(Procs) - 1
    BY <1>1, <1>2, <2>2, <2>3, <2>5, ProcsCounted
  <2> QED BY <1>3, <2>1, <2>4, <2>6 DEF AttemptsCounted
(* A request admitted.                                                     *)
<1>6. ASSUME NEW w \in Limiters, NEW p \in Procs, NEW next, next.step = Step(w), LimiterOpen(w),
             Goto(p, next), UNCHANGED window
      PROVE  AttemptsCounted'
  <2>1. \A v \in Limiters : v # w => Guessers(v)' \subseteq Guessers(v)
    BY <1>1, <1>6 DEF Guessers, At, Goto, Limiters
  <2>2. Cardinality(Guessers(w)') \in Nat /\ Cardinality(Guessers(w)') <= Cardinality(Procs)
    BY ProcsCounted DEF Guessers
  <2>3. /\ window'[w] \in Nat
        /\ window'[w] + Cardinality(Guessers(w)') <= MaxAttempts + Cardinality(Procs) - 1
    BY <1>1, <1>2, <1>6, <2>2, ProcsCounted DEF LimiterOpen
  <2>4. \A v \in Limiters : window'[v] \in Nat /\ window'[v] <= window[v]
    BY <1>2, <1>6
  <2> QED BY <1>3, <2>1, <2>3, <2>4 DEF AttemptsCounted
<1> HIDE DEF Step
<1>7. CASE Logout \/ DeactivateAccount \/ Restart
  BY <1>1, <1>4, <1>7 DEF Logout, DeactivateAccount, Restart, Idle
<1>8. ASSUME NEW w \in Limiters, WindowEnds(w)
      PROVE  AttemptsCounted'
  BY <1>1, <1>4, <1>8 DEF WindowEnds, ResetWindow
<1>9. ASSUME \/ \E l \in Links : LinkExpires(l)
             \/ \E t \in ResetTokens : MailReset(t)
             \/ \E t \in VerifyTokens : MailVerification(t)
      PROVE  AttemptsCounted'
  BY <1>4, <1>9 DEF LinkExpires, MailReset, MailVerification
<1>10. ASSUME NEW p \in Procs,
              \/ LoginMatches(p) \/ LoginMint(p) \/ ResetMark(p) \/ ResetWrite(p) \/ ChangeRead(p)
              \/ ChangeWrite(p) \/ ChangeMail(p) \/ ChangeMint(p) \/ VerifyMark(p) \/ VerifyWrite(p)
              \/ \E t \in ResetTokens : ResetRead(p, t)
              \/ \E t \in VerifyTokens : VerifyRead(p, t)
       PROVE  AttemptsCounted'
  <2>1. \A q \in Procs : req'[q].step \in {"guess", "changeGuess"} => req'[q].step = req[q].step
    BY <1>1, <1>10 DEF LoginMatches, LoginMint, ResetMark, ResetWrite, ChangeRead, ChangeWrite, ChangeMail, ChangeMint,
       VerifyMark, VerifyWrite, ResetRead, VerifyRead, Goto, Idle
  <2>2. \A w \in Limiters : window'[w] = window[w] \/ window'[w] = 0
    BY <1>1, <1>10 DEF LoginMatches, LoginMint, ResetMark, ResetWrite, ChangeRead, ChangeWrite, ChangeMail, ChangeMint,
       VerifyMark, VerifyWrite, ResetRead, VerifyRead, ResetWindow
  <2> QED BY <1>4, <2>1, <2>2
<1>11. ASSUME NEW p \in Procs, LoginCheck(p)
       PROVE  AttemptsCounted'
  BY <1>6, <1>11 DEF LoginCheck, Limiters, Step
<1>12. ASSUME NEW p \in Procs, ChangeCheck(p)
       PROVE  AttemptsCounted'
  <2>1. CASE LimiterOpen("change")
    <3>1. [req[p] EXCEPT !.step = "changeGuess"].step = "changeGuess"
      BY <1>12 DEF ChangeCheck, At, SessionsInv, RequestsTyped, Holds
    <3> QED BY <1>6, <1>12, <2>1, <3>1 DEF ChangeCheck, Limiters, Step
  <2>2. CASE ~LimiterOpen("change")
    BY <1>1, <1>4, <1>12, <2>2 DEF ChangeCheck, Goto, Idle
  <2> QED BY <2>1, <2>2
<1>13. ASSUME NEW p \in Procs, LoginFails(p) \/ ChangeRefused(p)
       PROVE  AttemptsCounted'
  <2>1. CASE LoginFails(p)
    BY <1>5, <2>1 DEF LoginFails, Guessers, Limiters
  <2>2. CASE ChangeRefused(p) /\ RecordFailure("change")
    BY <1>5, <2>2 DEF ChangeRefused, Guessers, Limiters
  <2>3. CASE ChangeRefused(p) /\ UNCHANGED window
    BY <1>1, <1>4, <2>3 DEF ChangeRefused, Goto, Idle
  <2> QED BY <1>13, <2>1, <2>2, <2>3 DEF ChangeRefused
<1> QED BY <1>7, <1>8, <1>9, <1>10, <1>11, <1>12, <1>13 DEF SessionsNext

(* Links.  A reader has a link that nobody marked when it read it, and     *)
(* leaves the readers as it uses it.                                       *)
LEMMA LinksStep ==
  ASSUME SessionsInv, SessionsNext
  PROVE  LinksCounted'
<1>1. /\ LinksCounted /\ req = [p \in Procs |-> req[p]]
      /\ uses \in [ResetTokens -> 0..MaxWrites] /\ MaxWrites \in Nat
      /\ links \in [Links -> LinkStates] /\ ResetTokens \subseteq Links
      /\ \A p \in Procs : Holds(req[p], writes.count)
  BY SessionsAssumption DEF SessionsInv, SessionsTypeOK, RequestsTyped, SessionsAssumption, Links
<1>2. \A t \in ResetTokens : uses[t] \in Nat /\ Readers(t) \subseteq Procs /\ Cardinality(Readers(t)) \in Nat
  BY <1>1, ProcsCounted DEF Readers
<1>3. ASSUME NEW t \in ResetTokens, uses'[t] = uses[t], Readers(t)' \subseteq Readers(t)
      PROVE  uses'[t] + Cardinality(Readers(t)') <= Cardinality(Procs)
  <2>1. Cardinality(Readers(t)') \in Nat /\ Cardinality(Readers(t)') <= Cardinality(Readers(t))
    BY <1>2, <1>3, ProcsCounted, FS_Subset, FS_CardinalityType
  <2> QED BY <1>1, <1>2, <1>3, <2>1, ProcsCounted DEF LinksCounted
<1>4. ASSUME UNCHANGED uses,
             \A t \in ResetTokens : links'[t] \in {"none", "live"} => links[t] \in {"none", "live"},
             \A p \in Procs : req'[p] = req[p] \/ req'[p].step \notin {"reset", "resetWrite"}
      PROVE  LinksCounted'
  <2>1. \A t \in ResetTokens : Readers(t)' \subseteq Readers(t)
    BY <1>4 DEF Readers, At
  <2>2. \A t \in ResetTokens : uses'[t] + Cardinality(Readers(t)') <= Cardinality(Procs)
    BY <1>3, <1>4, <2>1
  <2>3. \A t \in ResetTokens : links'[t] \in {"none", "live"} =>
           uses'[t] = 0 /\ \A p \in Procs : At(p, "resetWrite")' => req'[p].link # t
    BY <1>1, <1>4 DEF LinksCounted, At
  <2> QED BY <2>2, <2>3 DEF LinksCounted
<1>5. CASE Logout \/ DeactivateAccount \/ Restart
  BY <1>1, <1>4, <1>5 DEF Logout, DeactivateAccount, Restart, Idle
<1>6. ASSUME \/ \E w \in Limiters : WindowEnds(w)
             \/ \E l \in Links : LinkExpires(l)
             \/ \E t \in ResetTokens : MailReset(t)
             \/ \E t \in VerifyTokens : MailVerification(t)
      PROVE  LinksCounted'
  BY <1>1, <1>4, <1>6 DEF WindowEnds, LinkExpires, MailReset, MailVerification
<1>7. ASSUME NEW p \in Procs,
             \/ LoginCheck(p) \/ LoginFails(p) \/ LoginMatches(p) \/ LoginMint(p)
             \/ ChangeRead(p) \/ ChangeRefused(p) \/ ChangeWrite(p)
             \/ ChangeMail(p) \/ ChangeMint(p) \/ VerifyWrite(p)
             \/ \E t \in VerifyTokens : VerifyRead(p, t)
      PROVE  LinksCounted'
  <2>1. \A q \in Procs : req'[q] = req[q] \/ req'[q].step \notin {"reset", "resetWrite"}
    BY <1>1, <1>7 DEF LoginCheck, LoginFails, LoginMatches, LoginMint, ChangeRead, ChangeRefused, ChangeWrite,
       ChangeMail, ChangeMint, VerifyWrite, VerifyRead, Goto, Idle
  <2>2. UNCHANGED <<uses, links>>
    BY <1>7 DEF LoginCheck, LoginFails, LoginMatches, LoginMint, ChangeRead, ChangeRefused, ChangeWrite,
       ChangeMail, ChangeMint, VerifyWrite, VerifyRead
  <2> QED BY <1>4, <2>1, <2>2
<1>8. ASSUME NEW p \in Procs, ChangeCheck(p)
      PROVE  LinksCounted'
  <2>1. [req[p] EXCEPT !.step = "changeGuess"].step = "changeGuess"
    BY <1>1, <1>8 DEF ChangeCheck, At, Holds
  <2>2. \A q \in Procs : req'[q] = req[q] \/ req'[q].step \notin {"reset", "resetWrite"}
    BY <1>1, <1>8, <2>1 DEF ChangeCheck, Goto, Idle
  <2> QED BY <1>4, <1>8, <2>2 DEF ChangeCheck
<1>9. ASSUME NEW p \in Procs, VerifyMark(p)
      PROVE  LinksCounted'
  <2>1. \A t \in Links : links'[t] = links[t] \/ links'[t] = "used"
    BY <1>1, <1>9 DEF VerifyMark
  <2>2. \A q \in Procs : req'[q] = req[q] \/ req'[q].step \notin {"reset", "resetWrite"}
    BY <1>1, <1>9 DEF VerifyMark, Goto
  <2>3. UNCHANGED uses
    BY <1>9 DEF VerifyMark
  <2> QED BY <1>1, <1>4, <2>1, <2>2, <2>3
<1>10. ASSUME NEW p \in Procs, NEW t \in ResetTokens, ResetRead(p, t)
       PROVE  LinksCounted'
  <2>1. \A q \in Procs : req'[q] = IF q = p THEN [step |-> "reset", link |-> t] ELSE req[q]
    BY <1>1, <1>10 DEF ResetRead, Goto
  <2>2. UNCHANGED <<uses, links>> /\ uses[t] = 0
    BY <1>1, <1>10 DEF ResetRead, LinksCounted
  <2>3. Cardinality(Readers(t)') \in Nat /\ Cardinality(Readers(t)') <= Cardinality(Procs)
    BY ProcsCounted DEF Readers
  <2>4. \A u \in ResetTokens \ {t} : Readers(u)' \subseteq Readers(u)
    BY <2>1 DEF Readers, At
  <2>5. \A u \in ResetTokens : uses'[u] + Cardinality(Readers(u)') <= Cardinality(Procs)
    <3>1. uses'[t] + Cardinality(Readers(t)') <= Cardinality(Procs)
      BY <2>2, <2>3, ProcsCounted
    <3> QED BY <1>3, <2>2, <2>4, <3>1
  <2>6. \A q \in Procs : At(q, "resetWrite")' => req'[q] = req[q] /\ At(q, "resetWrite")
    BY <2>1 DEF At
  <2> QED BY <1>1, <2>2, <2>5, <2>6 DEF LinksCounted
<1>11. ASSUME NEW p \in Procs, ResetMark(p)
       PROVE  LinksCounted'
  <2>1. req[p].link \in ResetTokens /\ req[p].step = "reset"
    BY <1>1, <1>11 DEF ResetMark, At, Holds
  <2>2. \A q \in Procs : req'[q] = IF q = p THEN [step |-> "resetWrite", link |-> req[p].link, version |-> account.version]
                                   ELSE req[q]
    BY <1>1, <1>11 DEF ResetMark, Goto
  <2>3. \A u \in ResetTokens : Readers(u)' = Readers(u)
    BY <2>1, <2>2 DEF Readers, At
  <2>4. UNCHANGED uses /\ \A l \in Links : links'[l] = IF l = req[p].link THEN "used" ELSE links[l]
    BY <1>1, <1>11 DEF ResetMark
  <2>5. \A u \in ResetTokens : uses'[u] + Cardinality(Readers(u)') <= Cardinality(Procs)
    BY <1>3, <2>3, <2>4
  <2>6. ASSUME NEW u \in ResetTokens, links'[u] \in {"none", "live"}
        PROVE  uses'[u] = 0 /\ \A q \in Procs : At(q, "resetWrite")' => req'[q].link # u
    BY <1>1, <2>2, <2>4, <2>6 DEF LinksCounted, At
  <2> QED BY <2>5, <2>6 DEF LinksCounted
<1>12. ASSUME NEW p \in Procs, ResetWrite(p)
       PROVE  LinksCounted'
  <2>1. PICK t \in ResetTokens : t = req[p].link /\ req[p].step = "resetWrite"
    BY <1>1, <1>12 DEF ResetWrite, At, Holds
  <2>2. \A q \in Procs : req'[q] = IF q = p THEN Idle ELSE req[q]
    BY <1>1, <1>12 DEF ResetWrite, Goto
  <2>3. /\ UNCHANGED links /\ links[t] \notin {"none", "live"}
        /\ \A u \in ResetTokens : uses'[u] = IF u = t THEN uses[u] + 1 ELSE uses[u]
    BY <1>1, <1>12, <2>1 DEF ResetWrite, LinksCounted, At
  <2>4. Readers(t)' = Readers(t) \ {p} /\ p \in Readers(t) /\ \A u \in ResetTokens : Readers(u)' \subseteq Readers(u)
    BY <2>1, <2>2 DEF Readers, At, Idle
  <2>5. Cardinality(Readers(t)') = Cardinality(Readers(t)) - 1
    <3>1. IsFiniteSet(Readers(t))
      BY <1>2, <2>1, ProcsCounted
    <3> QED BY <2>4, <3>1, FS_RemoveElement
  <2>6. \A u \in ResetTokens : uses'[u] + Cardinality(Readers(u)') <= Cardinality(Procs)
    <3>1. uses'[t] + Cardinality(Readers(t)') <= Cardinality(Procs)
      BY <1>1, <1>2, <2>1, <2>3, <2>5, ProcsCounted DEF LinksCounted
    <3> QED BY <1>3, <2>3, <2>4, <3>1
  <2>7. \A q \in Procs : At(q, "resetWrite")' => req'[q] = req[q] /\ At(q, "resetWrite")
    BY <2>2 DEF At, Idle
  <2>8. \A u \in ResetTokens : links'[u] \in {"none", "live"} => u # t /\ uses'[u] = uses[u] /\ links[u] \in {"none", "live"}
    BY <2>3
  <2> QED BY <1>1, <2>6, <2>7, <2>8 DEF LinksCounted
<1> QED BY <1>5, <1>6, <1>7, <1>8, <1>9, <1>10, <1>11, <1>12 DEF SessionsNext

-----------------------------------------------------------------------------
(* Versions.  Until two writes overlap, nobody who loaded the account is   *)
(* left behind by a write, and so every version names one password.        *)
LEMMA VersionsStep ==
  ASSUME SessionsInv, SessionsNext
  PROVE  VersionsAreTrue'
<1>1. /\ account \in UserRow /\ writes \in [count : 0..MaxWrites, overlapped : BOOLEAN]
      /\ VersionsAreTrue /\ RowFollows /\ req = [p \in Procs |-> req[p]]
      /\ \A p \in Procs : Holds(req[p], writes.count)
  BY DEF SessionsInv, SessionsTypeOK, RequestsTyped
<1>2. ASSUME UNCHANGED <<writes, minted>>, account'.version = account.version,
             \A p \in Procs : req'[p] = req[p] \/ req'[p].step \notin {"mint", "resetWrite", "change", "changeGuess",
                                                                  "changeMail", "changeMint"}
      PROVE  VersionsAreTrue'
  BY <1>1, <1>2 DEF VersionsAreTrue, Loaded, At
(* One request that loads or keeps what is true.                           *)
<1>3. ASSUME NEW p \in Procs, NEW next, Goto(p, next), UNCHANGED <<writes, minted>>,
             account'.version = account.version,
             ~writes.overlapped =>
               /\ next.step = "mint" => next.version = next.pass
               /\ next.step \in {"resetWrite", "change", "changeGuess", "changeMail", "changeMint"} =>
                    next.version = writes.count
               /\ next.step \in {"changeMail", "changeMint"} => next.pass = writes.count
      PROVE  VersionsAreTrue'
  <2>1. \A q \in Procs : req'[q] = IF q = p THEN next ELSE req[q]
    BY <1>1, <1>3 DEF Goto
  <2> QED BY <1>1, <1>3, <2>1 DEF VersionsAreTrue, Loaded, At
<1>4. CASE Logout \/ DeactivateAccount \/ Restart
  BY <1>1, <1>2, <1>4 DEF Logout, DeactivateAccount, Restart, Idle, UserRow
<1>5. ASSUME \/ \E w \in Limiters : WindowEnds(w)
             \/ \E l \in Links : LinkExpires(l)
             \/ \E t \in ResetTokens : MailReset(t)
             \/ \E t \in VerifyTokens : MailVerification(t)
      PROVE  VersionsAreTrue'
  BY <1>2, <1>5 DEF WindowEnds, LinkExpires, MailReset, MailVerification
<1>6. ASSUME NEW p \in Procs,
             \/ LoginCheck(p) \/ LoginFails(p) \/ ChangeRefused(p) \/ VerifyMark(p) \/ VerifyWrite(p)
             \/ \E t \in ResetTokens : ResetRead(p, t)
             \/ \E t \in VerifyTokens : VerifyRead(p, t)
      PROVE  VersionsAreTrue'
  <2>1. UNCHANGED <<writes, minted>> /\ account'.version = account.version
    BY <1>1, <1>6 DEF LoginCheck, LoginFails, ChangeRefused, VerifyMark, VerifyWrite, ResetRead, VerifyRead, UserRow
  <2>2. \A q \in Procs : req'[q] = req[q] \/ req'[q].step \notin {"mint", "resetWrite", "change", "changeGuess",
                                                               "changeMail", "changeMint"}
    BY <1>1, <1>6 DEF LoginCheck, LoginFails, ChangeRefused, VerifyMark, VerifyWrite, ResetRead, VerifyRead, Goto, Idle
  <2> QED BY <1>2, <2>1, <2>2
<1>7. ASSUME NEW p \in Procs, LoginMatches(p)
      PROVE  VersionsAreTrue'
  BY <1>1, <1>3, <1>7 DEF LoginMatches, VersionsAreTrue, RowFollows
<1>8. ASSUME NEW p \in Procs, ResetMark(p)
      PROVE  VersionsAreTrue'
  BY <1>1, <1>3, <1>8 DEF ResetMark, VersionsAreTrue
<1>9. ASSUME NEW p \in Procs, ChangeRead(p)
      PROVE  VersionsAreTrue'
  BY <1>1, <1>3, <1>9 DEF ChangeRead, VersionsAreTrue
<1>10. ASSUME NEW p \in Procs, ChangeCheck(p)
       PROVE  VersionsAreTrue'
  <2>1. req[p] \in [step : {"change", "changeGuess"}, version : 0..writes.count] /\ At(p, "change")
    BY <1>1, <1>10 DEF ChangeCheck, At, Holds
  <2>2. ~writes.overlapped => req[p].version = writes.count
    BY <1>1, <2>1 DEF VersionsAreTrue, Loaded
  <2> DEFINE r == [req[p] EXCEPT !.step = "changeGuess"]
  <2>3. r.step = "changeGuess" /\ r.version = req[p].version
    BY <2>1
  <2> HIDE DEF r
  <2>4. Goto(p, r) \/ Goto(p, Idle)
    BY <1>10 DEF ChangeCheck, r
  <2>5. UNCHANGED <<writes, minted, account>>
    BY <1>10 DEF ChangeCheck
  <2>6. CASE Goto(p, r)
    BY <1>3, <2>2, <2>3, <2>5, <2>6
  <2>7. CASE Goto(p, Idle)
    BY <1>3, <2>5, <2>7 DEF Idle
  <2> QED BY <2>4, <2>6, <2>7
<1>11. ASSUME NEW p \in Procs, ChangeMail(p)
       PROVE  VersionsAreTrue'
  BY <1>1, <1>3, <1>11 DEF ChangeMail, VersionsAreTrue, Loaded
(* A session is signed with a version and the password it stands for.      *)
<1>12. ASSUME NEW p \in Procs, LoginMint(p) \/ ChangeMint(p)
       PROVE  VersionsAreTrue'
  <2>1. UNCHANGED <<writes, account>>
    BY <1>12 DEF LoginMint, ChangeMint
  <2>2. \A q \in Procs : req'[q] = req[q] \/ req'[q].step = "idle"
    BY <1>1, <1>12 DEF LoginMint, ChangeMint, Goto, Idle
  <2>3. ~writes.overlapped => req[p].version = req[p].pass
    BY <1>1, <1>12 DEF LoginMint, ChangeMint, VersionsAreTrue, Loaded
  <2>4. \A s \in minted' : s \in minted \/ (s.version = req[p].version /\ s.proof = req[p].pass)
    BY <1>12 DEF LoginMint, ChangeMint, Mint
  <2> QED BY <1>1, <2>1, <2>2, <2>3, <2>4 DEF VersionsAreTrue, Loaded, At
(* A write.  Who else has loaded the account is left behind, and then the  *)
(* writes have overlapped.                                                 *)
<1>13. ASSUME NEW p \in Procs, ResetWrite(p) \/ ChangeWrite(p)
       PROVE  VersionsAreTrue'
  <2> SUFFICES ASSUME ~writes'.overlapped
               PROVE  VersionsAreTrue'
    BY DEF VersionsAreTrue
  <2>1. /\ SetPassword(p, req[p].version) /\ UNCHANGED minted /\ Loaded(p)
    BY <1>13 DEF ResetWrite, ChangeWrite, Loaded
  <2>2. ~writes.overlapped /\ (\A q \in Procs \ {p} : ~Loaded(q)) /\ writes'.count = writes.count + 1
    BY <2>1, Zenon DEF SetPassword
  <2>3. req[p].version = writes.count
    BY <1>1, <2>1, <2>2 DEF VersionsAreTrue
  <2>4. account'.version = writes.count + 1
    BY <1>1, <2>1, <2>3 DEF SetPassword, UserRow
  <2>5. \A q \in Procs : q # p => req'[q] = req[q]
    BY <1>1, <1>13 DEF ResetWrite, ChangeWrite, Goto
  <2>6. \/ req'[p] = Idle
        \/ req'[p] = [step |-> "changeMail", version |-> writes.count + 1, pass |-> writes.count + 1]
    BY <1>1, <1>13, <2>3 DEF ResetWrite, ChangeWrite, Goto
  <2>7. \A s \in minted : s.version = s.proof
    BY <1>1, <2>2 DEF VersionsAreTrue
  <2>8. \A q \in Procs : At(q, "mint")' => req'[q].version = req'[q].pass
    BY <1>1, <2>2, <2>5, <2>6 DEF VersionsAreTrue, At, Idle
  <2>9. \A q \in Procs : Loaded(q)' => req'[q].version = writes.count + 1
    BY <2>2, <2>5, <2>6 DEF Loaded, At, Idle
  <2>10. \A q \in Procs : At(q, "changeMail")' \/ At(q, "changeMint")' => req'[q].pass = writes.count + 1
    BY <2>2, <2>5, <2>6 DEF Loaded, At, Idle
  <2> QED BY <2>1, <2>2, <2>4, <2>7, <2>8, <2>9, <2>10 DEF VersionsAreTrue
<1> QED BY <1>4, <1>5, <1>6, <1>7, <1>8, <1>9, <1>10, <1>11, <1>12, <1>13 DEF SessionsNext

LEMMA SessionsKept ==
  ASSUME SessionsInv, [SessionsNext]_sessionVars
  PROVE  SessionsInv'
<1>1. CASE SessionsNext
  BY <1>1, TypeStep, AttemptsStep, LinksStep, VersionsStep DEF SessionsInv
<1>2. CASE UNCHANGED sessionVars
  <2>1. SessionsTypeOK' /\ RequestsTyped' /\ RowFollows' /\ IsFiniteSet(minted)'
    BY <1>2 DEF sessionVars, SessionsInv, SessionsTypeOK, RequestsTyped, RowFollows
  <2>2. AttemptsCounted' /\ LinksCounted' /\ VersionsAreTrue'
    BY <1>2 DEF sessionVars, SessionsInv, AttemptsCounted, Guessers, LinksCounted, Readers, VersionsAreTrue, At, Loaded
  <2> QED BY <2>1, <2>2 DEF SessionsInv
<1> QED BY <1>1, <1>2

LEMMA SessionsAreSound ==
  ASSUME SessionsInv
  PROVE  SessionsTypeOK /\ SessionFollowsPassword /\ GuessesAreBounded /\ ResetLinkIsSpent
<1>1. SessionFollowsPassword
  BY DEF SessionsInv, SessionFollowsPassword, VersionsAreTrue, RowFollows, Accepted
<1>2. GuessesAreBounded
  <2>1. \A w \in Limiters : Cardinality(Guessers(w)) \in Nat
    BY ProcsCounted DEF Guessers
  <2> QED BY <2>1, ProcsCounted, SessionsAssumption
          DEF SessionsInv, AttemptsCounted, GuessesAreBounded, SessionsAssumption
<1>3. ResetLinkIsSpent
  <2>1. \A t \in ResetTokens : Cardinality(Readers(t)) \in Nat /\ uses[t] \in Nat
    BY ProcsCounted, SessionsAssumption DEF Readers, SessionsInv, SessionsTypeOK, SessionsAssumption
  <2> QED BY <2>1, ProcsCounted DEF SessionsInv, LinksCounted, ResetLinkIsSpent
<1> QED BY <1>1, <1>2, <1>3 DEF SessionsInv

(***************************************************************************)
(* Membership                                                              *)
(***************************************************************************)
Written(i) == invitations[i].status # "none"

(* Rows of invitations are created one after the other.                    *)
InvitesTyped ==
  /\ invitations = [i \in Invites |-> invitations[i]]
  /\ \E k \in 0..MaxInvites : \A i \in Invites : Written(i) <=> i <= k

(* What a thread holds at each of its steps.                               *)
Carries(j) ==
  \/ j \in [step : {"idle"}]
  \/ j \in [step : {"signup"}, email : Emails]
  \/ j \in [step : {"signupUser", "inviteLookup", "inviteInsert"}, email : Emails, tenant : Tenants]
  \/ j \in [step : {"signupTrial"}, tenant : Tenants]
  \/ j \in [step : {"acceptUser", "acceptGrant", "acceptMark"}, invite : Invites] /\ Written(j.invite)

JobsTyped == job = [w \in Workers |-> job[w]] /\ \A w \in Workers : Carries(job[w])

(* Whom an invitation names is in the workspace, unless it was purged; an  *)
(* accepting thread knows so from its insert on.                           *)
Brought(i) ==
  \/ \E u \in users : u.email = invitations[i].email /\ u.tenant = invitations[i].tenant
  \/ tenants[invitations[i].tenant] = "purged"

AcceptersBrought == \A w \in Workers : On(w, "acceptGrant") \/ On(w, "acceptMark") => Brought(job[w].invite)

(* Whatever happens in a workspace but its signup happens under an owner.  *)
Owned(t) == tenants[t] = "purged" \/ \E u \in users : u.tenant = t /\ u.role = "Owner" /\ u.active

WorkspacesOwned ==
  /\ \A u \in users : Owned(u.tenant)
  /\ \A i \in Invites : Written(i) => Owned(invitations[i].tenant)
  /\ \A w \in Workers : On(w, "inviteLookup") \/ On(w, "inviteInsert") => Owned(job[w].tenant)

\* A workspace that does not exist yet has nobody.
NewIsEmpty ==
  \A t \in Tenants : tenants[t] = "none" =>
    /\ \A u \in users : u.tenant # t
    /\ \A w \in Workers : On(w, "signupUser") => job[w].tenant # t

MembersInv ==
  /\ MembershipTypeOK /\ IsFiniteSet(users) /\ InvitesTyped /\ JobsTyped
  /\ AcceptedIsMember /\ AcceptersBrought /\ StaffIsInvited
  /\ WorkspacesOwned /\ NewIsEmpty

-----------------------------------------------------------------------------
LEMMA InitMembers ==
  ASSUME MembershipInit
  PROVE  MembersInv
<1>1. \A w \in Workers : job[w] = Resting /\ job[w].step = "idle" /\ Carries(job[w])
  BY DEF MembershipInit, Resting, Carries
<1>2. \A i \in Invites : invitations[i] = NoInvite /\ ~Written(i)
  BY DEF MembershipInit, NoInvite, Written
<1>3. InvitesTyped
  <2>1. 0 \in 0..MaxInvites /\ \A i \in Invites : ~(i <= 0)
    BY MembershipAssumption DEF MembershipAssumption, Invites
  <2> QED BY <1>2, <2>1 DEF MembershipInit, InvitesTyped
<1>4. MembershipTypeOK
  BY <1>2 DEF MembershipInit, MembershipTypeOK, TenantStates, Plans, Deletion
<1>5. JobsTyped /\ AcceptersBrought
  BY <1>1 DEF MembershipInit, JobsTyped, AcceptersBrought, On
<1>6. AcceptedIsMember /\ StaffIsInvited /\ WorkspacesOwned /\ NewIsEmpty
  BY <1>1, <1>2 DEF MembershipInit, AcceptedIsMember, StaffIsInvited, WorkspacesOwned, NewIsEmpty, On, Written
<1>7. IsFiniteSet(users)
  BY FS_EmptySet DEF MembershipInit
<1> QED BY <1>3, <1>4, <1>5, <1>6, <1>7 DEF MembersInv

(* Rows of invitations: one is written where there was none, and what a    *)
(* row names it keeps.                                                     *)
InvitesMove ==
  /\ \A i \in Invites : invitations'[i] \in InviteRow \cup {NoInvite}
  /\ InvitesTyped'
  /\ \A i \in Invites : Written(i) =>
       Written(i)' /\ invitations'[i].email = invitations[i].email /\ invitations'[i].tenant = invitations[i].tenant

LEMMA FreshInvite ==
  ASSUME MembersInv, NEW i \in Invites,
         i = 1 + Cardinality({j \in Invites : invitations[j] # NoInvite})
  PROVE  \E k \in 0..MaxInvites : i = k + 1 /\ \A j \in Invites : Written(j) <=> j <= k
<1>1. PICK k \in 0..MaxInvites : \A j \in Invites : Written(j) <=> j <= k
  BY DEF MembersInv, InvitesTyped
<1>2. \A j \in Invites : invitations[j] # NoInvite <=> Written(j)
  <2>1. \A j \in Invites : invitations[j] \in InviteRow \/ invitations[j] = NoInvite
    BY DEF MembersInv, MembershipTypeOK
  <2> QED BY <2>1 DEF Written, InviteRow, NoInvite
<1> DEFINE Rows == {j \in Invites : invitations[j] # NoInvite}
<1>3. Rows = 1..k
  BY <1>1, <1>2, MembershipAssumption DEF MembershipAssumption, Invites
<1>6. i = 1 + Cardinality(Rows)
  OBVIOUS
<1> HIDE DEF Rows
<1>4. Cardinality(1..k) = k
  BY FS_Interval, MembershipAssumption DEF MembershipAssumption
<1>5. i = k + 1
  BY <1>3, <1>4, <1>6
<1> QED BY <1>1, <1>5

LEMMA InvitesStep ==
  ASSUME MembersInv, MembershipNext
  PROVE  InvitesMove
<1>1. /\ invitations = [i \in Invites |-> invitations[i]] /\ InvitesTyped
      /\ \A i \in Invites : invitations[i] \in InviteRow \cup {NoInvite}
      /\ \A w \in Workers : Carries(job[w])
  BY DEF MembersInv, MembershipTypeOK, InvitesTyped, JobsTyped
<1>2. CASE UNCHANGED invitations
  BY <1>1, <1>2 DEF InvitesMove, InvitesTyped, Written
<1>3. ASSUME NEW i \in Invites, Written(i), NEW row \in InviteRow,
             invitations' = [invitations EXCEPT ![i] = row],
             row.email = invitations[i].email, row.tenant = invitations[i].tenant
      PROVE  InvitesMove
  <2>1. \A j \in Invites : invitations'[j] = IF j = i THEN row ELSE invitations[j]
    BY <1>1, <1>3
  <2>2. row.status # "none"
    BY DEF InviteRow
  <2>3. \A j \in Invites : Written(j)' <=> Written(j)
    BY <1>3, <2>1, <2>2 DEF Written
  <2>4. InvitesTyped'
    BY <1>1, <1>3, <2>3 DEF InvitesTyped
  <2> QED BY <1>1, <1>3, <2>1, <2>3, <2>4 DEF InvitesMove
<1>4. \A i \in Invites : Written(i) => invitations[i] \in InviteRow
  BY <1>1 DEF Written, NoInvite
<1>5. ASSUME NEW i \in Invites, InviteExpires(i)
      PROVE  InvitesMove
  <2>1. Written(i) /\ invitations' = [invitations EXCEPT ![i] = [invitations[i] EXCEPT !.expired = TRUE]]
    BY <1>5 DEF InviteExpires, Pending, Written
  <2>2. invitations[i] \in InviteRow
    BY <1>4, <2>1
  <2> QED BY <1>3, <2>1, <2>2 DEF InviteRow
<1>6. ASSUME NEW i \in Invites, NEW status \in {"accepted", "revoked"}, Written(i),
             invitations' = [invitations EXCEPT ![i].status = status]
      PROVE  InvitesMove
  <2>1. invitations[i] \in InviteRow
    BY <1>4, <1>6
  <2>2. invitations' = [invitations EXCEPT ![i] = [invitations[i] EXCEPT !.status = status]]
    BY <1>6
  <2> QED BY <1>3, <1>6, <2>1, <2>2 DEF InviteRow
<1>7. ASSUME NEW i \in Invites, Revoke(i)
      PROVE  InvitesMove
  BY <1>6, <1>7 DEF Revoke, Written
<1>8. ASSUME NEW w \in Workers, AcceptMark(w)
      PROVE  InvitesMove
  <2>1. job[w].invite \in Invites /\ Written(job[w].invite)
    BY <1>1, <1>8 DEF AcceptMark, On, Carries
  <2> QED BY <1>6, <1>8, <2>1 DEF AcceptMark
<1>9. ASSUME NEW w \in Workers, NEW i \in Invites, InviteInsert(w, i)
      PROVE  InvitesMove
  <2>1. PICK k \in 0..MaxInvites : i = k + 1 /\ \A j \in Invites : Written(j) <=> j <= k
    BY <1>9, FreshInvite DEF InviteInsert
  <2> DEFINE row == [status |-> "pending", email |-> job[w].email, tenant |-> job[w].tenant, expired |-> FALSE]
  <2>2. row \in InviteRow /\ row.status = "pending"
    BY <1>1, <1>9 DEF InviteInsert, On, Carries, InviteRow
  <2> HIDE DEF row
  <2>3. \A j \in Invites : invitations'[j] = IF j = i THEN row ELSE invitations[j]
    BY <1>1, <1>9 DEF InviteInsert, row
  <2>4. \A j \in Invites : Written(j)' <=> j <= k + 1
    BY <2>1, <2>2, <2>3, MembershipAssumption DEF Written, Invites, MembershipAssumption
  <2>5. k + 1 \in 0..MaxInvites
    BY <2>1, MembershipAssumption DEF Invites, MembershipAssumption
  <2>6. InvitesTyped'
    BY <1>1, <1>9, <2>4, <2>5 DEF InvitesTyped, InviteInsert
  <2>7. ~Written(i)
    BY <2>1, MembershipAssumption DEF Invites, MembershipAssumption
  <2> QED BY <1>1, <2>2, <2>3, <2>6, <2>7 DEF InvitesMove, Written
<1> QED BY <1>2, <1>5, <1>7, <1>8, <1>9 DEF MembershipNext, JobsDie, PlanMoves, RequestDeletion, RecoveryEnds,
        CancelDeletion, Purge, Deactivate, SignupUser, SignupClash, SignupTrial, InviteLookup, AcceptUser, AcceptClash,
        AcceptGrant, SignupCheck, InviteAdmit, SignupTenant, AcceptRead

(* Threads: what one holds after a step, while the rows of invitations     *)
(* keep what they name.                                                    *)
LEMMA JobsStep ==
  ASSUME MembersInv, MembershipNext, InvitesMove
  PROVE  JobsTyped'
<1>1. job = [w \in Workers |-> job[w]] /\ \A w \in Workers : Carries(job[w])
  BY DEF MembersInv, JobsTyped
<1>2. \A i \in Invites : Written(i) => Written(i)'
  BY DEF InvitesMove
<1>3. \A w \in Workers : Carries(job[w]) => \/ Carries(job[w])'
                                           \/ job'[w] # job[w]
  BY <1>2 DEF Carries, Written
<1>4. CASE UNCHANGED job
  BY <1>1, <1>3, <1>4 DEF JobsTyped
<1>5. ASSUME NEW w \in Workers, NEW next, Turn(w, next), Carries(next)
      PROVE  JobsTyped'
  <2>1. \A v \in Workers : job'[v] = IF v = w THEN next ELSE job[v]
    BY <1>1, <1>5 DEF Turn
  <2>2. \A v \in Workers : Carries(job'[v])
    BY <1>1, <1>5, <2>1
  <2>3. \A v \in Workers : Carries(job[v])'
    BY <1>2, <2>2 DEF Carries, Written
  <2> QED BY <1>1, <1>5, <2>3 DEF JobsTyped, Turn
<1>6. Carries(Resting) /\ \A w \in Workers : Resting.step # "signup"
  BY DEF Carries, Resting
<1>7. CASE JobsDie
  <2>1. \A w \in Workers : Carries(job'[w])
    BY <1>6, <1>7 DEF JobsDie
  <2>2. \A w \in Workers : Carries(job[w])'
    BY <1>2, <2>1 DEF Carries, Written
  <2> QED BY <1>7, <2>2 DEF JobsDie, JobsTyped
<1>8. ASSUME NEW w \in Workers,
             \/ SignupClash(w) \/ SignupTrial(w) \/ AcceptClash(w) \/ AcceptMark(w)
             \/ \E i \in Invites : InviteInsert(w, i)
      PROVE  JobsTyped'
  BY <1>5, <1>6, <1>8 DEF SignupClash, SignupTrial, AcceptClash, AcceptMark, InviteInsert
<1>9. ASSUME NEW w \in Workers, NEW e \in Emails, SignupCheck(w, e)
      PROVE  JobsTyped'
  <2>1. Carries([step |-> "signup", email |-> e])
    BY DEF Carries
  <2> QED BY <1>5, <1>9, <2>1 DEF SignupCheck
<1>10. ASSUME NEW w \in Workers, NEW t \in Tenants, SignupTenant(w, t)
       PROVE  JobsTyped'
  <2>1. job[w].email \in Emails
    BY <1>1, <1>10 DEF SignupTenant, On, Carries
  <2>2. Carries([step |-> "signupUser", email |-> job[w].email, tenant |-> t])
    BY <2>1 DEF Carries
  <2> QED BY <1>5, <1>10, <2>2 DEF SignupTenant
<1>11. ASSUME NEW w \in Workers, SignupUser(w)
       PROVE  JobsTyped'
  <2>1. job[w].tenant \in Tenants
    BY <1>1, <1>11 DEF SignupUser, On, Carries
  <2>2. Carries([step |-> "signupTrial", tenant |-> job[w].tenant])
    BY <2>1 DEF Carries
  <2> QED BY <1>5, <1>11, <2>2 DEF SignupUser
<1>12. ASSUME NEW w \in Workers, NEW e \in Emails, NEW t \in Tenants, InviteAdmit(w, t, e)
       PROVE  JobsTyped'
  <2>1. Carries([step |-> "inviteLookup", tenant |-> t, email |-> e])
    BY DEF Carries
  <2> QED BY <1>5, <1>12, <2>1 DEF InviteAdmit
<1>13. ASSUME NEW w \in Workers, InviteLookup(w)
       PROVE  JobsTyped'
  <2>1. job[w] \in [step : {"signupUser", "inviteLookup", "inviteInsert"}, email : Emails, tenant : Tenants]
    BY <1>1, <1>13 DEF InviteLookup, On, Carries
  <2>2. Carries([job[w] EXCEPT !.step = "inviteInsert"])
    BY <2>1 DEF Carries
  <2>3. Turn(w, Resting) \/ Turn(w, [job[w] EXCEPT !.step = "inviteInsert"])
    BY <1>13 DEF InviteLookup
  <2> QED BY <1>5, <1>6, <2>2, <2>3
<1>14. ASSUME NEW w \in Workers, NEW i \in Invites, AcceptRead(w, i)
       PROVE  JobsTyped'
  <2>1. Carries([step |-> "acceptUser", invite |-> i])
    BY <1>14 DEF AcceptRead, Carries, Pending, Written
  <2> QED BY <1>5, <1>14, <2>1 DEF AcceptRead
<1>15. ASSUME NEW w \in Workers, NEW next \in {"acceptGrant", "acceptMark"}, On(w, "acceptUser") \/ On(w, "acceptGrant"),
              Turn(w, [job[w] EXCEPT !.step = next])
       PROVE  JobsTyped'
  <2>1. /\ job[w] \in [step : {"acceptUser", "acceptGrant", "acceptMark"}, invite : Invites]
        /\ Written(job[w].invite)
    BY <1>1, <1>15 DEF On, Carries
  <2>2. Carries([job[w] EXCEPT !.step = next])
    BY <2>1 DEF Carries
  <2> QED BY <1>5, <1>15, <2>2
<1>16. ASSUME NEW w \in Workers, AcceptUser(w) \/ AcceptGrant(w)
       PROVE  JobsTyped'
  BY <1>15, <1>16 DEF AcceptUser, AcceptGrant
<1> QED BY <1>4, <1>7, <1>8, <1>9, <1>10, <1>11, <1>12, <1>13, <1>14, <1>16 DEF MembershipNext, PlanMoves,
        RequestDeletion, RecoveryEnds, CancelDeletion, Purge, Deactivate, InviteExpires, Revoke

(* Members: nobody leaves but with their workspace.                        *)
MembersMove ==
  /\ users' \subseteq Member /\ IsFiniteSet(users')
  /\ \A u, v \in users' : u.email = v.email => u = v
  /\ \A u \in users : \/ \E v \in users' : v.email = u.email /\ v.tenant = u.tenant
                      \/ tenants'[u.tenant] = "purged"
  /\ \A t \in Tenants : tenants[t] = "purged" => tenants'[t] = "purged"
  /\ \A t \in Tenants : Owned(t) => Owned(t)'

LEMMA MembersStep ==
  ASSUME MembersInv, MembershipNext
  PROVE  MembersMove
<1>1. /\ users \subseteq Member /\ IsFiniteSet(users) /\ tenants \in [Tenants -> TenantStates]
      /\ \A u, v \in users : u.email = v.email => u = v
      /\ \A w \in Workers : Carries(job[w])
      /\ \A i \in Invites : Written(i) => invitations[i] \in InviteRow
  BY DEF MembersInv, MembershipTypeOK, JobsTyped, Written, NoInvite
<1>2. CASE UNCHANGED <<users, tenants>>
  BY <1>1, <1>2 DEF MembersMove, Owned
<1>3. ASSUME NEW e \in Emails, NEW t \in Tenants, NEW role \in {"Owner", "Staff"}, AddUser(e, t, role),
             UNCHANGED tenants
      PROVE  MembersMove
  <2> DEFINE m == [email |-> e, tenant |-> t, role |-> role, active |-> TRUE]
  <2>1. m \in Member /\ m.email = e
    BY DEF Member
  <2> HIDE DEF m
  <2>2. users' = users \cup {m} /\ \A u \in users : u.email # e
    BY <1>3 DEF AddUser, EmailTaken, m
  <2>3. IsFiniteSet(users')
    BY <1>1, <2>2, FS_AddElement
  <2> QED BY <1>1, <1>3, <2>1, <2>2, <2>3 DEF MembersMove, Owned
<1>4. ASSUME NEW w \in Workers, SignupUser(w)
      PROVE  MembersMove
  <2>1. job[w].email \in Emails /\ job[w].tenant \in Tenants
    BY <1>1, <1>4 DEF SignupUser, On, Carries
  <2> QED BY <1>3, <1>4, <2>1 DEF SignupUser
<1>5. ASSUME NEW w \in Workers, AcceptUser(w)
      PROVE  MembersMove
  <2>1. invitations[job[w].invite] \in InviteRow
    BY <1>1, <1>5 DEF AcceptUser, On, Carries
  <2> QED BY <1>3, <1>5, <2>1 DEF AcceptUser, InviteRow
<1>6. ASSUME NEW w \in Workers, NEW t \in Tenants, SignupTenant(w, t)
      PROVE  MembersMove
  BY <1>1, <1>6 DEF SignupTenant, MembersMove, Owned
<1>7. ASSUME NEW u \in users, Deactivate(u)
      PROVE  MembersMove
  <2> DEFINE d == [u EXCEPT !.active = FALSE]
  <2>1. /\ d \in Member /\ d.email = u.email /\ d.tenant = u.tenant /\ d.role = u.role
    BY <1>1 DEF Member
  <2> HIDE DEF d
  <2>2. users' = (users \ {u}) \cup {d} /\ UNCHANGED tenants
    BY <1>7 DEF Deactivate, d
  <2>3. IsFiniteSet(users')
    BY <1>1, <2>2, FS_AddElement, FS_RemoveElement
  <2>4. PICK o \in users \ {u} : o.tenant = u.tenant /\ o.role = "Owner" /\ o.active
    BY <1>7 DEF Deactivate, ActsFor
  <2>5. \A t \in Tenants : Owned(t) => Owned(t)'
    BY <2>2, <2>4 DEF Owned
  <2> QED BY <1>1, <2>1, <2>2, <2>3, <2>5 DEF MembersMove
<1>8. ASSUME NEW t \in Tenants, Purge(t)
      PROVE  MembersMove
  <2>1. /\ users' = {u \in users : u.tenant # t} /\ tenants' = [tenants EXCEPT ![t] = "purged"]
    BY <1>8 DEF Purge
  <2>2. IsFiniteSet(users')
    BY <1>1, <2>1, FS_Subset
  <2>3. \A u \in users : u \in users' \/ tenants'[u.tenant] = "purged"
    BY <1>1, <2>1 DEF Member
  <2> QED BY <1>1, <2>1, <2>2, <2>3 DEF MembersMove, Owned
<1> QED BY <1>2, <1>4, <1>5, <1>6, <1>7, <1>8 DEF MembershipNext, JobsDie, PlanMoves, RequestDeletion, RecoveryEnds,
        CancelDeletion, SignupClash, SignupTrial, InviteLookup, InviteInsert, InviteExpires, Revoke, AcceptClash,
        AcceptGrant, AcceptMark, SignupCheck, InviteAdmit, AcceptRead

(* Invited people are members, and nobody else.                            *)
LEMMA InvitedStep ==
  ASSUME MembersInv, MembershipNext, InvitesMove, MembersMove
  PROVE  AcceptedIsMember' /\ AcceptersBrought' /\ StaffIsInvited'
<1>1. /\ AcceptedIsMember /\ AcceptersBrought /\ StaffIsInvited
      /\ users \subseteq Member
      /\ \A i \in Invites : invitations[i] \in InviteRow \cup {NoInvite}
      /\ job = [w \in Workers |-> job[w]] /\ invitations = [i \in Invites |-> invitations[i]]
      /\ \A w \in Workers : Carries(job[w])
  BY DEF MembersInv, MembershipTypeOK, JobsTyped, InvitesTyped
<1>2. \A i \in Invites : Written(i) => invitations[i] \in InviteRow
  BY <1>1 DEF Written, NoInvite
(* Who was brought stays.                                                  *)
<1>3. ASSUME NEW i \in Invites, Written(i), Brought(i)
      PROVE  Brought(i)'
  <2>1. /\ invitations'[i].email = invitations[i].email /\ invitations'[i].tenant = invitations[i].tenant
        /\ invitations[i].tenant \in Tenants
    BY <1>2, <1>3 DEF InvitesMove, InviteRow
  <2>2. CASE tenants[invitations[i].tenant] = "purged"
    BY <2>1, <2>2 DEF MembersMove, Brought
  <2>3. CASE \E u \in users : u.email = invitations[i].email /\ u.tenant = invitations[i].tenant
    BY <2>1, <2>3 DEF MembersMove, Brought
  <2> QED BY <1>3, <2>2, <2>3 DEF Brought
<1>4. \A i \in Invites : invitations[i].status = "accepted" => Brought(i)
  BY <1>1 DEF AcceptedIsMember, Brought
<1>5. AcceptersBrought'
  <2> SUFFICES ASSUME NEW w \in Workers, On(w, "acceptGrant")' \/ On(w, "acceptMark")'
               PROVE  Brought(job[w].invite)'
    BY DEF AcceptersBrought
  <2>1. CASE job'[w] = job[w]
    <3>1. PICK i \in Invites : i = job[w].invite /\ Written(i) /\ Brought(i)
      BY <1>1, <2>1 DEF AcceptersBrought, On, Carries
    <3> QED BY <1>3, <2>1, <3>1
  <2>2. CASE job'[w] # job[w]
    <3>1. AcceptUser(w) \/ AcceptGrant(w)
      <4> DEFINE Elsewhere == job'[w] = job[w] \/ job'[w].step \notin {"acceptGrant", "acceptMark"}
      <4>0. ASSUME NEW v \in Workers, NEW next, Turn(v, next), next.step \notin {"acceptGrant", "acceptMark"}
            PROVE  Elsewhere
        <5>1. job'[w] = job[w] \/ job'[w] = next
          BY <1>1, <4>0 DEF Turn
        <5> QED BY <4>0, <5>1
      <4>a. Resting.step = "idle"
        BY DEF Resting
      <4> HIDE DEF Elsewhere
      <4>1. ASSUME NEW v \in Workers,
                   \/ SignupClash(v) \/ SignupTrial(v) \/ AcceptClash(v) \/ AcceptMark(v)
                   \/ \E i \in Invites : InviteInsert(v, i)
            PROVE  Elsewhere
        BY <4>0, <4>1, <4>a DEF SignupClash, SignupTrial, AcceptClash, AcceptMark, InviteInsert
      <4>b. ASSUME NEW v \in Workers,
                   \/ SignupUser(v)
                   \/ \E e \in Emails : SignupCheck(v, e) \/ \E t \in Tenants : InviteAdmit(v, t, e)
                   \/ \E t \in Tenants : SignupTenant(v, t)
                   \/ \E i \in Invites : AcceptRead(v, i)
            PROVE  Elsewhere
        BY <4>0, <4>b DEF SignupUser, SignupCheck, InviteAdmit, SignupTenant, AcceptRead
      <4>2. ASSUME NEW v \in Workers, InviteLookup(v)
            PROVE  Elsewhere
        <5>1. [job[v] EXCEPT !.step = "inviteInsert"].step = "inviteInsert"
          BY <1>1, <4>2 DEF InviteLookup, On, Carries
        <5>2. Turn(v, Resting) \/ Turn(v, [job[v] EXCEPT !.step = "inviteInsert"])
          BY <4>2 DEF InviteLookup
        <5> QED BY <4>0, <4>a, <5>1, <5>2
      <4>c. ~Elsewhere
        BY <2>2 DEF Elsewhere, On
      <4>3. CASE JobsDie
        BY <4>3 DEF JobsDie, Resting, On
      <4>4. \A v \in Workers \ {w} : ~AcceptUser(v) /\ ~AcceptGrant(v)
        BY <1>1, <2>2 DEF AcceptUser, AcceptGrant, Turn
      <4> QED BY <2>2, <4>1, <4>b, <4>2, <4>3, <4>4, <4>c DEF MembershipNext, PlanMoves, RequestDeletion,
              RecoveryEnds, CancelDeletion, Purge, Deactivate, InviteExpires, Revoke
    <3>2. PICK i \in Invites : i = job[w].invite /\ Written(i)
      BY <1>1, <3>1 DEF AcceptUser, AcceptGrant, On, Carries
    <3>3. job'[w].invite = i
      <4>1. job[w] \in [step : {"acceptUser", "acceptGrant", "acceptMark"}, invite : Invites]
        BY <1>1, <3>1 DEF AcceptUser, AcceptGrant, On, Carries
      <4> QED BY <1>1, <3>1, <3>2, <4>1 DEF AcceptUser, AcceptGrant, Turn
    <3>4. Brought(i)'
      <4>1. CASE AcceptUser(w)
        <5> DEFINE m == [email |-> invitations[i].email, tenant |-> invitations[i].tenant,
                         role |-> "Staff", active |-> TRUE]
        <5>1. m.email = invitations[i].email /\ m.tenant = invitations[i].tenant
          OBVIOUS
        <5>2. m \in users' /\ UNCHANGED invitations
          BY <3>2, <4>1 DEF AcceptUser, AddUser
        <5> HIDE DEF m
        <5> QED BY <5>1, <5>2 DEF Brought
      <4>2. CASE AcceptGrant(w)
        BY <1>1, <1>3, <3>2, <4>2 DEF AcceptGrant, AcceptersBrought
      <4> QED BY <3>1, <4>1, <4>2
    <3> QED BY <3>3, <3>4
  <2> QED BY <2>1, <2>2
<1>6. AcceptedIsMember'
  <2> SUFFICES ASSUME NEW i \in Invites, invitations'[i].status = "accepted"
               PROVE  Brought(i)'
    BY DEF AcceptedIsMember, Brought
  <2>1. CASE invitations[i].status = "accepted"
    BY <1>3, <1>4, <2>1 DEF Written
  <2>2. CASE invitations[i].status # "accepted"
    <3>1. PICK w \in Workers : AcceptMark(w) /\ job[w].invite = i
      <4>1. ASSUME NEW j \in Invites, InviteExpires(j) \/ Revoke(j)
            PROVE  invitations'[i].status # "accepted"
        <5>1. invitations[j] \in InviteRow
          BY <1>2, <4>1 DEF InviteExpires, Revoke, Pending, Written
        <5> QED BY <1>1, <2>2, <4>1, <5>1 DEF InviteExpires, Revoke, InviteRow
      <4>2. ASSUME NEW v \in Workers, NEW j \in Invites, InviteInsert(v, j)
            PROVE  invitations'[i].status # "accepted"
        BY <1>1, <2>2, <4>2 DEF InviteInsert
      <4>3. ASSUME NEW v \in Workers, AcceptMark(v)
            PROVE  job[v].invite = i
        BY <1>1, <2>2, <4>3 DEF AcceptMark
      <4> QED BY <2>2, <4>1, <4>2, <4>3 DEF MembershipNext, JobsDie, PlanMoves, RequestDeletion, RecoveryEnds,
              CancelDeletion, Purge, Deactivate, SignupUser, SignupClash, SignupTrial, InviteLookup, AcceptUser,
              AcceptClash, AcceptGrant, SignupCheck, InviteAdmit, SignupTenant, AcceptRead
    <3>2. Written(i) /\ Brought(i)
      BY <1>1, <3>1 DEF AcceptMark, AcceptersBrought, On, Carries
    <3> QED BY <1>3, <3>2
  <2> QED BY <2>1, <2>2
<1>7. StaffIsInvited'
  <2> SUFFICES ASSUME NEW u \in users', u.role = "Staff"
               PROVE  \E i \in Invites : Written(i) /\ invitations[i].email = u.email /\ invitations[i].tenant = u.tenant
    BY DEF StaffIsInvited, InvitesMove, Written
  <2>1. CASE \E v \in users : v.role = "Staff" /\ v.email = u.email /\ v.tenant = u.tenant
    BY <1>1, <2>1 DEF StaffIsInvited, Written
  <2>2. CASE ~ \E v \in users : v.role = "Staff" /\ v.email = u.email /\ v.tenant = u.tenant
    <3>1. ASSUME NEW v \in users, Deactivate(v)
          PROVE  FALSE
      <4>1. v \in Member
        BY <1>1
      <4> QED BY <2>2, <3>1, <4>1 DEF Deactivate, Member
    <3>2. ASSUME NEW w \in Workers, SignupUser(w)
          PROVE  FALSE
      BY <2>2, <3>2 DEF SignupUser, AddUser
    <3>3. ASSUME NEW w \in Workers, AcceptUser(w)
          PROVE  \E i \in Invites : Written(i) /\ invitations[i].email = u.email /\ invitations[i].tenant = u.tenant
      <4>1. PICK i \in Invites : i = job[w].invite /\ Written(i)
        BY <1>1, <3>3 DEF AcceptUser, On, Carries
      <4>2. u = [email |-> invitations[i].email, tenant |-> invitations[i].tenant, role |-> "Staff", active |-> TRUE]
        BY <2>2, <3>3, <4>1 DEF AcceptUser, AddUser
      <4> QED BY <4>1, <4>2
    <3>4. ASSUME NEW t \in Tenants, Purge(t)
          PROVE  FALSE
      BY <2>2, <3>4 DEF Purge
    <3> QED BY <2>2, <3>1, <3>2, <3>3, <3>4 DEF MembershipNext, JobsDie, PlanMoves, RequestDeletion, RecoveryEnds,
            CancelDeletion, SignupClash, SignupTrial, InviteLookup, InviteInsert, InviteExpires, Revoke, AcceptClash,
            AcceptGrant, AcceptMark, SignupCheck, InviteAdmit, SignupTenant, AcceptRead
  <2> QED BY <2>1, <2>2
<1> QED BY <1>5, <1>6, <1>7

(* The steps of a thread that is signing up or inviting, before and after: *)
(* what it holds in a workspace it has held there since it was admitted.   *)
LEMMA JobMoves ==
  ASSUME MembersInv, MembershipNext, NEW w \in Workers, job'[w] # job[w]
  PROVE  \/ \E e \in Emails : SignupCheck(w, e) /\ job'[w].step = "signup"
         \/ \E t \in Tenants : /\ SignupTenant(w, t) /\ job'[w].step = "signupUser"
                               /\ job'[w].tenant = t /\ job'[w].email = job[w].email
         \/ SignupUser(w) /\ job'[w].step = "signupTrial"
         \/ \E e \in Emails, t \in Tenants :
              InviteAdmit(w, t, e) /\ job'[w].step = "inviteLookup" /\ job'[w].tenant = t
         \/ /\ InviteLookup(w) /\ job'[w].step = "inviteInsert"
            /\ job'[w].tenant = job[w].tenant /\ job'[w].email = job[w].email
         \/ \E i \in Invites : AcceptRead(w, i) /\ job'[w].step = "acceptUser" /\ job'[w].invite = i
         \/ AcceptUser(w) /\ job'[w].step = "acceptGrant"
         \/ AcceptGrant(w) /\ job'[w].step = "acceptMark"
         \/ job'[w].step = "idle"
<1>1. job = [v \in Workers |-> job[v]] /\ Carries(job[w])
  BY DEF MembersInv, JobsTyped
<1>2. \A v \in Workers : \A next : Turn(v, next) => v = w /\ job'[w] = next
  BY <1>1 DEF Turn
<1>3. Resting.step = "idle"
  BY DEF Resting
<1>4. CASE JobsDie
  BY <1>3, <1>4 DEF JobsDie
<1>5. ASSUME NEW v \in Workers,
             \/ SignupClash(v) \/ SignupTrial(v) \/ AcceptClash(v) \/ AcceptMark(v)
             \/ \E i \in Invites : InviteInsert(v, i)
      PROVE  job'[w].step = "idle"
  BY <1>2, <1>3, <1>5 DEF SignupClash, SignupTrial, AcceptClash, AcceptMark, InviteInsert
<1>6. ASSUME NEW v \in Workers, NEW e \in Emails, SignupCheck(v, e)
      PROVE  v = w /\ job'[w].step = "signup"
  BY <1>2, <1>6 DEF SignupCheck
<1>7. ASSUME NEW v \in Workers, NEW t \in Tenants, SignupTenant(v, t)
      PROVE  v = w /\ job'[w].step = "signupUser" /\ job'[w].tenant = t /\ job'[w].email = job[w].email
  BY <1>2, <1>7 DEF SignupTenant
<1>8. ASSUME NEW v \in Workers, SignupUser(v)
      PROVE  v = w /\ job'[w].step = "signupTrial"
  BY <1>2, <1>8 DEF SignupUser
<1>9. ASSUME NEW v \in Workers, NEW e \in Emails, NEW t \in Tenants, InviteAdmit(v, t, e)
      PROVE  v = w /\ job'[w].step = "inviteLookup" /\ job'[w].tenant = t
  BY <1>2, <1>9 DEF InviteAdmit
<1>10. ASSUME NEW v \in Workers, InviteLookup(v)
       PROVE  v = w /\ (\/ job'[w].step = "idle"
                        \/ /\ job'[w].step = "inviteInsert"
                           /\ job'[w].tenant = job[w].tenant /\ job'[w].email = job[w].email)
  <2>1. Turn(v, Resting) \/ Turn(v, [job[v] EXCEPT !.step = "inviteInsert"])
    BY <1>10 DEF InviteLookup
  <2>2. v = w
    BY <1>2, <2>1
  <2>3. job[w] \in [step : {"signupUser", "inviteLookup", "inviteInsert"}, email : Emails, tenant : Tenants]
    BY <1>1, <1>10, <2>2 DEF InviteLookup, On, Carries
  <2>4. /\ [job[w] EXCEPT !.step = "inviteInsert"].step = "inviteInsert"
        /\ [job[w] EXCEPT !.step = "inviteInsert"].tenant = job[w].tenant
        /\ [job[w] EXCEPT !.step = "inviteInsert"].email = job[w].email
    BY <2>3
  <2> QED BY <1>2, <1>3, <2>1, <2>2, <2>4
<1>11. ASSUME NEW v \in Workers, NEW i \in Invites, AcceptRead(v, i)
       PROVE  v = w /\ job'[w].step = "acceptUser" /\ job'[w].invite = i
  BY <1>2, <1>11 DEF AcceptRead
<1>12. ASSUME NEW v \in Workers, AcceptUser(v) \/ AcceptGrant(v)
       PROVE  /\ v = w /\ AcceptUser(w) => job'[w].step = "acceptGrant"
              /\ v = w /\ AcceptGrant(w) => job'[w].step = "acceptMark"
              /\ v = w
  <2>1. \E next : Turn(v, [job[v] EXCEPT !.step = next])
    BY <1>12 DEF AcceptUser, AcceptGrant
  <2>2. v = w
    BY <1>2, <2>1
  <2>3. job[w] \in [step : {"acceptUser", "acceptGrant", "acceptMark"}, invite : Invites]
    BY <1>1, <1>12, <2>2 DEF AcceptUser, AcceptGrant, On, Carries
  <2>4. \A next : [job[w] EXCEPT !.step = next].step = next
    BY <2>3
  <2> QED BY <1>2, <2>2, <2>4 DEF AcceptUser, AcceptGrant
<1> QED BY <1>4, <1>5, <1>6, <1>7, <1>8, <1>9, <1>10, <1>11, <1>12 DEF MembershipNext, PlanMoves, RequestDeletion,
        RecoveryEnds, CancelDeletion, Purge, Deactivate, InviteExpires, Revoke

(* A workspace with anything in it has an owner, or is purged.             *)
LEMMA OwnedStep ==
  ASSUME MembersInv, MembershipNext, InvitesMove, MembersMove
  PROVE  WorkspacesOwned' /\ NewIsEmpty'
<1>1. /\ WorkspacesOwned /\ NewIsEmpty /\ users \subseteq Member
      /\ tenants \in [Tenants -> TenantStates]
      /\ \A i \in Invites : invitations[i] \in InviteRow \cup {NoInvite}
      /\ invitations = [i \in Invites |-> invitations[i]]
      /\ \A w \in Workers : Carries(job[w])
  BY DEF MembersInv, MembershipTypeOK, JobsTyped, InvitesTyped
<1>2. \A i \in Invites : Written(i) => invitations[i] \in InviteRow
  BY <1>1 DEF Written, NoInvite
<1>3. \A t \in Tenants : Owned(t) => Owned(t)' /\ tenants[t] # "none"
  <2>1. \A t \in Tenants : Owned(t) => tenants[t] # "none"
    BY <1>1 DEF Owned, NewIsEmpty
  <2> QED BY <2>1 DEF MembersMove
<1>4. ASSUME NEW u \in users'
      PROVE  \E t \in Tenants : /\ t = u.tenant /\ Owned(t)'
                                /\ (\E v \in users : v.tenant = t) \/ tenants[t] # "none"
  <2>1. PICK t \in Tenants : t = u.tenant
    BY DEF MembersMove, Member
  <2> SUFFICES Owned(t)' /\ ((\E v \in users : v.tenant = t) \/ tenants[t] # "none")
    BY <2>1
  <2>2. CASE \E v \in users : v.tenant = t
    <3>1. Owned(t)
      BY <1>1, <2>2 DEF WorkspacesOwned
    <3> QED BY <1>3, <2>1, <2>2, <3>1
  <2>3. CASE ~ \E v \in users : v.tenant = t
    <3>1. ASSUME NEW w \in Workers, SignupUser(w)
          PROVE  Owned(t)' /\ tenants[t] # "none"
      <4>1. u = [email |-> job[w].email, tenant |-> job[w].tenant, role |-> "Owner", active |-> TRUE]
        BY <2>1, <2>3, <3>1 DEF SignupUser, AddUser
      <4>2. u.role = "Owner" /\ u.active /\ t = job[w].tenant
        BY <2>1, <4>1
      <4> QED BY <1>1, <2>1, <3>1, <4>2 DEF Owned, SignupUser, NewIsEmpty
    <3>2. ASSUME NEW w \in Workers, AcceptUser(w)
          PROVE  Owned(t)' /\ tenants[t] # "none"
      <4>1. Written(job[w].invite) /\ job[w].invite \in Invites
        BY <1>1, <3>2 DEF AcceptUser, On, Carries
      <4>2. t = invitations[job[w].invite].tenant
        BY <2>1, <2>3, <3>2 DEF AcceptUser, AddUser
      <4>3. Owned(t)
        BY <1>1, <4>1, <4>2 DEF WorkspacesOwned
      <4> QED BY <1>3, <2>1, <4>3
    <3>3. ASSUME NEW v \in users, Deactivate(v)
          PROVE  FALSE
      <4>1. v \in Member
        BY <1>1
      <4> QED BY <2>1, <2>3, <3>3, <4>1 DEF Deactivate, Member
    <3>4. ASSUME NEW o \in Tenants, Purge(o)
          PROVE  FALSE
      BY <2>1, <2>3, <3>4 DEF Purge
    <3> QED BY <2>1, <2>3, <3>1, <3>2, <3>3, <3>4 DEF MembershipNext, JobsDie, PlanMoves, RequestDeletion, RecoveryEnds,
            CancelDeletion, SignupClash, SignupTrial, InviteLookup, InviteInsert, InviteExpires, Revoke, AcceptClash,
            AcceptGrant, AcceptMark, SignupCheck, InviteAdmit, SignupTenant, AcceptRead
  <2> QED BY <2>2, <2>3
<1>5. ASSUME NEW i \in Invites, Written(i)'
      PROVE  Owned(invitations[i].tenant)'
  <2>1. CASE Written(i)
    <3>1. invitations[i].tenant \in Tenants /\ Owned(invitations[i].tenant)
      BY <1>1, <1>2, <2>1 DEF InviteRow, WorkspacesOwned
    <3>2. PICK t \in Tenants : t = invitations[i].tenant /\ invitations'[i].tenant = t /\ Owned(t)
      BY <2>1, <3>1 DEF InvitesMove
    <3>3. Owned(t)'
      BY <1>3, <3>2
    <3> QED BY <3>2, <3>3 DEF Owned
  <2>2. CASE ~Written(i)
    <3>1. PICK w \in Workers : InviteInsert(w, i)
      <4>1. ASSUME NEW j \in Invites, j # i, invitations'[i] # invitations[i]
            PROVE  \A v \in Workers : ~InviteInsert(v, j)
        BY <1>1, <4>1 DEF InviteInsert
      <4>2. ASSUME NEW j \in Invites, InviteExpires(j) \/ Revoke(j)
            PROVE  invitations'[i] = invitations[i]
        BY <1>1, <2>2, <4>2 DEF InviteExpires, Revoke, Pending, Written
      <4>3. ASSUME NEW v \in Workers, AcceptMark(v)
            PROVE  invitations'[i] = invitations[i]
        <5>1. Written(job[v].invite)
          BY <1>1, <4>3 DEF AcceptMark, On, Carries
        <5> QED BY <1>1, <2>2, <4>3, <5>1 DEF AcceptMark
      <4>4. invitations'[i] # invitations[i]
        BY <1>5, <2>2 DEF Written
      <4> QED BY <4>1, <4>2, <4>3, <4>4 DEF MembershipNext, JobsDie, PlanMoves, RequestDeletion, RecoveryEnds,
              CancelDeletion, Purge, Deactivate, SignupUser, SignupClash, SignupTrial, InviteLookup, AcceptUser,
              AcceptClash, AcceptGrant, SignupCheck, InviteAdmit, SignupTenant, AcceptRead
    <3>2. PICK t \in Tenants : t = job[w].tenant /\ Owned(t)
      BY <1>1, <3>1 DEF InviteInsert, WorkspacesOwned, On, Carries
    <3>3. invitations'[i].tenant = t
      BY <1>1, <3>1, <3>2 DEF InviteInsert
    <3>4. Owned(t)'
      BY <1>3, <3>2
    <3> QED BY <3>3, <3>4 DEF Owned
  <2> QED BY <2>1, <2>2
<1>6. ASSUME NEW w \in Workers, On(w, "inviteLookup")' \/ On(w, "inviteInsert")'
      PROVE  Owned(job[w].tenant)'
  <2>1. CASE job'[w] = job[w]
    <3>1. PICK t \in Tenants : t = job[w].tenant /\ Owned(t)
      BY <1>1, <1>6, <2>1 DEF WorkspacesOwned, On, Carries
    <3>2. Owned(t)'
      BY <1>3, <3>1
    <3> QED BY <2>1, <3>1, <3>2 DEF Owned
  <2>2. CASE job'[w] # job[w]
    <3>a. job'[w].step \in {"inviteLookup", "inviteInsert"}
      BY <1>6 DEF On
    <3>1. \/ \E e \in Emails, t \in Tenants : InviteAdmit(w, t, e) /\ job'[w].tenant = t
          \/ InviteLookup(w) /\ job'[w].tenant = job[w].tenant
      BY <2>2, <3>a, JobMoves
    <3>2. PICK t \in Tenants : t = job'[w].tenant /\ Owned(t)
      <4>1. CASE InviteLookup(w) /\ job'[w].tenant = job[w].tenant
        BY <1>1, <4>1 DEF InviteLookup, WorkspacesOwned, On, Carries
      <4>2. ASSUME NEW e \in Emails, NEW u \in Tenants, InviteAdmit(w, u, e)
            PROVE  Owned(u)
        BY <4>2 DEF InviteAdmit, ActsFor, Owned
      <4> QED BY <3>1, <4>1, <4>2
    <3>3. Owned(t)'
      BY <1>3, <3>2
    <3> QED BY <3>2, <3>3 DEF Owned
  <2> QED BY <2>1, <2>2
<1>7. NewIsEmpty'
  <2> SUFFICES ASSUME NEW t \in Tenants, tenants'[t] = "none"
               PROVE  /\ \A u \in users' : u.tenant # t
                      /\ \A w \in Workers : On(w, "signupUser")' => job'[w].tenant # t
    BY DEF NewIsEmpty
  <2>1. tenants[t] = "none"
    BY <1>1 DEF MembershipNext, JobsDie, PlanMoves, RequestDeletion, RecoveryEnds,
       CancelDeletion, Purge, Deactivate, SignupUser, SignupClash, SignupTrial, InviteLookup, AcceptUser,
       AcceptClash, AcceptGrant, AcceptMark, InviteInsert, InviteExpires, Revoke, SignupCheck, InviteAdmit, SignupTenant,
       AcceptRead
  <2>2. \A u \in users' : u.tenant # t
    BY <1>1, <1>4, <2>1 DEF NewIsEmpty
  <2>3. ASSUME NEW w \in Workers, On(w, "signupUser")'
        PROVE  job'[w].tenant # t
    <3>1. CASE job'[w] = job[w]
      BY <1>1, <2>1, <2>3, <3>1 DEF NewIsEmpty, On
    <3>2. CASE job'[w] # job[w]
      <4>a. job'[w].step = "signupUser"
        BY <2>3 DEF On
      <4>1. PICK u \in Tenants : SignupTenant(w, u) /\ job'[w].tenant = u
        BY <3>2, <4>a, JobMoves
      <4>2. tenants'[u] = "active"
        BY <1>1, <4>1 DEF SignupTenant
      <4> QED BY <4>1, <4>2
    <3> QED BY <3>1, <3>2
  <2> QED BY <2>2, <2>3
<1>8. WorkspacesOwned'
  <2>1. (\A u \in users : Owned(u.tenant))'
    <3>1. ASSUME NEW u \in users'
          PROVE  \E t \in Tenants : t = u.tenant /\ Owned(t)'
      BY <1>4
    <3> QED BY <3>1 DEF Owned
  <2>2. (\A i \in Invites : Written(i) => Owned(invitations[i].tenant))'
    BY <1>5 DEF Written, Owned
  <2>3. (\A w \in Workers : On(w, "inviteLookup") \/ On(w, "inviteInsert") => Owned(job[w].tenant))'
    BY <1>6 DEF On, Owned
  <2> QED BY <2>1, <2>2, <2>3 DEF WorkspacesOwned
<1> QED BY <1>7, <1>8

LEMMA MemberTypesStep ==
  ASSUME MembersInv, MembershipNext, InvitesMove, MembersMove
  PROVE  MembershipTypeOK'
<1>1. /\ tenants \in [Tenants -> TenantStates] /\ plans \in [Tenants -> Plans] /\ deletions \in [Tenants -> Deletion]
      /\ \A w \in Workers : Carries(job[w])
      /\ \A i \in Invites : Written(i) => invitations[i] \in InviteRow
  BY DEF MembersInv, MembershipTypeOK, JobsTyped, Written, NoInvite
<1>2. /\ "none" \in TenantStates /\ "active" \in TenantStates /\ "purged" \in TenantStates
      /\ "trial" \in Plans /\ "paid" \in Plans /\ "legacy" \in Plans /\ "over" \in Plans
      /\ "active" \in Deletion /\ "requested" \in Deletion /\ "eligible" \in Deletion /\ "purged" \in Deletion
  BY DEF TenantStates, Plans, Deletion
<1>3. tenants' \in [Tenants -> TenantStates]
  BY <1>1, <1>2 DEF MembershipNext, JobsDie, PlanMoves, RequestDeletion, RecoveryEnds,
     CancelDeletion, Purge, Deactivate, SignupUser, SignupClash, SignupTrial, InviteLookup, AcceptUser,
     AcceptClash, AcceptGrant, AcceptMark, InviteInsert, InviteExpires, Revoke, SignupCheck, InviteAdmit, SignupTenant,
     AcceptRead
<1>4. deletions' \in [Tenants -> Deletion]
  BY <1>1, <1>2 DEF MembershipNext, JobsDie, PlanMoves, RequestDeletion, RecoveryEnds,
     CancelDeletion, Purge, Deactivate, SignupUser, SignupClash, SignupTrial, InviteLookup, AcceptUser,
     AcceptClash, AcceptGrant, AcceptMark, InviteInsert, InviteExpires, Revoke, SignupCheck, InviteAdmit, SignupTenant,
     AcceptRead
<1>5. plans' \in [Tenants -> Plans]
  BY ZenonT(40), <1>1, <1>2 DEF MembershipNext, JobsDie, PlanMoves, RequestDeletion, RecoveryEnds,
     CancelDeletion, Purge, Deactivate, SignupUser, SignupClash, SignupTrial, InviteLookup, AcceptUser,
     AcceptClash, AcceptGrant, AcceptMark, InviteInsert, InviteExpires, Revoke, SignupCheck, InviteAdmit, SignupTenant,
     AcceptRead
<1> QED BY <1>3, <1>4, <1>5 DEF MembershipTypeOK, InvitesMove, MembersMove

LEMMA MembersKept ==
  ASSUME MembersInv, [MembershipNext]_memberVars
  PROVE  MembersInv'
<1>1. CASE MembershipNext
  <2>1. InvitesMove
    BY <1>1, InvitesStep
  <2>2. MembersMove
    BY <1>1, MembersStep
  <2>3. MembershipTypeOK' /\ JobsTyped' /\ InvitesTyped' /\ IsFiniteSet(users')
    BY <1>1, <2>1, <2>2, MemberTypesStep, JobsStep DEF InvitesMove, MembersMove
  <2>4. AcceptedIsMember' /\ AcceptersBrought' /\ StaffIsInvited'
    BY <1>1, <2>1, <2>2, InvitedStep
  <2>5. WorkspacesOwned' /\ NewIsEmpty'
    BY <1>1, <2>1, <2>2, OwnedStep
  <2> QED BY <2>3, <2>4, <2>5 DEF MembersInv
<1>2. CASE UNCHANGED memberVars
  <2>1. MembershipTypeOK' /\ InvitesTyped' /\ JobsTyped' /\ IsFiniteSet(users')
    BY <1>2 DEF memberVars, MembersInv, MembershipTypeOK, InvitesTyped, JobsTyped, Written, Carries
  <2>2. AcceptedIsMember' /\ AcceptersBrought' /\ StaffIsInvited'
    BY <1>2 DEF memberVars, MembersInv, AcceptedIsMember, AcceptersBrought, StaffIsInvited, Brought, On
  <2>3. WorkspacesOwned' /\ NewIsEmpty'
    BY <1>2 DEF memberVars, MembersInv, WorkspacesOwned, NewIsEmpty, Owned, Written, On
  <2> QED BY <2>1, <2>2, <2>3 DEF MembersInv
<1> QED BY <1>1, <1>2

LEMMA MembersAreSound ==
  ASSUME MembersInv
  PROVE  MembershipTypeOK /\ MembersAreInvited /\ OwnerRemains
<1>1. OwnerRemains
  BY DEF MembersInv, OwnerRemains, WorkspacesOwned, Owned
<1> QED BY <1>1 DEF MembersInv, MembersAreInvited

-----------------------------------------------------------------------------
(* Seats.  An address counts for a workspace from the commit that invites  *)
(* or creates it; until then the thread that will commit it counts.        *)
Claims(e, t) ==
  \/ \E u \in users : u.tenant = t /\ u.email = e
  \/ \E i \in Invites : Pending(i) /\ invitations[i].tenant = t /\ invitations[i].email = e
  \/ \E w \in Workers : /\ On(w, "acceptUser") /\ invitations[job[w].invite].tenant = t
                        /\ invitations[job[w].invite].email = e

Claimed(t) == {e \in Emails : Claims(e, t)}

Joining(t) == {w \in Workers : /\ On(w, "signupUser") \/ On(w, "inviteLookup") \/ On(w, "inviteInsert")
                               /\ job[w].tenant = t}

SeatsCounted ==
  \A t \in Tenants :
    /\ IsFiniteSet(Claimed(t))
    /\ Cardinality(Claimed(t)) + Cardinality(Joining(t)) <= Seats + Cardinality(Workers) - 1

LEMMA WorkersCounted ==
  /\ Cardinality(Workers) \in Nat /\ Cardinality(Workers) >= 1
  /\ \A T \in SUBSET Workers : /\ IsFiniteSet(T) /\ Cardinality(T) \in Nat
                               /\ Cardinality(T) <= Cardinality(Workers)
<1>1. IsFiniteSet(Workers) /\ Workers # {}
  BY MembershipAssumption DEF MembershipAssumption
<1>2. Cardinality(Workers) \in Nat /\ Cardinality(Workers) # 0
  BY <1>1, FS_CardinalityType, FS_EmptySet
<1>3. ASSUME NEW T \in SUBSET Workers
      PROVE  IsFiniteSet(T) /\ Cardinality(T) \in Nat /\ Cardinality(T) <= Cardinality(Workers)
  BY <1>1, FS_Subset, FS_CardinalityType
<1> QED BY <1>2, <1>3

LEMMA InitSeats ==
  ASSUME MembershipInit
  PROVE  SeatsCounted
<1> SUFFICES ASSUME NEW t \in Tenants
             PROVE  /\ IsFiniteSet(Claimed(t))
                    /\ Cardinality(Claimed(t)) + Cardinality(Joining(t)) <= Seats + Cardinality(Workers) - 1
  BY DEF SeatsCounted
<1>1. Claimed(t) = {} /\ Joining(t) = {}
  BY DEF MembershipInit, Claimed, Claims, Joining, Pending, On, NoInvite, Resting
<1>2. IsFiniteSet({}) /\ Cardinality({}) = 0
  BY FS_EmptySet
<1>3. Cardinality(Claimed(t)) = 0 /\ Cardinality(Joining(t)) = 0 /\ IsFiniteSet(Claimed(t))
  BY <1>1, <1>2
<1> QED BY <1>3, WorkersCounted, MembershipAssumption DEF MembershipAssumption

(* Only a signup's insert and an invitation's add an address.              *)
LEMMA ClaimsStep ==
  ASSUME MembersInv, MembershipNext, InvitesMove, MembersMove, NEW t \in Tenants, NEW e \in Emails, Claims(e, t)'
  PROVE  \/ Claims(e, t)
         \/ \E w \in Workers : SignupUser(w) /\ job[w].tenant = t /\ job[w].email = e
         \/ \E w \in Workers, i \in Invites : InviteInsert(w, i) /\ job[w].tenant = t /\ job[w].email = e
<1>1. /\ users \subseteq Member /\ \A w \in Workers : Carries(job[w])
      /\ \A i \in Invites : invitations[i] \in InviteRow \cup {NoInvite}
      /\ invitations = [i \in Invites |-> invitations[i]]
  BY DEF MembersInv, MembershipTypeOK, JobsTyped, InvitesTyped
<1>2. \A i \in Invites : Pending(i) => Written(i)
  BY DEF Pending, Written
<1>3. CASE \E u \in users' : u.tenant = t /\ u.email = e
  <2>1. PICK u \in users' : u.tenant = t /\ u.email = e
    BY <1>3
  <2>2. CASE \E v \in users : v.tenant = t /\ v.email = e
    BY <2>2 DEF Claims
  <2>3. CASE ~ \E v \in users : v.tenant = t /\ v.email = e
    <3>1. ASSUME NEW v \in users, Deactivate(v)
          PROVE  FALSE
      <4>1. v \in Member
        BY <1>1
      <4> QED BY <2>1, <2>3, <3>1, <4>1 DEF Deactivate, Member
    <3>2. ASSUME NEW w \in Workers, SignupUser(w)
          PROVE  job[w].tenant = t /\ job[w].email = e
      BY <2>1, <2>3, <3>2 DEF SignupUser, AddUser
    <3>3. ASSUME NEW w \in Workers, AcceptUser(w)
          PROVE  Claims(e, t)
      BY <2>1, <2>3, <3>3 DEF AcceptUser, AddUser, Claims
    <3>4. ASSUME NEW o \in Tenants, Purge(o)
          PROVE  FALSE
      BY <2>1, <2>3, <3>4 DEF Purge
    <3> QED BY <2>1, <2>3, <3>1, <3>2, <3>3, <3>4 DEF MembershipNext, JobsDie, PlanMoves, RequestDeletion, RecoveryEnds,
            CancelDeletion, SignupClash, SignupTrial, InviteLookup, InviteInsert, InviteExpires, Revoke, AcceptClash,
            AcceptGrant, AcceptMark, SignupCheck, InviteAdmit, SignupTenant, AcceptRead
  <2> QED BY <2>2, <2>3
<1>4. ASSUME NEW i \in Invites, invitations'[i].status = "pending",
             invitations'[i].tenant = t, invitations'[i].email = e
      PROVE  \/ Claims(e, t)
             \/ \E w \in Workers : InviteInsert(w, i) /\ job[w].tenant = t /\ job[w].email = e
  <2>1. CASE Pending(i)
    BY <1>2, <1>4, <2>1 DEF InvitesMove, Claims
  <2>2. CASE ~Pending(i)
    <3>0. invitations[i].status # "pending"
      BY <2>2 DEF Pending
    <3>1. ASSUME NEW j \in Invites, InviteExpires(j) \/ Revoke(j)
          PROVE  FALSE
      <4>1. invitations[j] \in InviteRow
        BY <1>1, <3>1 DEF InviteExpires, Revoke, Pending, InviteRow, NoInvite
      <4> QED BY <1>1, <1>4, <3>0, <3>1, <4>1 DEF InviteExpires, Revoke, InviteRow
    <3>2. ASSUME NEW v \in Workers, NEW j \in Invites, InviteInsert(v, j)
          PROVE  j = i /\ job[v].tenant = t /\ job[v].email = e
      BY <1>1, <1>4, <3>0, <3>2 DEF InviteInsert
    <3>3. ASSUME NEW v \in Workers, AcceptMark(v)
          PROVE  FALSE
      <4>1. invitations[job[v].invite] \in InviteRow
        BY <1>1, <3>3 DEF AcceptMark, On, Carries, Written, NoInvite
      <4> QED BY <1>1, <1>4, <3>0, <3>3, <4>1 DEF AcceptMark, InviteRow
    <3> QED BY <1>4, <3>0, <3>1, <3>2, <3>3 DEF MembershipNext, JobsDie, PlanMoves, RequestDeletion, RecoveryEnds,
            CancelDeletion, Purge, Deactivate, SignupUser, SignupClash, SignupTrial, InviteLookup, AcceptUser,
            AcceptClash, AcceptGrant, SignupCheck, InviteAdmit, SignupTenant, AcceptRead
  <2> QED BY <2>1, <2>2
<1>5. ASSUME NEW w \in Workers, job'[w].step = "acceptUser", invitations'[job'[w].invite].tenant = t,
             invitations'[job'[w].invite].email = e
      PROVE  Claims(e, t)
  <2>1. CASE job'[w] = job[w]
    <3>1. Written(job[w].invite) /\ job[w].invite \in Invites /\ On(w, "acceptUser")
      BY <1>1, <1>5, <2>1 DEF Carries, On
    <3> QED BY <1>5, <2>1, <3>1 DEF InvitesMove, Claims
  <2>2. CASE job'[w] # job[w]
    <3>1. PICK i \in Invites : AcceptRead(w, i) /\ job'[w].invite = i
      BY <1>5, <2>2, JobMoves
    <3> QED BY <1>5, <3>1 DEF AcceptRead, Claims
  <2> QED BY <2>1, <2>2
<1> QED BY <1>3, <1>4, <1>5 DEF Claims, Pending, On

(* Only a signup's first commit and an admission bring a thread in.        *)
LEMMA JoiningStep ==
  ASSUME MembersInv, MembershipNext, NEW t \in Tenants, NEW w \in Workers, w \in Joining(t)'
  PROVE  \/ w \in Joining(t)
         \/ SignupTenant(w, t)
         \/ \E e \in Emails : InviteAdmit(w, t, e)
<1>1. /\ job'[w].step \in {"signupUser", "inviteLookup", "inviteInsert"} /\ job'[w].tenant = t
  BY DEF Joining, On
<1>2. CASE job'[w] = job[w]
  BY <1>1, <1>2 DEF Joining, On
<1>3. CASE job'[w] # job[w]
  <2>1. CASE InviteLookup(w) /\ job'[w].tenant = job[w].tenant
    BY <1>1, <2>1 DEF InviteLookup, Joining
  <2> QED BY <1>1, <1>3, <2>1, JobMoves
<1> QED BY <1>2, <1>3

(* There are at most as many claims as rows and threads to accept one.     *)
LEMMA ClaimsCounted ==
  ASSUME MembersInv, NEW t \in Tenants
  PROVE  LET accepting == {w \in Workers : On(w, "acceptUser")}
         IN  /\ IsFiniteSet(Claimed(t)) /\ SeatsTaken(t) \in Nat
             /\ Cardinality(Claimed(t)) <= SeatsTaken(t) + Cardinality(accepting)
<1> DEFINE U == {u \in users : u.tenant = t}
           P == {i \in Invites : Pending(i) /\ invitations[i].tenant = t}
           A == {w \in Workers : On(w, "acceptUser") /\ invitations[job[w].invite].tenant = t}
           EU == {u.email : u \in U}
           EP == {invitations[i].email : i \in P}
           EA == {invitations[job[w].invite].email : w \in A}
           accepting == {w \in Workers : On(w, "acceptUser")}
<1>1. IsFiniteSet(U) /\ IsFiniteSet(P) /\ IsFiniteSet(A) /\ IsFiniteSet(accepting)
  <2>1. IsFiniteSet(users) /\ IsFiniteSet(Invites) /\ IsFiniteSet(Workers)
    BY FS_Interval, MembershipAssumption DEF MembersInv, MembershipAssumption, Invites
  <2> QED BY <2>1, FS_Subset
<1>2. Cardinality(A) <= Cardinality(accepting)
  BY <1>1, FS_Subset
<1>3. Claimed(t) \subseteq (EU \cup EP) \cup EA
  BY DEF Claimed, Claims
<1>4. SeatsTaken(t) = Cardinality(U) + Cardinality(P)
  BY DEF SeatsTaken
<1>5. IsFiniteSet(EU) /\ Cardinality(EU) <= Cardinality(U)
  <2>1. [u \in U |-> u.email] \in Surjection(U, EU)
    BY DEF Surjection
  <2> QED BY <1>1, <2>1, FS_Surjection
<1>6. IsFiniteSet(EP) /\ Cardinality(EP) <= Cardinality(P)
  <2>1. [i \in P |-> invitations[i].email] \in Surjection(P, EP)
    BY DEF Surjection
  <2> QED BY <1>1, <2>1, FS_Surjection
<1>7. IsFiniteSet(EA) /\ Cardinality(EA) <= Cardinality(A)
  <2>1. [w \in A |-> invitations[job[w].invite].email] \in Surjection(A, EA)
    BY DEF Surjection
  <2> QED BY <1>1, <2>1, FS_Surjection
<1> SUFFICES /\ IsFiniteSet(Claimed(t)) /\ SeatsTaken(t) \in Nat
             /\ Cardinality(Claimed(t)) <= SeatsTaken(t) + Cardinality(accepting)
  OBVIOUS
<1> HIDE DEF U, P, A, EU, EP, EA, accepting
<1>8. /\ Cardinality(U) \in Nat /\ Cardinality(P) \in Nat /\ Cardinality(A) \in Nat
      /\ Cardinality(EU) \in Nat /\ Cardinality(EP) \in Nat /\ Cardinality(EA) \in Nat
      /\ Cardinality(accepting) \in Nat
  BY <1>1, <1>5, <1>6, <1>7, FS_CardinalityType
<1>9. IsFiniteSet(EU \cup EP) /\ Cardinality(EU \cup EP) <= Cardinality(U) + Cardinality(P)
  <2>1. IsFiniteSet(EU \cap EP) /\ Cardinality(EU \cap EP) \in Nat
    BY <1>5, FS_Intersection, FS_CardinalityType
  <2>2. /\ IsFiniteSet(EU \cup EP)
        /\ Cardinality(EU \cup EP) = Cardinality(EU) + Cardinality(EP) - Cardinality(EU \cap EP)
    BY <1>5, <1>6, FS_Union
  <2> QED BY <1>5, <1>6, <1>8, <2>1, <2>2
<1> DEFINE E == EU \cup EP
<1> HIDE DEF E
<1>10. IsFiniteSet(E) /\ Cardinality(E) <= Cardinality(U) + Cardinality(P) /\ Cardinality(E) \in Nat
  BY <1>9, FS_CardinalityType DEF E
<1>11. /\ IsFiniteSet(E \cup EA)
       /\ Cardinality(E \cup EA) <= Cardinality(U) + Cardinality(P) + Cardinality(A)
       /\ Cardinality(E \cup EA) \in Nat
  <2>1. IsFiniteSet(E \cap EA) /\ Cardinality(E \cap EA) \in Nat
    BY <1>10, FS_Intersection, FS_CardinalityType
  <2>2. /\ IsFiniteSet(E \cup EA)
        /\ Cardinality(E \cup EA) = Cardinality(E) + Cardinality(EA) - Cardinality(E \cap EA)
    BY <1>7, <1>10, FS_Union
  <2>3. Cardinality(E \cup EA) \in Nat
    BY <2>2, FS_CardinalityType
  <2> QED BY <1>7, <1>8, <1>10, <2>1, <2>2, <2>3
<1>12. /\ IsFiniteSet(Claimed(t)) /\ Cardinality(Claimed(t)) <= Cardinality(E \cup EA)
       /\ Cardinality(Claimed(t)) \in Nat
  <2>1. Claimed(t) \subseteq E \cup EA
    BY <1>3 DEF E
  <2> QED BY <1>11, <2>1, FS_Subset, FS_CardinalityType
<1> QED BY <1>2, <1>4, <1>8, <1>11, <1>12

(* An address more is a thread less, and who is admitted has seen a seat   *)
(* free: the threads that join and those that accept are different ones.   *)
LEMMA SeatsStep ==
  ASSUME MembersInv, SeatsCounted, MembershipNext, InvitesMove, MembersMove
  PROVE  SeatsCounted'
<1> SUFFICES ASSUME NEW t \in Tenants
             PROVE  /\ IsFiniteSet(Claimed(t)')
                    /\ Cardinality(Claimed(t)') + Cardinality(Joining(t)') <= Seats + Cardinality(Workers) - 1
  BY DEF SeatsCounted
<1> DEFINE C == Claimed(t)
           J == Joining(t)
           N == Cardinality(Workers)
<1>1. /\ N \in Nat /\ N >= 1 /\ Seats \in Nat /\ Seats >= 1
      /\ \A T \in SUBSET Workers : IsFiniteSet(T) /\ Cardinality(T) \in Nat /\ Cardinality(T) <= N
  BY WorkersCounted, MembershipAssumption DEF MembershipAssumption
<1>2. IsFiniteSet(C) /\ Cardinality(C) \in Nat /\ Cardinality(C) + Cardinality(J) <= Seats + N - 1
  BY FS_CardinalityType DEF SeatsCounted
<1>3. J \subseteq Workers /\ J' \subseteq Workers
  BY DEF Joining
<1>4. /\ IsFiniteSet(J) /\ Cardinality(J) \in Nat /\ IsFiniteSet(J') /\ Cardinality(J') \in Nat
      /\ Cardinality(J') <= N
  BY <1>1, <1>3
<1>5. /\ job = [w \in Workers |-> job[w]] /\ \A w \in Workers : Carries(job[w])
      /\ invitations = [i \in Invites |-> invitations[i]]
  BY DEF MembersInv, JobsTyped, InvitesTyped
<1>6. \A v \in Workers, w \in Workers : \A next : Turn(w, next) => job'[v] = IF v = w THEN next ELSE job[v]
  BY <1>5 DEF Turn
(* A workspace begins with the thread that signs up.                       *)
<1>7. ASSUME NEW w \in Workers, SignupTenant(w, t)
      PROVE  IsFiniteSet(C') /\ Cardinality(C') + Cardinality(J') <= Seats + N - 1
  <2>1. ~Owned(t) /\ \A u \in users : u.tenant # t
    BY <1>7 DEF SignupTenant, MembersInv, NewIsEmpty, Owned
  <2>2. \A v \in Workers : v \notin J
    BY <1>7, <2>1 DEF SignupTenant, Joining, MembersInv, NewIsEmpty, WorkspacesOwned
  <2>3. \A i \in Invites : Written(i) => invitations[i].tenant # t
    BY <2>1 DEF MembersInv, WorkspacesOwned
  <2>4. \A e \in Emails : ~Claims(e, t)
    BY <1>5, <2>1, <2>3 DEF Claims, Pending, Written, On, Carries
  <2>5. \A e \in Emails : Claims(e, t)' => Claims(e, t)
    <3>1. ASSUME NEW v \in Workers
          PROVE  On(v, "acceptUser")' => On(v, "acceptUser") /\ job'[v] = job[v]
      <4>1. job'[v] = IF v = w THEN [step |-> "signupUser", email |-> job[w].email, tenant |-> t] ELSE job[v]
        BY <1>6, <1>7 DEF SignupTenant
      <4> QED BY <4>1 DEF On
    <3>2. UNCHANGED <<users, invitations>>
      BY <1>7 DEF SignupTenant
    <3> QED BY <3>1, <3>2 DEF Claims, Pending
  <2>6. C' = {}
    BY <2>4, <2>5 DEF Claimed
  <2>7. J' \subseteq {w}
    <3>1. ASSUME NEW v \in Workers, v # w, v \in J'
          PROVE  FALSE
      <4>1. job'[v] = job[v]
        BY <1>6, <1>7, <3>1 DEF SignupTenant
      <4> QED BY <2>2, <3>1, <4>1 DEF Joining, On
    <3> QED BY <1>3, <3>1
  <2>8. IsFiniteSet({w}) /\ Cardinality({w}) = 1 /\ IsFiniteSet({}) /\ Cardinality({}) = 0
    BY FS_Singleton, FS_EmptySet
  <2>9. Cardinality(J') <= 1
    BY <2>7, <2>8, FS_Subset
  <2>10. IsFiniteSet(C') /\ Cardinality(C') = 0
    BY <2>6, <2>8
  <2> HIDE DEF C, J, N
  <2> QED BY <1>1, <1>4, <2>9, <2>10
(* Who is admitted has seen a seat free.                                   *)
<1>8. ASSUME NEW w \in Workers, NEW a \in Emails, InviteAdmit(w, t, a)
      PROVE  IsFiniteSet(C') /\ Cardinality(C') + Cardinality(J') <= Seats + N - 1
  <2> DEFINE A == {v \in Workers : On(v, "acceptUser")}
  <2>1. \A v \in Workers : job'[v] = IF v = w THEN [step |-> "inviteLookup", tenant |-> t, email |-> a] ELSE job[v]
    BY <1>6, <1>8 DEF InviteAdmit
  <2>2. UNCHANGED <<users, invitations>> /\ On(w, "idle") /\ SeatsTaken(t) < Seats
    BY <1>8 DEF InviteAdmit, SeatAvailable
  <2>3. C' \subseteq C
    <3>1. \A v \in Workers : On(v, "acceptUser")' => On(v, "acceptUser") /\ job'[v] = job[v]
      BY <2>1 DEF On
    <3>2. \A e \in Emails : Claims(e, t)' => Claims(e, t)
      BY <2>2, <3>1 DEF Claims, Pending
    <3> QED BY <3>2 DEF Claimed
  <2>4. A \cap J' = {}
    BY <2>1, <2>2 DEF Joining, On
  <2>5. /\ SeatsTaken(t) \in Nat
        /\ Cardinality(C) <= SeatsTaken(t) + Cardinality(A)
    BY ClaimsCounted
  <2>6. A \in SUBSET Workers /\ J' \in SUBSET Workers /\ A \cup J' \in SUBSET Workers
    BY <1>3
  <2> HIDE DEF A, C, J, N
  <2>7. IsFiniteSet(C') /\ Cardinality(C') <= Cardinality(C) /\ Cardinality(C') \in Nat
    BY <1>2, <2>3, FS_Subset, FS_CardinalityType
  <2>8. /\ IsFiniteSet(A) /\ Cardinality(A) \in Nat
        /\ Cardinality(A \cup J') <= N /\ Cardinality(A \cup J') \in Nat
    BY <1>1, <2>6
  <2>9. Cardinality(A \cup J') = Cardinality(A) + Cardinality(J') - Cardinality(A \cap J')
    BY <1>4, <2>8, FS_Union
  <2>10. Cardinality(A \cap J') = 0
    BY <2>4, FS_EmptySet
  <2> QED BY <1>1, <1>2, <1>4, <2>2, <2>5, <2>7, <2>8, <2>9, <2>10
(* An address committed is one thread less to come.                        *)
<1>9. ASSUME NEW w \in Workers, w \in J, w \notin J', J' \subseteq J, NEW e \in Emails, C' \subseteq C \cup {e}
      PROVE  IsFiniteSet(C') /\ Cardinality(C') + Cardinality(J') <= Seats + N - 1
  <2> HIDE DEF C, J, N
  <2>1. IsFiniteSet(C \cup {e}) /\ Cardinality(C \cup {e}) <= Cardinality(C) + 1
    <3>1. /\ IsFiniteSet(C \cup {e})
          /\ Cardinality(C \cup {e}) = IF e \in C THEN Cardinality(C) ELSE Cardinality(C) + 1
      BY <1>2, FS_AddElement
    <3> QED BY <1>2, <3>1
  <2>2. Cardinality(C \cup {e}) \in Nat /\ IsFiniteSet(C') /\ Cardinality(C') \in Nat
        /\ Cardinality(C') <= Cardinality(C \cup {e})
    BY <1>9, <2>1, FS_Subset, FS_CardinalityType
  <2>3. IsFiniteSet(J \ {w}) /\ Cardinality(J \ {w}) = Cardinality(J) - 1
    BY <1>4, <1>9, FS_RemoveElement
  <2>4. Cardinality(J') <= Cardinality(J \ {w})
    <3>1. J' \subseteq J \ {w}
      BY <1>9
    <3> QED BY <2>3, <3>1, FS_Subset
  <2> QED BY <1>1, <1>2, <1>4, <2>1, <2>2, <2>3, <2>4
<1>10. ASSUME C' \subseteq C, J' \subseteq J
       PROVE  IsFiniteSet(C') /\ Cardinality(C') + Cardinality(J') <= Seats + N - 1
  <2> HIDE DEF C, J, N
  <2>1. IsFiniteSet(C') /\ Cardinality(C') \in Nat /\ Cardinality(C') <= Cardinality(C)
    BY <1>2, <1>10, FS_Subset, FS_CardinalityType
  <2>2. Cardinality(J') <= Cardinality(J)
    BY <1>4, <1>10, FS_Subset
  <2> QED BY <1>1, <1>2, <1>4, <2>1, <2>2
<1>11. CASE /\ \A w \in Workers : ~SignupTenant(w, t)
            /\ \A w \in Workers, e \in Emails : ~InviteAdmit(w, t, e)
  <2>1. J' \subseteq J
    BY <1>3, <1>11, JoiningStep
  <2>2. CASE \E w \in Workers : /\ SignupUser(w) \/ \E i \in Invites : InviteInsert(w, i)
                                /\ job[w].tenant = t
    <3>1. PICK w \in Workers : /\ SignupUser(w) \/ \E i \in Invites : InviteInsert(w, i)
                               /\ job[w].tenant = t
      BY <2>2
    <3>2. w \in J /\ job[w].email \in Emails
      BY <1>5, <3>1 DEF SignupUser, InviteInsert, Joining, On, Carries
    <3>3. w \notin J' /\ \A v \in Workers : SignupUser(v) \/ (\E i \in Invites : InviteInsert(v, i)) => v = w
      <4>1. ASSUME NEW v \in Workers, SignupUser(v) \/ \E i \in Invites : InviteInsert(v, i)
            PROVE  /\ job'[v].step \in {"signupTrial", "idle"} /\ job[v].step \in {"signupUser", "inviteInsert"}
                   /\ \A u \in Workers \ {v} : job'[u] = job[u]
        <5>1. Turn(v, Resting) \/ Turn(v, [step |-> "signupTrial", tenant |-> job[v].tenant])
          BY <4>1 DEF SignupUser, InviteInsert
        <5>2. job[v].step \in {"signupUser", "inviteInsert"}
          BY <4>1 DEF SignupUser, InviteInsert, On
        <5> QED BY <1>6, <5>1, <5>2 DEF Resting
      <4> QED BY <3>1, <4>1 DEF Joining, On
    <3>4. C' \subseteq C \cup {job[w].email}
      <4>1. \A e \in Emails : Claims(e, t)' => Claims(e, t) \/ e = job[w].email
        BY <3>3, ClaimsStep
      <4> QED BY <4>1 DEF Claimed
    <3> QED BY <1>9, <2>1, <3>2, <3>3, <3>4
  <2>3. CASE ~ \E w \in Workers : /\ SignupUser(w) \/ \E i \in Invites : InviteInsert(w, i)
                                  /\ job[w].tenant = t
    <3>1. \A e \in Emails : Claims(e, t)' => Claims(e, t)
      BY <2>3, ClaimsStep
    <3>2. C' \subseteq C
      BY <3>1 DEF Claimed
    <3> QED BY <1>10, <2>1, <3>2
  <2> QED BY <2>2, <2>3
<1> QED BY <1>7, <1>8, <1>11

LEMMA SeatsKept ==
  ASSUME MembersInv, SeatsCounted, [MembershipNext]_memberVars
  PROVE  SeatsCounted'
<1>1. CASE MembershipNext
  BY <1>1, InvitesStep, MembersStep, SeatsStep
<1>2. CASE UNCHANGED memberVars
  BY <1>2 DEF memberVars, SeatsCounted, Claimed, Claims, Joining, Pending, On
<1> QED BY <1>1, <1>2

LEMMA SeatsHold ==
  ASSUME MembersInv, SeatsCounted
  PROVE  SeatsAreBounded
<1> SUFFICES ASSUME NEW t \in Tenants
             PROVE  Cardinality(People(t)) <= Seats + Cardinality(Workers) - 1
  BY DEF SeatsAreBounded
<1>1. People(t) \subseteq Claimed(t)
  <2>1. \A i \in Invites : Pending(i) => invitations[i].email \in Emails
    BY DEF Pending, MembersInv, MembershipTypeOK, InviteRow, NoInvite
  <2>2. \A u \in users : u.email \in Emails
    BY DEF MembersInv, MembershipTypeOK, Member
  <2> QED BY <2>1, <2>2 DEF People, Claimed, Claims
<1>2. /\ IsFiniteSet(Claimed(t))
      /\ Cardinality(Claimed(t)) + Cardinality(Joining(t)) <= Seats + Cardinality(Workers) - 1
  BY DEF SeatsCounted
<1>3. Cardinality(Joining(t)) \in Nat
  BY WorkersCounted DEF Joining
<1>4. /\ Cardinality(People(t)) \in Nat /\ Cardinality(Claimed(t)) \in Nat
      /\ Cardinality(People(t)) <= Cardinality(Claimed(t))
  BY <1>1, <1>2, FS_Subset, FS_CardinalityType
<1> QED BY <1>2, <1>3, <1>4, WorkersCounted, MembershipAssumption DEF MembershipAssumption

-----------------------------------------------------------------------------
(* Each behaviour follows the account or the workspace.                    *)
PeopleInv == SessionsInv /\ MembersInv /\ SeatsCounted

LEMMA PeopleKept ==
  /\ Init => PeopleInv
  /\ PeopleInv /\ [Next]_vars => PeopleInv'
<1>1. Init => PeopleInv
  BY InitSessions, InitMembers, InitSeats DEF Init, PeopleInv
<1>2. [Next]_vars => [SessionsNext]_sessionVars /\ [MembershipNext]_memberVars
  BY DEF Next, vars
<1>3. PeopleInv /\ [Next]_vars => PeopleInv'
  BY <1>2, SessionsKept, MembersKept, SeatsKept DEF PeopleInv
<1> QED BY <1>1, <1>3

LEMMA PeopleAreSound ==
  ASSUME PeopleInv
  PROVE  PeopleTypeOK /\ SessionFollowsPassword /\ LimitsHold /\ MembersAreInvited /\ OwnerRemains
BY SessionsAreSound, MembersAreSound, SeatsHold DEF PeopleInv, PeopleTypeOK, LimitsHold

(* Rows of accounts, workspaces, users and invitations, and what a request *)
(* carries between its commits, have their types, and users.email stays    *)
(* unique (PeopleTypeOK).                                                  *)
THEOREM PeopleAreTyped == Spec => []PeopleTypeOK
<1>1. PeopleInv => PeopleTypeOK
  BY PeopleAreSound
<1> QED BY <1>1, PeopleKept, PTL DEF Spec

(* However many requests run: unless two password writes overlapped, every *)
(* session the code accepts was opened with the password the account has   *)
(* now (SessionFollowsPassword, token_version in app/auth).                *)
THEOREM SessionsFollow == Spec => []SessionFollowsPassword
<1>1. PeopleInv => SessionFollowsPassword
  BY PeopleAreSound
<1> QED BY <1>1, PeopleKept, PTL DEF Spec

(* What is checked in one commit and used in another passes its limit by   *)
(* no more than the other requests in flight: password attempts, uses of a *)
(* reset link, and the people of a workspace, invited or in, against the   *)
(* seats of its plan (LimitsHold).                                         *)
THEOREM LimitsPassByWhoRuns == Spec => []LimitsHold
<1>1. PeopleInv => LimitsHold
  BY PeopleAreSound
<1> QED BY <1>1, PeopleKept, PTL DEF Spec

(* Who accepted an invitation is in the workspace or it was purged, and    *)
(* whoever is staff was invited at that address, whatever requests race,   *)
(* die or revoke in between (MembersAreInvited).                           *)
THEOREM StaffWereInvited == Spec => []MembersAreInvited
<1>1. PeopleInv => MembersAreInvited
  BY PeopleAreSound
<1> QED BY <1>1, PeopleKept, PTL DEF Spec

(* A workspace that has anybody keeps an owner who can act until it is     *)
(* purged: a deactivation always leaves the one who asked (OwnerRemains).  *)
THEOREM OwnersRemain == Spec => []OwnerRemains
<1>1. PeopleInv => OwnerRemains
  BY PeopleAreSound
<1> QED BY <1>1, PeopleKept, PTL DEF Spec
=============================================================================
