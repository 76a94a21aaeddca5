------------------------------ MODULE Sessions ------------------------------
(***************************************************************************)
(* One account and the sessions opened in its name: app/auth (router.py,   *)
(* service.py, dependencies.py, rate_limit.py, password_reset_service.py,  *)
(* password_change_service.py, verification_service.py).                   *)
(*                                                                         *)
(* A session is a signed token that carries the account's token_version;   *)
(* get_current_user() refuses it when the account has moved on.  Requests  *)
(* run in threads, every crud call commits, nothing locks a row, and the   *)
(* ORM writes token_version + 1 from the value it loaded.                  *)
(***************************************************************************)
EXTENDS Integers, FiniteSets

CONSTANTS
  Procs,        \* request threads
  ResetTokens,  \* password reset links that may be mailed
  VerifyTokens, \* e-mail verification links that may be mailed
  MaxAttempts,  \* login_rate_limit_max_attempts, password_change_max_attempts
  MaxWrites,    \* bound: password writes
  MaxSessions   \* bound: sessions minted

ASSUME SessionsAssumption ==
  /\ IsFiniteSet(Procs) /\ Procs # {}
  /\ MaxAttempts \in Nat /\ MaxWrites \in Nat /\ MaxSessions \in Nat

VARIABLES
  account,  \* the row of users: token_version, verified, active
  links,    \* password_reset_tokens and email_verification_tokens
  minted,   \* sessions given out
  revoked,  \* revoked_browser_sessions
  window,   \* failed attempts in each limiter's window for this account
  req,      \* what each thread is doing and the rows it has loaded
  writes,   \* password writes so far, and who overlapped whom
  uses      \* how often each reset link has set the password

sessionVars == <<account, links, minted, revoked, window, req, writes, uses>>

Links == ResetTokens \cup VerifyTokens

\* users: `pass' counts the passwords the account has had.
UserRow == [version : 0..MaxWrites, pass : 0..MaxWrites, verified : BOOLEAN, active : BOOLEAN]

\* A token's claims, and the password it was opened with.
Session == [id : 1..MaxSessions, version : 0..MaxWrites, proof : 0..MaxWrites]

\* used_at and expires_at of a link.
LinkStates == {"none", "live", "used", "expired"}

\* login_rate_limiter and password_change_rate_limiter.
Limiters == {"login", "change"}

Idle == [step |-> "idle"]

Steps == {"idle", "guess", "mint", "reset", "resetWrite", "verify", "verifyMark", "verifyWrite",
          "change", "changeGuess", "changeMail", "changeMint"}

SessionsTypeOK ==
  /\ account \in UserRow
  /\ links \in [Links -> LinkStates]
  /\ minted \subseteq Session
  /\ revoked \subseteq 1..MaxSessions
  /\ window \in [Limiters -> 0..(MaxAttempts + Cardinality(Procs))]
  /\ \A p \in Procs : req[p].step \in Steps
  /\ writes \in [count : 0..MaxWrites, overlapped : BOOLEAN]
  /\ uses \in [ResetTokens -> 0..MaxWrites]

SessionsInit ==
  /\ account = [version |-> 0, pass |-> 0, verified |-> FALSE, active |-> TRUE]
  /\ links = [l \in Links |-> "none"]
  /\ minted = {} /\ revoked = {} /\ window = [w \in Limiters |-> 0]
  /\ req = [p \in Procs |-> Idle]
  /\ writes = [count |-> 0, overlapped |-> FALSE]
  /\ uses = [t \in ResetTokens |-> 0]

Goto(p, next) == req' = [req EXCEPT ![p] = next]
At(p, step)   == req[p].step = step

\* get_current_user(): signature and expiry aside, what refuses a session.
Accepted(s) ==
  /\ s.id \notin revoked
  /\ account.active
  /\ s.version = account.version

\* create_access_token() with the version the request has in hand.
Mint(version, proof) ==
  /\ Cardinality(minted) < MaxSessions
  /\ minted' = minted \cup {[id |-> Cardinality(minted) + 1, version |-> version, proof |-> proof]}

-----------------------------------------------------------------------------
(* The window of failed attempts: LoginRateLimiter.                        *)
\* Mutant: one more than allowed.
LimiterLoose(w) == window[w] <= MaxAttempts

LimiterOpen(w) == window[w] < MaxAttempts

RecordFailure(w) == window' = [window EXCEPT ![w] = @ + 1]

ResetWindow(w) == window' = [window EXCEPT ![w] = 0]

WindowEnds(w) ==
  /\ window[w] > 0
  /\ ResetWindow(w)
  /\ UNCHANGED <<account, links, minted, revoked, req, writes, uses>>

\* login(): the limiter is asked first, then bcrypt runs.
LoginCheck(p) ==
  /\ At(p, "idle")
  /\ LimiterOpen("login")
  /\ Goto(p, [step |-> "guess"])
  /\ UNCHANGED <<account, links, minted, revoked, window, writes, uses>>

\* authenticate() fails: the failure is recorded.
LoginFails(p) ==
  /\ At(p, "guess")
  /\ RecordFailure("login")
  /\ Goto(p, Idle)
  /\ UNCHANGED <<account, links, minted, revoked, writes, uses>>

\* It succeeds against the row as it is now, which the request keeps; is_active is not asked.
LoginMatches(p) ==
  /\ At(p, "guess")
  /\ ResetWindow("login")
  /\ Goto(p, [step |-> "mint", version |-> account.version, pass |-> account.pass])
  /\ UNCHANGED <<account, links, minted, revoked, writes, uses>>

LoginMint(p) ==
  /\ At(p, "mint")
  /\ Mint(req[p].version, req[p].pass)
  /\ Goto(p, Idle)
  /\ UNCHANGED <<account, links, revoked, window, writes, uses>>

\* logout(): this session only, whoever presents it.
Logout ==
  /\ \E s \in minted : s.id \notin revoked /\ revoked' = revoked \cup {s.id}
  /\ UNCHANGED <<account, links, minted, window, req, writes, uses>>

\* deactivate_user() by the owner of the workspace.
DeactivateAccount ==
  /\ account.active
  /\ account' = [account EXCEPT !.active = FALSE]
  /\ UNCHANGED <<links, minted, revoked, window, req, writes, uses>>

-----------------------------------------------------------------------------
(* set_user_password(): the row as loaded, written back.                   *)
Loaded(p) == At(p, "resetWrite") \/ At(p, "change") \/ At(p, "changeGuess")
             \/ At(p, "changeMail") \/ At(p, "changeMint")

\* Mutant: the version is left alone.
SetPasswordOnly(p, seen) ==
  /\ writes.count < MaxWrites
  /\ account' = [account EXCEPT !.pass = writes.count + 1]
  /\ writes' = [count |-> writes.count + 1,
                overlapped |-> writes.overlapped \/ \E q \in Procs \ {p} : Loaded(q)]

SetPassword(p, seen) ==
  /\ writes.count < MaxWrites
  /\ account' = [account EXCEPT !.pass = writes.count + 1, !.version = seen + 1]
  /\ writes' = [count |-> writes.count + 1,
                overlapped |-> writes.overlapped \/ \E q \in Procs \ {p} : Loaded(q)]

\* request_reset(): one more link, the earlier ones stay good.
MailReset(t) ==
  /\ links[t] = "none"
  /\ links' = [links EXCEPT ![t] = "live"]
  /\ UNCHANGED <<account, minted, revoked, window, req, writes, uses>>

LinkExpires(l) ==
  /\ links[l] = "live"
  /\ links' = [links EXCEPT ![l] = "expired"]
  /\ UNCHANGED <<account, minted, revoked, window, req, writes, uses>>

\* reset_password(): the link is read ...
ResetRead(p, t) ==
  /\ At(p, "idle")
  /\ links[t] = "live"
  /\ Goto(p, [step |-> "reset", link |-> t])
  /\ UNCHANGED <<account, links, minted, revoked, window, writes, uses>>

\* Mutant: nothing marks the link.
ResetUnmarked(p) ==
  /\ At(p, "reset")
  /\ Goto(p, [step |-> "resetWrite", link |-> req[p].link, version |-> account.version])
  /\ UNCHANGED <<account, links, minted, revoked, window, writes, uses>>

\* ... marked used, whatever it has become, and the account loaded ...
ResetMark(p) ==
  /\ At(p, "reset")
  /\ links' = [links EXCEPT ![req[p].link] = "used"]
  /\ Goto(p, [step |-> "resetWrite", link |-> req[p].link, version |-> account.version])
  /\ UNCHANGED <<account, minted, revoked, window, writes, uses>>

\* ... and the password written.  No session comes of it.
ResetWrite(p) ==
  /\ At(p, "resetWrite")
  /\ SetPassword(p, req[p].version)
  /\ uses' = [uses EXCEPT ![req[p].link] = @ + 1]
  /\ Goto(p, Idle)
  /\ UNCHANGED <<links, minted, revoked, window>>

-----------------------------------------------------------------------------
(* change_password(): the account is loaded by get_current_user() and kept *)
(* until set_user_password() writes it.                                    *)
ChangeRead(p) ==
  /\ At(p, "idle")
  /\ \E s \in minted : Accepted(s)
  /\ Goto(p, [step |-> "change", version |-> account.version])
  /\ UNCHANGED <<account, links, minted, revoked, window, writes, uses>>

ChangeCheck(p) ==
  /\ At(p, "change")
  /\ Goto(p, IF LimiterOpen("change") THEN [req[p] EXCEPT !.step = "changeGuess"] ELSE Idle)
  /\ UNCHANGED <<account, links, minted, revoked, window, writes, uses>>

\* The current password is wrong, or the new one is no change: only the first is counted.
ChangeRefused(p) ==
  /\ At(p, "changeGuess")
  /\ \/ RecordFailure("change")
     \/ UNCHANGED window
  /\ Goto(p, Idle)
  /\ UNCHANGED <<account, links, minted, revoked, writes, uses>>

ChangeWrite(p) ==
  /\ At(p, "changeGuess")
  /\ SetPassword(p, req[p].version)
  /\ Goto(p, [step |-> "changeMail", version |-> req[p].version + 1, pass |-> writes.count + 1])
  /\ UNCHANGED <<links, minted, revoked, window, uses>>

\* The notice to a verified address commits, which makes the request load the row again.
ChangeMail(p) ==
  /\ At(p, "changeMail")
  /\ ResetWindow("change")
  /\ Goto(p, [step |-> "changeMint", pass |-> req[p].pass,
              version |-> IF account.verified THEN account.version ELSE req[p].version])
  /\ UNCHANGED <<account, links, minted, revoked, writes, uses>>

\* The caller stays signed in with a fresh session.
ChangeMint(p) ==
  /\ At(p, "changeMint")
  /\ Mint(req[p].version, req[p].pass)
  /\ Goto(p, Idle)
  /\ UNCHANGED <<account, links, revoked, window, writes, uses>>

-----------------------------------------------------------------------------
(* The e-mail address: send_verification_email() and verify().             *)
MailVerification(t) ==
  /\ links[t] = "none" /\ ~account.verified
  /\ links' = [links EXCEPT ![t] = "live"]
  /\ UNCHANGED <<account, minted, revoked, window, req, writes, uses>>

VerifyRead(p, t) ==
  /\ At(p, "idle")
  /\ links[t] = "live"
  /\ Goto(p, [step |-> "verifyMark", link |-> t])
  /\ UNCHANGED <<account, links, minted, revoked, window, writes, uses>>

VerifyMark(p) ==
  /\ At(p, "verifyMark")
  /\ links' = [links EXCEPT ![req[p].link] = "used"]
  /\ Goto(p, [step |-> "verifyWrite"])
  /\ UNCHANGED <<account, minted, revoked, window, writes, uses>>

\* set_user_email_verified_at()
VerifyWrite(p) ==
  /\ At(p, "verifyWrite")
  /\ account' = [account EXCEPT !.verified = TRUE]
  /\ Goto(p, Idle)
  /\ UNCHANGED <<links, minted, revoked, window, writes, uses>>

\* The process dies: every request is gone, and the limiter's memory with them.
Restart ==
  /\ \E p \in Procs : ~At(p, "idle")
  /\ req' = [p \in Procs |-> Idle]
  /\ window' = [w \in Limiters |-> 0]
  /\ UNCHANGED <<account, links, minted, revoked, writes, uses>>

SessionsNext ==
  \/ Logout \/ DeactivateAccount \/ Restart
  \/ \E w \in Limiters : WindowEnds(w)
  \/ \E l \in Links : LinkExpires(l)
  \/ \E t \in ResetTokens : MailReset(t)
  \/ \E t \in VerifyTokens : MailVerification(t)
  \/ \E p \in Procs :
       \/ LoginCheck(p) \/ LoginFails(p) \/ LoginMatches(p) \/ LoginMint(p)
       \/ ResetMark(p) \/ ResetWrite(p)
       \/ ChangeRead(p) \/ ChangeCheck(p) \/ ChangeRefused(p) \/ ChangeWrite(p)
       \/ ChangeMail(p) \/ ChangeMint(p)
       \/ VerifyMark(p) \/ VerifyWrite(p)
       \/ \E t \in ResetTokens : ResetRead(p, t)
       \/ \E t \in VerifyTokens : VerifyRead(p, t)

SessionsSpec == SessionsInit /\ [][SessionsNext]_sessionVars

-----------------------------------------------------------------------------
\* An accepted session was opened with the password the account has now.  It
\* holds as long as no two requests that write the password overlap: then one
\* writes a version the other has already given out, or signs its session with
\* the other's.
SessionFollowsPassword ==
  writes.overlapped \/ \A s \in minted : Accepted(s) => s.proof = account.pass

\* A refused session stays refused: the promise of token_version.
RefusedStaysRefused ==
  [][\A s \in minted : ~Accepted(s) => ~Accepted(s)']_sessionVars

\* The attempts judged in one window exceed the limit only by those that were
\* already past the check when it was reached.
GuessesAreBounded == \A w \in Limiters : window[w] <= MaxAttempts + Cardinality(Procs) - 1

\* A reset link sets the password once for each request that read it before
\* the first of them marked it, and never again.
ResetLinkIsSpent == \A t \in ResetTokens : uses[t] <= Cardinality(Procs)
=============================================================================
