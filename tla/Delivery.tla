------------------------------ MODULE Delivery ------------------------------
(***************************************************************************)
(* The outbound e-mail service: app/communications (service.py, router.py, *)
(* provider.py) over the tables communications, email_suppressions,        *)
(* marketing_preferences, marketing_unsubscribe_tokens and                 *)
(* processed_email_events.                                                 *)
(*                                                                         *)
(* Requests, webhook handlers and the cron job run in processes of their   *)
(* own, each with its own database session at READ COMMITTED.  Nothing is  *)
(* locked: a handler is a sequence of committed transactions and provider  *)
(* calls, and one action below is one of them.  Between two actions        *)
(* another process may run, or the process may die (Crash).                *)
(*                                                                         *)
(* A message is identified by its dedupe key, so row[m] is THE row of that *)
(* key (UNIQUE(tenant_id, dedupe_key)); an address stands for a pair       *)
(* (tenant, normalised e-mail), every lookup by address being scoped by    *)
(* tenant.                                                                 *)
(***************************************************************************)
EXTENDS Integers, FiniteSets

CONSTANTS
  Messages,      \* dedupe keys
  Addresses,     \* (tenant, normalised address) pairs
  Recipient,     \* the address each message is for
  Marketing,     \* the messages whose type is in MARKETING_TYPES
  Processes,     \* web requests, webhook handlers, the cron job
  MaxAttempts,   \* DeliveryService.MAX_ATTEMPTS (5 in the code)
  MaxCalls,      \* the request counter of the provider saturates here
  CrashAllowed   \* whether a process may die between two commits

ASSUME DeliveryAssumption ==
  /\ Messages # {}
  /\ Recipient \in [Messages -> Addresses]
  /\ Marketing \subseteq Messages
  /\ MaxAttempts \in Nat \ {0}
  /\ MaxCalls \in Nat \ {0}
  /\ CrashAllowed \in BOOLEAN

VARIABLES
  row,         \* communications, by dedupe key
  suppressed,  \* email_suppressions
  consent,     \* marketing_preferences: "none" is the absence of a row
  tokens,      \* messages whose unsubscribe token is committed
  processed,   \* processed_email_events
  pc,          \* where each process is
  work,        \* what each process holds in its session
  accepted,    \* provider: has it accepted m, and with an unsubscribe footer?
  calls,       \* provider: HTTP requests received for m
  emitted      \* provider: webhook events it has to deliver, at least once

db     == <<row, suppressed, consent, tokens, processed>>
remote == <<accepted, calls, emitted>>
vars   == <<db, pc, work, remote>>

-----------------------------------------------------------------------------
Handed     == {"sent", "delivered", "bounced"}
Statuses   == {"none", "queued", "suppressed", "failed"} \cup Handed
Retryable  == {"transient", "unavailable"}
Categories == {"none", "permanent", "suppressed"} \cup Retryable
EventTypes == {"delivered", "bounced", "complained"}
Events     == Messages \X EventTypes
Outcomes   == {"accepted", "transient", "permanent", "unavailable"}

\* A row of communications; `traced' is "provider_message_id is not NULL".
\* The provider's id for a message is one value (its idempotency key is the
\* row's dedupe key), so which id it is needs no recording.
Rows == [status: Statuses, category: Categories, traced: BOOLEAN, attempts: 0..MaxAttempts]

NoRow  == [status |-> "none",   category |-> "none", traced |-> FALSE, attempts |-> 0]
NewRow == [status |-> "queued", category |-> "none", traced |-> FALSE, attempts |-> 0]

\* What a session holds: the flow it runs, its message or event, the row as
\* it read it, the verdict of the suppression check, the provider's answer.
Flows == {"send", "retry", "event"}
Work  == [flow: Flows, msg: Messages, type: EventTypes, seen: Rows,
          blocked: BOOLEAN, outcome: Outcomes]

NoWork == [flow |-> "send", msg |-> CHOOSE m \in Messages : TRUE, type |-> "delivered",
           seen |-> NoRow, blocked |-> FALSE, outcome |-> "transient"]

Steps == {"idle", "insert", "withhold", "call", "record", "lookup", "post", "suppress"}

TypeOK ==
  /\ row \in [Messages -> Rows]
  /\ suppressed \subseteq Addresses
  /\ consent \in [Addresses -> {"none", "on", "off"}]
  /\ tokens \subseteq Messages
  /\ processed \subseteq Events
  /\ pc \in [Processes -> Steps]
  /\ work \in [Processes -> Work]
  /\ accepted \in [Messages -> {"no", "footer", "plain"}]
  /\ calls \in [Messages -> 0..MaxCalls]
  /\ emitted \subseteq Events

Init ==
  /\ row = [m \in Messages |-> NoRow]
  /\ suppressed = {}
  /\ consent \in [Addresses -> {"none", "on"}]
  /\ tokens = {}
  /\ processed = {}
  /\ pc = [p \in Processes |-> "idle"]
  /\ work = [p \in Processes |-> NoWork]
  /\ accepted = [m \in Messages |-> "no"]
  /\ calls = [m \in Messages |-> 0]
  /\ emitted = {}

Goto(p, step) == pc' = [pc EXCEPT ![p] = step]

\* The request returns (or raises): its session is closed.
Finish(p) ==
  /\ Goto(p, "idle")
  /\ work' = [work EXCEPT ![p] = NoWork]

-----------------------------------------------------------------------------
(* update_communication_result.  The session assigns every column, but the *)
(* UPDATE it flushes holds only those whose value differs from the value   *)
(* the session has loaded (seen); the others keep what is in the table     *)
(* now.  attempt_count is computed from the loaded value too.              *)

\* Mutants: the UPDATE writes the whole row; or the provider's id every time.
FlushWhole(cur, seen, new) == new

FlushId(cur, seen, new) ==
  [status   |-> IF new.status   = seen.status   THEN cur.status   ELSE new.status,
   category |-> IF new.category = seen.category THEN cur.category ELSE new.category,
   traced   |-> new.traced,
   attempts |-> IF new.attempts = seen.attempts THEN cur.attempts ELSE new.attempts]

Flush(cur, seen, new) ==
  [status   |-> IF new.status   = seen.status   THEN cur.status   ELSE new.status,
   category |-> IF new.category = seen.category THEN cur.category ELSE new.category,
   traced   |-> IF new.traced   = seen.traced   THEN cur.traced   ELSE new.traced,
   attempts |-> IF new.attempts = seen.attempts THEN cur.attempts ELSE new.attempts]

Update(m, seen, new) == row' = [row EXCEPT ![m] = Flush(row[m], seen, new)]

\* The row an attempt's outcome makes of the row the session has loaded.
Outcome(seen, ok, outcome) ==
  [status   |-> IF ok THEN "sent" ELSE "failed",
   category |-> IF ok THEN "none" ELSE outcome,
   traced   |-> ok,
   attempts |-> seen.attempts + 1]

\* Mutant: a request without an answer counts as sent.
ResultHopeful(seen, outcome) == Outcome(seen, outcome \in {"accepted", "transient"}, outcome)

Result(seen, outcome) == Outcome(seen, outcome = "accepted", outcome)

-----------------------------------------------------------------------------
(* DeliveryService.send(): the reads, the insert, then either the          *)
(* suppressed outcome or one provider call and its outcome.                *)

\* Step 1: no row of this key yet; read the suppression and the preference.
\* (With a row, send() returns it and changes nothing.)
SendRead(p, m) ==
  /\ pc[p] = "idle"
  /\ row[m].status = "none"
  /\ LET a == Recipient[m]
         blocked == \/ a \in suppressed
                    \/ m \in Marketing /\ consent[a] # "on"
     IN work' = [work EXCEPT ![p] =
                   [NoWork EXCEPT !.flow = "send", !.msg = m, !.blocked = blocked]]
  /\ Goto(p, "insert")
  /\ UNCHANGED <<db, remote>>

\* Step 2: create_communication commits the queued row, unless another
\* session committed this key since the lookup.
Insert(p, whenBlocked) ==
  /\ pc[p] = "insert"
  /\ row' = [row EXCEPT ![work[p].msg] = NewRow]
  /\ work' = [work EXCEPT ![p].seen = NewRow]
  /\ Goto(p, IF work[p].blocked THEN whenBlocked ELSE "call")
  /\ UNCHANGED <<suppressed, consent, tokens, processed, remote>>

KeyIsFree(p) == row[work[p].msg].status = "none"

\* Mutants: no unique constraint; a withheld message is not recorded as such.
SendUpsert(p)  == Insert(p, "withhold")
SendForgets(p) == KeyIsFree(p) /\ Insert(p, "idle")

SendInsert(p) == KeyIsFree(p) /\ Insert(p, "withhold")

\* Step 2': UNIQUE(tenant_id, dedupe_key) refuses the insert; nothing catches
\* the IntegrityError inside send().
SendRefused(p) ==
  /\ pc[p] = "insert"
  /\ ~KeyIsFree(p)
  /\ Finish(p)
  /\ UNCHANGED <<db, remote>>

\* Step 3: a suppressed recipient, or marketing without consent.
SendWithhold(p) ==
  LET w == work[p] IN
  /\ pc[p] = "withhold"
  /\ Update(w.msg, w.seen, [status |-> "suppressed", category |-> "suppressed",
                            traced |-> FALSE, attempts |-> w.seen.attempts + 1])
  /\ Finish(p)
  /\ UNCHANGED <<suppressed, consent, tokens, processed, remote>>

-----------------------------------------------------------------------------
(* DeliveryService.retry(), from the cron job's sweep or from a user who   *)
(* clicks "send" on the quote again.                                       *)

RetryFrom(p, m) ==
  /\ pc[p] = "idle"
  /\ work' = [work EXCEPT ![p] = [NoWork EXCEPT !.flow = "retry", !.msg = m, !.seen = row[m]]]
  /\ Goto(p, "call")
  /\ UNCHANGED <<db, remote>>

HasFailed(m)    == row[m].status = "failed" /\ row[m].category \in Retryable
AttemptsLeft(m) == row[m].attempts < MaxAttempts

\* Mutants: no bound on attempts; a queued row, or a withheld one, is retried too.
RetryUnbounded(p, m) == HasFailed(m) /\ RetryFrom(p, m)
RetryQueued(p, m)    == AttemptsLeft(m) /\ (HasFailed(m) \/ row[m].status = "queued") /\ RetryFrom(p, m)
RetryWithheld(p, m)  == AttemptsLeft(m) /\ (HasFailed(m) \/ row[m].status = "suppressed") /\ RetryFrom(p, m)

RetryRead(p, m) == HasFailed(m) /\ AttemptsLeft(m) /\ RetryFrom(p, m)

-----------------------------------------------------------------------------
(* DeliveryService._attempt(): one provider call, then its outcome.        *)

\* Only send() adds the unsubscribe footer and headers to a marketing message;
\* the row's body, which retry() sends, does not have them.  A message the
\* provider already has under this idempotency key is not mailed twice.  The
\* answer to an accepted request may be lost (an exception in the client is
\* transient too); with no API key configured no request leaves.
ProviderCall(p) ==
  LET m    == work[p].msg
      mail == IF work[p].flow = "send" /\ m \in Marketing THEN "footer" ELSE "plain"
      new  == IF accepted[m] = "no" THEN mail ELSE accepted[m]
  IN
  /\ pc[p] = "call"
  /\ \E outcome \in Outcomes, kept \in BOOLEAN :
       /\ outcome = "accepted" => kept
       /\ outcome \in {"permanent", "unavailable"} => ~kept
       /\ accepted' = [accepted EXCEPT ![m] = IF kept THEN new ELSE @]
       /\ calls' = [calls EXCEPT ![m] =
                      IF outcome # "unavailable" /\ @ < MaxCalls THEN @ + 1 ELSE @]
       /\ work' = [work EXCEPT ![p].outcome = outcome]
  /\ Goto(p, "record")
  /\ UNCHANGED <<db, emitted>>

\* The unsubscribe token send() added to the session commits with the outcome.
RecordResult(p) ==
  LET w == work[p] IN
  /\ pc[p] = "record"
  /\ Update(w.msg, w.seen, Result(w.seen, w.outcome))
  /\ tokens' = IF w.flow = "send" /\ w.msg \in Marketing THEN tokens \cup {w.msg} ELSE tokens
  /\ Finish(p)
  /\ UNCHANGED <<suppressed, consent, processed, remote>>

-----------------------------------------------------------------------------
(* The Resend webhook: the provider's events, and the handler in router.py *)
(* and DeliveryService.record_webhook_event().                             *)

\* The provider reports on messages it accepted.
Emit(e) ==
  /\ e \in Events \ emitted
  /\ accepted[e[1]] # "no"
  /\ emitted' = emitted \cup {e}
  /\ UNCHANGED <<db, pc, work, accepted, calls>>

\* mark_email_event_processed commits first.  Of two concurrent deliveries the
\* primary key lets one through; the other, and every replay, changes nothing.
Claim(p, e) ==
  /\ pc[p] = "idle"
  /\ e \in emitted
  /\ processed' = processed \cup {e}
  /\ work' = [work EXCEPT ![p] = [NoWork EXCEPT !.flow = "event", !.msg = e[1], !.type = e[2]]]
  /\ Goto(p, "lookup")
  /\ UNCHANGED <<row, suppressed, consent, tokens, remote>>

\* Mutant: a replayed event is handled again.
WebhookReplay(p, e) == Claim(p, e)

WebhookClaim(p, e) == e \notin processed /\ Claim(p, e)

\* No row with this provider_message_id: the event is acknowledged and dropped.
WebhookUnknown(p) ==
  /\ pc[p] = "lookup"
  /\ ~row[work[p].msg].traced
  /\ Finish(p)
  /\ UNCHANGED <<db, remote>>

Found(p, whenComplained) ==
  LET m == work[p].msg IN
  /\ pc[p] = "lookup"
  /\ row[m].traced
  /\ work' = [work EXCEPT ![p].seen = row[m]]
  /\ Goto(p, IF work[p].type = "complained" THEN whenComplained ELSE "post")
  /\ UNCHANGED <<db, remote>>

\* Mutant: a complaint is acknowledged and nothing more.
WebhookShrugs(p) == Found(p, "idle")

WebhookFound(p) == Found(p, "suppress")

\* email.delivered and email.bounced write the row; a bounce goes on.
WebhookPost(p) ==
  LET w       == work[p]
      bounced == w.type = "bounced"
  IN
  /\ pc[p] = "post"
  /\ Update(w.msg, w.seen,
            [w.seen EXCEPT !.status   = w.type,
                           !.category = IF bounced THEN "permanent" ELSE "none"])
  /\ IF bounced THEN Goto(p, "suppress") /\ UNCHANGED work ELSE Finish(p)
  /\ UNCHANGED <<suppressed, consent, tokens, processed, remote>>

\* suppress(): an address already on the list stays as it is.
WebhookSuppress(p) ==
  /\ pc[p] = "suppress"
  /\ suppressed' = suppressed \cup {Recipient[work[p].msg]}
  /\ Finish(p)
  /\ UNCHANGED <<row, consent, tokens, processed, remote>>

-----------------------------------------------------------------------------
(* app/privacy/router.py: marketing preferences, each one transaction.     *)

\* The recipient follows the link of a message that carries one.
Unsubscribe(m) ==
  /\ accepted[m] = "footer"
  /\ m \in tokens
  /\ consent' = [consent EXCEPT ![Recipient[m]] = "off"]
  /\ UNCHANGED <<row, suppressed, tokens, processed, pc, work, remote>>

\* A signed-in user sets the preference of their own address.
SetPreference(a, choice) ==
  /\ consent' = [consent EXCEPT ![a] = choice]
  /\ UNCHANGED <<row, suppressed, tokens, processed, pc, work, remote>>

\* The process dies, or its request fails on a database error: what it has
\* committed stays, what its session held is gone.
Crash(p) ==
  /\ CrashAllowed
  /\ pc[p] # "idle"
  /\ Finish(p)
  /\ UNCHANGED <<db, remote>>

-----------------------------------------------------------------------------
SendStep(p) ==
  \/ SendInsert(p)
  \/ SendRefused(p)
  \/ SendWithhold(p)
  \/ ProviderCall(p)
  \/ RecordResult(p)

WebhookStep(p) ==
  \/ WebhookUnknown(p)
  \/ WebhookFound(p)
  \/ WebhookPost(p)
  \/ WebhookSuppress(p)

Next ==
  \/ \E p \in Processes, m \in Messages : SendRead(p, m) \/ RetryRead(p, m)
  \/ \E p \in Processes : SendStep(p) \/ WebhookStep(p) \/ Crash(p)
  \/ \E p \in Processes, e \in Events : WebhookClaim(p, e)
  \/ \E e \in Events : Emit(e)
  \/ \E m \in Messages : Unsubscribe(m)
  \/ \E a \in Addresses, choice \in {"on", "off"} : SetPreference(a, choice)

Spec == Init /\ [][Next]_vars

\* A request that runs gets to its end, and the provider redelivers an event
\* until it is acknowledged.  Nothing makes a user send, or a bounce happen.
Fairness ==
  /\ \A p \in Processes : WF_vars(SendStep(p) \/ WebhookStep(p))
  /\ \A e \in Events : WF_vars(\E p \in Processes : WebhookClaim(p, e))

FairSpec == Spec /\ Fairness

-----------------------------------------------------------------------------
(* Safety *)

Trying(p) == pc[p] \in {"withhold", "call", "record"}

\* From the queued insert to the recorded outcome the sender alone works on
\* the row: no second send(), retry() or webhook handler touches it.
SenderOwnsRow ==
  \A p \in Processes : Trying(p) /\ work[p].flow = "send" =>
    /\ row[work[p].msg] = NewRow
    /\ \A q \in Processes \ {p} : Trying(q) => work[q].msg # work[p].msg

\* "Nothing upstream ever fabricates a sent state": a row says handed over only
\* when the provider has the message, and delivered or bounced only when the
\* provider reported just that.
StatusIsReal ==
  \A m \in Messages :
    /\ row[m].status \in Handed => accepted[m] # "no"
    /\ row[m].status \in {"delivered", "bounced"} => <<m, row[m].status>> \in emitted \cap processed

\* Every row handed over, and no other, can be found by provider_message_id,
\* whatever concurrent retries wrote after it: bounces and complaints about it
\* reach the suppression list.
HandedIsTraced ==
  \A m \in Messages : row[m].traced <=> row[m].status \in Handed

\* A withheld message never reached the provider, and nothing reaches the
\* provider without a committed row (a crash leaves an inspectable row).
LedgerCoversProvider ==
  \A m \in Messages : calls[m] # 0 => row[m].status \notin {"none", "suppressed"}

\* One event is applied by one handler at a time, once.
OneHandlerPerEvent ==
  \A p, q \in Processes :
    /\ p # q
    /\ pc[p] \in {"lookup", "post", "suppress"}
    /\ pc[q] \in {"lookup", "post", "suppress"}
    => <<work[p].msg, work[p].type>> # <<work[q].msg, work[q].type>>

\* What the ledger says is what happened, and it says it all: no fabricated
\* status, no untraceable message, no message without a row.
LedgerIsTrue == StatusIsReal /\ HandedIsTraced /\ LedgerCoversProvider

\* A row in the hands of its sender, and an event in those of its handler, are in
\* no one else's, though nothing is ever locked.
OneAtATime == SenderOwnsRow /\ OneHandlerPerEvent

-----------------------------------------------------------------------------
(* Action properties, liveness, and the abstract ledger.                   *)

\* A row handed over never goes back to failed or queued, though a retry that
\* read it earlier may still write its own failure.
HandedIsFinal ==
  [][\A m \in Messages : row[m].status \in Handed => row'[m].status \in Handed]_vars

Phase(status) ==
  CASE status = "none"       -> "absent"
    [] status = "queued"     -> "pending"
    [] status = "suppressed" -> "blocked"
    [] status = "failed"     -> "failed"
    [] OTHER                 -> "handed"

\* The refinement, including the open entry of an address that is suppressed: a queued
\* row is committed before the check that the docstring of communications/service.py:14-16
\* puts in front of it.  See MailLedger.
Ledger == INSTANCE MailLedger WITH
  phase <- [m \in Messages |-> Phase(row[m].status)],
  gone  <- {m \in Messages : accepted[m] # "no"}

LedgerSpec == Ledger!Spec

\* Without crashes, a row does not stay queued.
QueuedIsResolved ==
  \A m \in Messages : row[m].status = "queued" ~> row[m].status # "queued"

\* Without crashes, a complaint about a row the webhook can find suppresses
\* the address.
ComplaintIsHonoured ==
  \A m \in Messages :
    (row[m].traced /\ <<m, "complained">> \in emitted \ processed) ~> Recipient[m] \in suppressed

\* Without crashes nothing about a message is left hanging.
MailIsResolved == QueuedIsResolved /\ ComplaintIsHonoured

-----------------------------------------------------------------------------
(* What comments and docs of the repository say, and the code does not do. *)

\* database/models.py, EmailSuppression: "Checked by DeliveryService before
\* every send attempt".  retry() starts an attempt without that check.
EveryAttemptChecksSuppression ==
  [][\A p \in Processes :
       pc[p] = "idle" /\ pc'[p] = "call" => Recipient[work'[p].msg] \notin suppressed]_vars
=============================================================================
