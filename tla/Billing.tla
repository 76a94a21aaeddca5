------------------------------- MODULE Billing -------------------------------
(***************************************************************************)
(* The subscription of one workspace: app/billing (service.py, trial.py,   *)
(* router.py), the access gate of app/auth/dependencies.py, and what Stripe*)
(* does on its side.                                                       *)
(*                                                                         *)
(* The webhook route is a coroutine whose body never awaits once it has    *)
(* read the request, and one server process runs, so webhook events are    *)
(* handled one after the other; the process may still die between the      *)
(* commit that records an event and the commit that applies it.  The other *)
(* routes run in threads beside it.                                        *)
(***************************************************************************)
EXTENDS Integers, Sequences

CONSTANTS
  Subs,          \* Stripe subscriptions the workspace may ever have
  Requests,      \* cancel and resume requests
  LateInvoices,  \* what may still happen to a cancelled subscription's invoice
  MaxEvents,     \* bound: events Stripe emits, when they arrive in order
  MaxReordered   \* bound: events Stripe emits, when they do not

ASSUME BillingAssumption ==
  /\ "none" \notin Subs
  /\ LateInvoices \subseteq {"paid", "failed"}
  /\ MaxEvents \in Nat /\ MaxReordered \in 0..MaxEvents

VARIABLES
  sub,      \* the workspace's row of subscriptions
  done,     \* processed_stripe_events, by position in log
  hand,     \* the event recorded as processed and not yet applied (0: none)
  reqs,     \* cancel and resume requests: step, wanted flag, row as loaded
  clock,    \* the app trial: 48 hours or more left, less, or over
  stripe,   \* each subscription at Stripe
  log,      \* the events Stripe emitted, in that order
  calm      \* events arrive in order, nothing dies, the owner does one thing at a time

local == <<sub, done, hand, reqs>>
vars  == <<local, clock, stripe, log, calm>>

-----------------------------------------------------------------------------
Statuses == {"none", "incomplete", "trialing", "active", "past_due", "cancelled"}
Live     == {"trialing", "active", "past_due"}
Paying   == {"trialing", "active"}

\* `trial' is "trial_end is not NULL"; current_period_end is left out, no decision reads it.
\* Status "none": the workspace has no row.
Row == [status : Statuses, sid : Subs \cup {"none"}, trial : BOOLEAN,
        cancel : BOOLEAN, legacy : BOOLEAN]

NoRow == [status |-> "none", sid |-> "none", trial |-> FALSE,
          cancel |-> FALSE, legacy |-> FALSE]

\* create_user() grants a directly created workspace this row.
LegacyRow == [NoRow EXCEPT !.status = "active", !.legacy = TRUE]

Event == [type : {"completed", "created", "updated", "deleted", "failed", "paid"},
          of : Subs, status : Live \cup {"canceled"}, cancel : BOOLEAN, trial : BOOLEAN]

IsAppTrial == sub.status = "trialing" /\ sub.sid = "none" /\ sub.trial

\* has_active_billing_access()
HasAccess ==
  \/ sub.legacy
  \/ ~(IsAppTrial /\ clock = "over") /\ sub.status \in Paying

TypeOK ==
  /\ sub \in Row
  /\ done \subseteq 1..Len(log) /\ hand \in {0} \cup done
  /\ reqs \in [Requests -> [step : {"idle", "call", "write"}, want : BOOLEAN, seen : Row]]
  /\ clock \in {"early", "late", "over"}
  /\ stripe \in [Subs -> [status : {"absent", "open", "canceled"} \cup Live,
                          cancel : BOOLEAN, trial : BOOLEAN, owed : BOOLEAN]]
  /\ log \in Seq(Event) /\ Len(log) <= MaxEvents
  /\ calm \in BOOLEAN

NoRequest == [step |-> "idle", want |-> FALSE, seen |-> NoRow]

Init ==
  /\ sub \in {NoRow, LegacyRow}
  /\ done = {} /\ hand = 0
  /\ reqs = [r \in Requests |-> NoRequest]
  /\ clock = "early"
  /\ stripe = [s \in Subs |-> [status |-> "absent", cancel |-> FALSE, trial |-> FALSE, owed |-> FALSE]]
  /\ log = <<>>
  /\ calm \in BOOLEAN

OwnerIsFree == calm => \A r \in Requests : reqs[r].step = "idle"

-----------------------------------------------------------------------------
(* The app's own trial, started at signup or by POST /billing/trial.       *)
Trial == [NoRow EXCEPT !.status = "trialing", !.trial = TRUE]

\* Mutant: a cancelled workspace may start one too.
StartTrialAgain ==
  /\ sub.status \in {"none", "cancelled"}
  /\ sub' = Trial /\ clock' = "early"
  /\ UNCHANGED <<done, hand, reqs, stripe, log>>

StartTrial ==
  /\ sub.status = "none"
  /\ sub' = Trial /\ clock' = "early"
  /\ UNCHANGED <<done, hand, reqs, stripe, log>>

\* The trial runs from the row on; before it the clock stands still.
TimePasses ==
  /\ sub.trial
  /\ clock' = IF clock = "early" THEN "late" ELSE "over"
  /\ clock' # clock
  /\ UNCHANGED <<local, stripe, log>>

-----------------------------------------------------------------------------
(* handle_webhook(): the event's id is committed, then its handler runs.   *)
Record(i) ==
  /\ hand = 0 /\ i \in DOMAIN log
  /\ calm => \A j \in 1..(i - 1) : j \in done
  /\ done' = done \cup {i}
  /\ hand' = i
  /\ UNCHANGED <<sub, reqs, clock, stripe, log>>

\* Mutant: a redelivered event is applied again.
RecordAgain(i) == Record(i)

RecordEvent(i) == i \notin done /\ Record(i)

(* The handlers: the row each makes of the row it finds.  Reading it and    *)
(* committing it is one step: of what may commit in between, a cancel       *)
(* request writes a column no handler changes on its own account.           *)

\* Mutant: the status waits for the subscription event.
CompletedResets(e) == [sub EXCEPT !.status = "incomplete", !.sid = e.of]

\* _handle_checkout_completed(): the link, whatever the status.
Completed(e) ==
  [sub EXCEPT !.status = IF sub.status = "none" THEN "incomplete" ELSE @,
              !.sid = e.of]

\* Mutant: the flag is left to the cancel requests.
UpsertedNoFlag(e) ==
  [sub EXCEPT !.status = e.status, !.sid = e.of, !.trial = @ \/ e.trial]

\* _handle_subscription_upsert(), found by subscription or by tenant metadata.
Upserted(e) ==
  [sub EXCEPT !.status = e.status, !.sid = e.of, !.trial = @ \/ e.trial,
              !.cancel = e.cancel]

\* Mutant: Stripe's own spelling of the status is stored.
DeletedSpelled(e) == IF sub.sid = e.of THEN [sub EXCEPT !.status = "canceled"] ELSE sub

Deleted(e) == IF sub.sid = e.of THEN [sub EXCEPT !.status = "cancelled"] ELSE sub

Failed(e) == IF sub.sid = e.of THEN [sub EXCEPT !.status = "past_due"] ELSE sub

Paid(e) ==
  IF sub.sid = e.of /\ sub.status \in {"past_due", "incomplete"}
  THEN [sub EXCEPT !.status = "active"] ELSE sub

Handle ==
  /\ hand # 0
  /\ LET e == log[hand]
     IN  sub' = CASE e.type = "completed" -> Completed(e)
                  [] e.type \in {"created", "updated"} -> Upserted(e)
                  [] e.type = "deleted" -> Deleted(e)
                  [] e.type = "failed" -> Failed(e)
                  [] e.type = "paid" -> Paid(e)
  /\ hand' = 0
  /\ UNCHANGED <<done, reqs, clock, stripe, log>>

-----------------------------------------------------------------------------
(* set_cancel_at_period_end(): the row, the call to Stripe, the row.       *)
ChangeRequest(r, want) ==
  /\ reqs[r].step = "idle" /\ OwnerIsFree
  /\ sub.sid # "none"
  /\ reqs' = [reqs EXCEPT ![r] = [step |-> "call", want |-> want, seen |-> sub]]
  /\ UNCHANGED <<sub, done, hand, clock, stripe, log>>

Emit(events) ==
  /\ Len(log) + Len(events) <= IF calm THEN MaxEvents ELSE MaxReordered
  /\ log' = log \o events

\* Stripe emits the two events of one change in either order.
EmitBoth(a, b) == Emit(<<a, b>>) \/ Emit(<<b, a>>)

EventOf(s, type) ==
  [type |-> type, of |-> s, status |-> stripe'[s].status,
   cancel |-> stripe'[s].cancel, trial |-> stripe'[s].trial]

\* Stripe refuses to change a subscription that has ended.
ChangeCall(r) ==
  LET s == reqs[r].seen.sid IN
  /\ reqs[r].step = "call"
  /\ IF stripe[s].status \in Live
     THEN /\ stripe' = [stripe EXCEPT ![s].cancel = reqs[r].want]
          /\ Emit(<<EventOf(s, "updated")>>)
          /\ reqs' = [reqs EXCEPT ![r].step = "write"]
     ELSE /\ reqs' = [reqs EXCEPT ![r] = NoRequest]
          /\ UNCHANGED <<stripe, log>>
  /\ UNCHANGED <<sub, done, hand, clock>>

WriteBack(r, row) ==
  /\ reqs[r].step = "write"
  /\ sub' = row
  /\ reqs' = [reqs EXCEPT ![r] = NoRequest]
  /\ UNCHANGED <<done, hand, clock, stripe, log>>

\* Mutant: every column of the loaded row is written back.
ChangeWriteAll(r) == WriteBack(r, [reqs[r].seen EXCEPT !.cancel = reqs[r].want])

\* upsert_subscription() assigns every column its loaded value, and the flag;
\* the UPDATE holds the columns that differ from the row as loaded.
ChangeWrite(r) ==
  WriteBack(r, [sub EXCEPT !.cancel = IF reqs[r].want = reqs[r].seen.cancel THEN @ ELSE reqs[r].want])

-----------------------------------------------------------------------------
(* Checkout, and what Stripe does by itself.                               *)
Ever(s) == stripe[s].status \notin {"absent", "open"}

\* create_checkout_session(): the days left of the app trial are carried over
\* if Stripe accepts that few.
OpenCheckout(s) ==
  /\ stripe[s].status = "absent" /\ OwnerIsFree
  /\ stripe' = [stripe EXCEPT ![s].status = "open", ![s].trial = IsAppTrial /\ clock = "early"]
  /\ UNCHANGED <<local, clock, log>>

CompleteCheckout(s) ==
  /\ stripe[s].status = "open" /\ OwnerIsFree
  /\ calm => \A t \in Subs : stripe[t].status \notin Live
  /\ stripe[s].trial => clock # "over"
  /\ stripe' = [stripe EXCEPT ![s].status = IF stripe[s].trial THEN "trialing" ELSE "active"]
  /\ EmitBoth(EventOf(s, "completed"), EventOf(s, "created"))
  /\ UNCHANGED <<local, clock>>

\* A charge at the end of the trial or of a period, or of an invoice left open.
Charge(s, paid) ==
  /\ stripe[s].status \in Live
  /\ stripe[s].status = "trialing" => clock = "over"
  /\ stripe' = [stripe EXCEPT ![s].status = IF paid THEN "active" ELSE "past_due", ![s].owed = ~paid]
  /\ stripe' # stripe
  /\ EmitBoth(EventOf(s, "updated"), EventOf(s, IF paid THEN "paid" ELSE "failed"))
  /\ UNCHANGED <<local, clock>>

\* The subscription ends, at the end of its period or by the owner or by Stripe.
End(s) ==
  /\ stripe[s].status \in Live
  /\ stripe' = [stripe EXCEPT ![s].status = "canceled"]
  /\ Emit(<<EventOf(s, "deleted")>>)
  /\ UNCHANGED <<local, clock>>

LateInvoice(s, what) ==
  /\ stripe[s].status = "canceled" /\ stripe[s].owed
  /\ stripe' = [stripe EXCEPT ![s].owed = what # "paid"]
  /\ Emit(<<EventOf(s, what)>>)
  /\ UNCHANGED <<local, clock>>

\* The owner cancels or resumes in Stripe's own portal.
Portal(s, want) ==
  /\ stripe[s].status \in Live /\ stripe[s].cancel # want /\ OwnerIsFree
  /\ stripe' = [stripe EXCEPT ![s].cancel = want]
  /\ Emit(<<EventOf(s, "updated")>>)
  /\ UNCHANGED <<local, clock>>

Crash ==
  /\ ~calm
  /\ hand # 0 \/ \E r \in Requests : reqs[r].step # "idle"
  /\ hand' = 0 /\ reqs' = [r \in Requests |-> NoRequest]
  /\ UNCHANGED <<sub, done, clock, stripe, log>>

Step ==
  \/ StartTrial \/ TimePasses
  \/ \E i \in 1..MaxEvents : RecordEvent(i)
  \/ Handle
  \/ \E r \in Requests, want \in BOOLEAN : ChangeRequest(r, want)
  \/ \E r \in Requests : ChangeCall(r) \/ ChangeWrite(r)
  \/ \E s \in Subs : OpenCheckout(s) \/ CompleteCheckout(s) \/ End(s)
  \/ \E s \in Subs, b \in BOOLEAN : Charge(s, b) \/ Portal(s, b)
  \/ \E s \in Subs, what \in LateInvoices : LateInvoice(s, what)
  \/ Crash

Next == Step /\ UNCHANGED calm

Spec == Init /\ [][Next]_vars

-----------------------------------------------------------------------------
(* Whatever the order of events and wherever the process dies:             *)

\* One trial per workspace, ever: a row never returns to the app's own trial,
\* nor does a running one start over, whatever Stripe reported in between.
OneTrialEver ==
  [][/\ sub.status # "none" /\ ~IsAppTrial => ~IsAppTrial'
     /\ sub.trial /\ clock = "over" => clock' = "over"]_vars

\* Access ends for a reason: the app's trial ran out, or Stripe reported a
\* failed charge or the end.  A completed checkout, a paid invoice or a cancel
\* request never takes access away, however late it arrives.
AccessEndsForAReason ==
  [][HasAccess /\ ~HasAccess' =>
       \/ IsAppTrial /\ clock' = "over"
       \/ hand # 0 /\ (log[hand].type \in {"failed", "deleted"} \/ log[hand].status = "past_due")]_vars

(* When events arrive in the order Stripe emitted them and nothing dies:   *)

Settled == hand = 0 /\ \A i \in DOMAIN log : i \in done

Linked == {s \in Subs : Ever(s)}

\* With every event handled, the workspace is linked to its latest subscription
\* and has access exactly when that is trialing or active.
AccessFollowsStripe ==
  calm /\ Settled /\ Linked # {} =>
    /\ sub.sid \in Linked
    /\ \A s \in Linked : stripe[s].status \in Live => s = sub.sid
    /\ ~sub.legacy => (HasAccess <=> stripe[sub.sid].status \in Paying)

\* With nothing under way, the page shows the flag that Stripe acts on.
CancelFlagFollowsStripe ==
  calm /\ Settled /\ OwnerIsFree /\ sub.sid # "none" =>
    (stripe[sub.sid].status \in Live => sub.cancel = stripe[sub.sid].cancel)

\* Once the end of its subscription was applied a workspace has no access,
\* whatever a request that read the row before writes back after.
EndedStaysEnded ==
  calm /\ ~sub.legacy /\ (\E i \in done \ {hand} : log[i].type = "deleted" /\ log[i].of = sub.sid)
    => ~HasAccess

\* A workspace is let in as Stripe would have it.
AccessIsRight == AccessFollowsStripe /\ CancelFlagFollowsStripe /\ EndedStaysEnded

\* No event gives a second trial, and none takes access away but those that say so.
AccessMoves == OneTrialEver /\ AccessEndsForAReason
=============================================================================
