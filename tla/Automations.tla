---------------------------- MODULE Automations ----------------------------
(***************************************************************************)
(* One rule of one workspace evaluated against one subject: app/automations*)
(* (dispatcher.py, engine.py, actions.py, scan.py).  The subject is a quote*)
(* awaiting its customer's answer.                                         *)
(*                                                                         *)
(* An event rule is evaluated by the request that changed the subject, once*)
(* for each change; a scan rule by every run of the cron job while the     *)
(* subject is due.  Either way the engine looks for a run recorded under   *)
(* the occasion's key, performs the actions one commit after another, each *)
(* under a key of its own, and records the run.  Keys are unique in their  *)
(* tables, which is all that keeps overlapping evaluations apart.          *)
(***************************************************************************)
EXTENDS Integers, Sequences, FiniteSets

CONSTANTS
  Evals,       \* requests and jobs that may evaluate the rule at once
  Tasks,       \* actions that leave a task or a notification
  Mails,       \* actions that write to the customer
  Rules,       \* lists of actions the rule may have
  FirstRule,   \* the one it starts with
  Occasions,   \* discriminators: expiry dates of the quote, statuses of a project
  MaxFailures  \* bound: evaluations that fail or die

ASSUME AutomationsAssumption ==
  /\ Tasks \cap Mails = {}
  /\ Rules \subseteq Seq(Tasks \cup Mails)
  /\ FirstRule \in Rules /\ Occasions \subseteq Nat \ {0} /\ Occasions # {}
  /\ MaxFailures \in Nat

VARIABLES
  scanned,  \* the rule's trigger is a scan trigger
  rule,     \* its actions, whether it is enabled, whether it was edited
  subject,  \* the quote: occasion, awaiting an answer, meets the conditions, has a
            \* customer with an e-mail address
  runs,     \* automation_runs, by occasion and status
  made,     \* tasks, notifications and communications, by dedupe key
  eval,     \* what each evaluation is doing
  failures  \* evaluations that failed or died

vars == <<scanned, rule, subject, runs, made, eval, failures>>

Actions == Tasks \cup Mails

\* SUCCEEDED, and FAILED or SKIPPED: the rows that have no key, which nothing tells apart.
Statuses == {"succeeded", "unkeyed"}

\* What became of an action: done, or skipped because the quote had its answer or
\* its customer cannot be written to.
Outcomes == {"done", "answered", "unreachable"}

\* AutomationRun, with the occasion it was for; `said', its detail, tells of a success
\* what became of each action.
Run == [occasion : Occasions, status : Statuses, said : Seq(Outcomes)]

\* A row with dedupe key <occasion>#<index>, in the table of its kind; `copy'
\* tells the rows of one key apart, should there be several.
Row == [occasion : Occasions, index : Nat, action : Actions, copy : Nat]

Steps == {"idle", "changed", "lookup", "perform", "mail", "record", "fail"}

\* The quote as the evaluation's database session holds it: a query that finds it
\* again returns the copy loaded before, until a commit or rollback expires it.
Copies == {"awaiting", "answered", "expired"}

\* `fits' is what the conditions say of the subject as it was handed over.
Eval == [step : Steps, occasion : Occasions \cup {0}, fits : BOOLEAN,
         actions : Rules \cup {<<>>}, index : Nat, said : Seq(Outcomes), copy : Copies]

Idle == [step |-> "idle", occasion |-> 0, fits |-> FALSE, actions |-> <<>>, index |-> 0,
         said |-> <<>>, copy |-> "expired"]

TypeOK ==
  /\ scanned \in BOOLEAN
  /\ rule \in [actions : Rules, enabled : BOOLEAN, edited : BOOLEAN]
  /\ subject \in [occasion : Occasions, awaiting : BOOLEAN, fits : BOOLEAN, reachable : BOOLEAN]
  /\ runs \subseteq Run
  /\ made \subseteq Row
  /\ eval \in [Evals -> Eval]
  /\ failures \in 0..MaxFailures

Init ==
  /\ scanned \in BOOLEAN
  /\ rule = [actions |-> FirstRule, enabled |-> TRUE, edited |-> FALSE]
  /\ subject \in [occasion : {o \in Occasions : \A p \in Occasions : o <= p}, awaiting : {TRUE},
                 fits : BOOLEAN, reachable : BOOLEAN]
  /\ eval = [e \in Evals |-> Idle]
  /\ runs = {} /\ made = {} /\ failures = 0

Step(e, s)    == eval' = [eval EXCEPT ![e].step = s]
Leave(e)      == eval' = [eval EXCEPT ![e] = Idle]
At(e, s)      == eval[e].step = s
ActionOf(e)   == eval[e].actions[eval[e].index]
Live          == IF subject.awaiting THEN "awaiting" ELSE "answered"
SameTable(a, b) == (a \in Tasks) <=> (b \in Tasks)

\* The rows under the key an action would write.
Keyed(e) ==
  {r \in made : /\ r.occasion = eval[e].occasion /\ r.index = eval[e].index
                /\ SameTable(r.action, ActionOf(e))}

-----------------------------------------------------------------------------
(* What the workspace does meanwhile.                                      *)

\* The rule is given other actions or switched off: update_automation().  Deletion is left
\* out: it takes the rule's runs with it.  Bound: one edit, of one or the other.
EditRule ==
  /\ ~rule.edited
  /\ \/ \E a \in Rules \ {rule.actions} : rule' = [rule EXCEPT !.actions = a, !.edited = TRUE]
     \/ rule' = [rule EXCEPT !.enabled = FALSE, !.edited = TRUE]
  /\ UNCHANGED <<scanned, subject, runs, made, eval, failures>>

\* The customer answers, the expiry date moves, or the subject comes to
\* meet the conditions.  Bounds: the date only moves forward, the subject keeps fitting,
\* its customer keeps or lacks an address throughout.
Answer ==
  /\ subject.awaiting
  /\ subject' = [subject EXCEPT !.awaiting = FALSE]
  /\ UNCHANGED <<scanned, rule, runs, made, eval, failures>>

Reschedule ==
  /\ \E o \in Occasions : o > subject.occasion /\ subject' = [subject EXCEPT !.occasion = o]
  /\ UNCHANGED <<scanned, rule, runs, made, eval, failures>>

Drift ==
  /\ ~subject.fits
  /\ subject' = [subject EXCEPT !.fits = TRUE]
  /\ UNCHANGED <<scanned, rule, runs, made, eval, failures>>

-----------------------------------------------------------------------------
(* How an evaluation begins.                                               *)

\* The subject is read from the loaded quote.  Bound: the rule is the first its session
\* evaluates; the commits of another would have expired the copy, and the check in
\* actions.py would read the row itself.
HandOver(e, s) ==
  eval' = [eval EXCEPT ![e] = [Idle EXCEPT !.step = s, !.occasion = subject.occasion,
                                           !.fits = subject.fits, !.copy = Live]]

\* A request commits a change to the subject ...
Change(e) ==
  /\ At(e, "idle") /\ ~scanned
  /\ HandOver(e, "changed")
  /\ UNCHANGED <<scanned, rule, subject, runs, made, failures>>

\* ... and dispatches it to the rules enabled then.
Dispatch(e) ==
  /\ At(e, "changed")
  /\ IF rule.enabled THEN Step(e, "lookup") ELSE Leave(e)
  /\ UNCHANGED <<scanned, rule, subject, runs, made, failures>>

\* The scan finds the subject due; a quote that has its answer is not.
Scan(e) ==
  /\ At(e, "idle") /\ scanned
  /\ rule.enabled /\ subject.awaiting
  /\ HandOver(e, "lookup")
  /\ UNCHANGED <<scanned, rule, subject, runs, made, failures>>

-----------------------------------------------------------------------------
(* run_for_subject()                                                       *)
Succeeded(o) == \E r \in runs : r.occasion = o /\ r.status = "succeeded"

\* The occasion has succeeded before: the engine passes on, and leaves no row.
Found(e) ==
  /\ At(e, "lookup") /\ Succeeded(eval[e].occasion)
  /\ Leave(e)
  /\ UNCHANGED <<scanned, rule, subject, runs, made, failures>>

\* Mutant: the key leaves the discriminator out.
LogBlank(e, status, said) ==
  runs' = runs \cup {[occasion |-> 0, status |-> status, said |-> said]}

Log(e, status, said) ==
  runs' = runs \cup {[occasion |-> eval[e].occasion, status |-> status, said |-> said]}

\* Mutant: a rule that declines leaves no row.
SkipSilently(e) ==
  /\ At(e, "lookup") /\ ~Succeeded(eval[e].occasion) /\ ~eval[e].fits
  /\ Leave(e)
  /\ UNCHANGED <<scanned, rule, subject, runs, made, failures>>

\* The conditions are not met: the row has no key, and stands in nobody's way.
Skip(e) ==
  /\ At(e, "lookup") /\ ~Succeeded(eval[e].occasion) /\ ~eval[e].fits
  /\ Log(e, "unkeyed", <<>>)
  /\ Leave(e)
  /\ UNCHANGED <<scanned, rule, subject, made, failures>>

\* They are met: the actions are those the rule has now.
Begin(e) ==
  /\ At(e, "lookup") /\ ~Succeeded(eval[e].occasion) /\ eval[e].fits
  /\ eval' = [eval EXCEPT ![e] =
       [eval[e] EXCEPT !.step = IF rule.actions = <<>> THEN "record" ELSE "perform",
                       !.actions = rule.actions, !.index = 1]]
  /\ UNCHANGED <<scanned, rule, subject, runs, made, failures>>

\* On to the next action, or to the record of the run.
Proceed(e, outcome, copy) ==
  eval' = [eval EXCEPT ![e] =
    [eval[e] EXCEPT !.said  = Append(@, outcome),
                    !.copy  = copy,
                    !.index = @ + 1,
                    !.step  = IF eval[e].index < Len(eval[e].actions) THEN "perform" ELSE "record"]]

NewRow(e) == [occasion |-> eval[e].occasion, index |-> eval[e].index,
              action |-> ActionOf(e), copy |-> Cardinality(Keyed(e))]

\* Mutant: the row is written whatever key is taken.
WriteAgain(e) ==
  made' = made \cup {NewRow(e)}

\* The row is written under the action's key, or there already: looked up first, and
\* refused by the unique key when another evaluation was faster.
Write(e) ==
  made' = IF Keyed(e) # {} THEN made ELSE made \cup {NewRow(e)}

\* create_task, create_notification, draft_message.  The commit expires the loaded quote;
\* a row already there does so only when the unique key refused the new one.
PerformTask(e) ==
  /\ At(e, "perform") /\ ActionOf(e) \in Tasks
  /\ Write(e)
  /\ \E c \in {"expired"} \cup (IF Keyed(e) = {} THEN {} ELSE {eval[e].copy}) :
       Proceed(e, "done", c)
  /\ UNCHANGED <<scanned, rule, subject, runs, failures>>

\* Mutant: the follow-up does not check the quote again.
ChaseAnyway(e) ==
  /\ At(e, "perform") /\ ActionOf(e) \in Mails
  /\ Step(e, "mail")
  /\ UNCHANGED <<scanned, rule, subject, runs, made, failures>>

\* send_quote_follow_up: the quote's status is checked again, in the copy the session
\* holds if it still holds one.  An answered quote, and a customer that is missing or has
\* no e-mail address, end the action in good order ...
Recheck(e) ==
  /\ At(e, "perform") /\ ActionOf(e) \in Mails
  /\ LET seen == IF eval[e].copy = "expired" THEN Live ELSE eval[e].copy
     IN  IF seen = "answered" THEN Proceed(e, "answered", seen)
         ELSE IF ~subject.reachable THEN Proceed(e, "unreachable", seen)
         ELSE eval' = [eval EXCEPT ![e] = [eval[e] EXCEPT !.step = "mail", !.copy = seen]]
  /\ UNCHANGED <<scanned, rule, subject, runs, made, failures>>

\* ... and a message sent, by way of a fresh portal link, which commits.  A failed
\* delivery is a row too.
PerformMail(e) ==
  /\ At(e, "mail")
  /\ Write(e)
  /\ Proceed(e, "done", "expired")
  /\ UNCHANGED <<scanned, rule, subject, runs, failures>>

\* An action raises: what earlier ones committed stays, the rest is rolled back.
Break(e) ==
  /\ \/ At(e, "perform")
     \/ At(e, "mail")
  /\ failures < MaxFailures
  /\ failures' = failures + 1
  /\ eval' = [eval EXCEPT ![e] = [Idle EXCEPT !.step = "fail", !.occasion = eval[e].occasion]]
  /\ UNCHANGED <<scanned, rule, subject, runs, made>>

\* Mutant: a failed run keeps its key.
FailForGood(e) ==
  /\ At(e, "fail")
  /\ Log(e, "succeeded", <<>>)
  /\ Leave(e)
  /\ UNCHANGED <<scanned, rule, subject, made, failures>>

Fail(e) ==
  /\ At(e, "fail")
  /\ Log(e, "unkeyed", <<>>)
  /\ Leave(e)
  /\ UNCHANGED <<scanned, rule, subject, made, failures>>

\* Mutant: no key, no row to find the next time.
RecordUnkeyed(e) ==
  /\ At(e, "record")
  /\ Log(e, "unkeyed", <<>>)
  /\ Leave(e)
  /\ UNCHANGED <<scanned, rule, subject, made, failures>>

\* _record(): the row, or another evaluation's row under the same key.
Record(e) ==
  /\ At(e, "record")
  /\ IF Succeeded(eval[e].occasion) THEN UNCHANGED runs
                                    ELSE Log(e, "succeeded", eval[e].said)
  /\ Leave(e)
  /\ UNCHANGED <<scanned, rule, subject, made, failures>>

\* The process dies between two commits.
Die(e) ==
  /\ ~At(e, "idle")
  /\ failures < MaxFailures
  /\ failures' = failures + 1
  /\ Leave(e)
  /\ UNCHANGED <<scanned, rule, subject, runs, made>>

Evaluate(e) ==
  \/ Dispatch(e) \/ Found(e) \/ Skip(e) \/ Begin(e) \/ PerformTask(e)
  \/ Recheck(e) \/ PerformMail(e) \/ Fail(e) \/ Record(e)

Next ==
  \/ EditRule \/ Answer \/ Reschedule \/ Drift
  \/ \E e \in Evals : Change(e) \/ Scan(e) \/ Evaluate(e) \/ Break(e) \/ Die(e)

Spec == Init /\ [][Next]_vars

\* The cron job runs again and again, and an evaluation that runs gets to its end.
FairSpec == Spec /\ \A e \in Evals : WF_vars(Scan(e)) /\ WF_vars(Evaluate(e))

-----------------------------------------------------------------------------
\* A run recorded as succeeded tells the truth of each action of its rule: what it calls
\* done has left its row, and it skips only messages, for an answer that was there or a
\* customer who could not be written to.  An edit in between may make a key stand for
\* another action.
SucceededIsDone ==
  rule.edited \/
    \A r \in runs : r.status = "succeeded" =>
      \A i \in 1..Len(rule.actions) :
        /\ i <= Len(r.said)
        /\ r.said[i] = "done" =>
             \E m \in made : m.occasion = r.occasion /\ m.index = i /\ m.action = rule.actions[i]
        /\ r.said[i] # "done" => rule.actions[i] \in Mails
        /\ r.said[i] = "answered" => ~subject.awaiting
        /\ r.said[i] = "unreachable" => ~subject.reachable

\* However often an occasion is evaluated, and by however many at once, an
\* action leaves one row.
WorkIsDoneOnce ==
  \A r, s \in made :
    r.occasion = s.occasion /\ r.index = s.index /\ SameTable(r.action, s.action) => r = s

\* A message is written after the customer's answer only by an evaluation whose session
\* loaded the quote before the answer and still holds that copy: the check in actions.py
\* is not, as its comment has it, against the live row.
NoFollowUpAfterAnswer ==
  [][~subject.awaiting =>
       /\ \A e \in Evals : eval'[e].copy = "awaiting" => eval[e].copy = "awaiting"
       /\ (\E r \in made' \ made : r.action \in Mails) =>
            \E e \in Evals : At(e, "mail") /\ eval[e].copy = "awaiting"]_vars

\* An evaluation that gets to its end leaves a row behind, unless the occasion has
\* succeeded: then it ends in silence, and the row there is tells of another attempt.
AttemptIsVisible ==
  [][\A e \in Evals :
       ~At(e, "idle") /\ ~At(e, "changed") /\ At(e, "idle")' /\ failures' = failures =>
         \/ Succeeded(eval[e].occasion)
         \/ \E r \in runs' : /\ r.occasion = eval[e].occasion
                            /\ At(e, "record") <=> r.status = "succeeded"]_vars

\* What a step of an evaluation may do: chase nobody it could know to have answered, and
\* end without a trace only where there is nothing left to do.
EvaluationsAreFair == NoFollowUpAfterAnswer /\ AttemptIsVisible

\* A due occasion of a scan rule is tried again until it succeeds, whatever
\* failed before, as long as the subject stays due and fits.
DueIsDone ==
  \A o \in Occasions :
    scanned /\ subject.occasion = o ~>
      Succeeded(o) \/ subject.occasion # o \/ ~subject.awaiting \/ ~subject.fits \/ ~rule.enabled
=============================================================================
