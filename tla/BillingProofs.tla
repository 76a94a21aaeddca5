---------------------------- MODULE BillingProofs ----------------------------
(***************************************************************************)
(* Theorems about Billing, for any subscriptions and requests, events in   *)
(* any order, lost or late, and any number of them.                        *)
(***************************************************************************)
EXTENDS Billing, TLAPS

(* An event that says how a subscription stands names one that had begun,  *)
(* a request that is under way has loaded a linked row, and a workspace    *)
(* without a row has nothing of one.                                       *)
EventsAreTrue ==
  \A i \in 1..Len(log) : log[i].type \in {"completed", "created", "updated"} => log[i].status \in Live

RequestsAreLinked == \A r \in Requests : reqs[r].step # "idle" => reqs[r].seen.sid \in Subs

NoRowIsEmpty == sub.status = "none" => sub.sid = "none" /\ ~sub.trial /\ ~sub.legacy

IInv == TypeOK /\ EventsAreTrue /\ RequestsAreLinked /\ NoRowIsEmpty

-----------------------------------------------------------------------------
(* What Emit does to the log: events are added at its end.                 *)
IsTrue(e) == e \in Event /\ (e.type \in {"completed", "created", "updated"} => e.status \in Live)

LEMMA Emitted ==
  ASSUME IInv, NEW new \in Seq(Event), \A k \in 1..Len(new) : IsTrue(new[k]), Emit(new)
  PROVE  /\ log' \in Seq(Event) /\ Len(log') <= MaxEvents
         /\ Len(log') = Len(log) + Len(new)
         /\ \A i \in 1..Len(log) : log'[i] = log[i]
         /\ EventsAreTrue'
<1>1. log \in Seq(Event) /\ Len(log) \in Nat /\ Len(new) \in Nat
  BY DEF IInv, TypeOK
<1>2. /\ log' = log \o new
      /\ Len(log) + Len(new) <= MaxEvents
  BY <1>1, BillingAssumption DEF Emit, BillingAssumption, IInv, TypeOK
<1>3. log' \in Seq(Event) /\ Len(log') = Len(log) + Len(new)
  BY <1>1, <1>2
<1>4. \A i \in 1..Len(log') :
        log'[i] = IF i <= Len(log) THEN log[i] ELSE new[i - Len(log)]
  BY <1>1, <1>2
<1>5. EventsAreTrue'
  <2> SUFFICES ASSUME NEW i \in 1..Len(log'),
                      log'[i].type \in {"completed", "created", "updated"}
               PROVE  log'[i].status \in Live
    BY DEF EventsAreTrue
  <2>1. CASE i <= Len(log)
    BY <1>1, <1>4, <2>1 DEF IInv, EventsAreTrue
  <2>2. CASE ~(i <= Len(log))
    <3>1. i - Len(log) \in 1..Len(new)
      BY <1>1, <1>3, <2>2
    <3> QED BY <1>1, <1>4, <2>2, <3>1 DEF IsTrue
  <2> QED BY <2>1, <2>2
<1> QED BY <1>1, <1>2, <1>3, <1>4, <1>5

LEMMA EmitOne ==
  ASSUME IInv, NEW e, IsTrue(e), Emit(<<e>>)
  PROVE  /\ log' \in Seq(Event) /\ Len(log') <= MaxEvents
         /\ Len(log') = Len(log) + 1
         /\ \A i \in 1..Len(log) : log'[i] = log[i]
         /\ EventsAreTrue'
<1>1. <<e>> \in Seq(Event) /\ Len(<<e>>) = 1 /\ \A k \in 1..1 : <<e>>[k] = e
  BY DEF IsTrue
<1> QED BY <1>1, Emitted

LEMMA EmitTwo ==
  ASSUME IInv, NEW a, NEW b, IsTrue(a), IsTrue(b), EmitBoth(a, b)
  PROVE  /\ log' \in Seq(Event) /\ Len(log') <= MaxEvents
         /\ Len(log') = Len(log) + 2
         /\ \A i \in 1..Len(log) : log'[i] = log[i]
         /\ EventsAreTrue'
<1>1. ASSUME NEW x, NEW y, IsTrue(x), IsTrue(y), Emit(<<x, y>>)
      PROVE  /\ log' \in Seq(Event) /\ Len(log') <= MaxEvents
             /\ Len(log') = Len(log) + 2
             /\ \A i \in 1..Len(log) : log'[i] = log[i]
             /\ EventsAreTrue'
  <2>1. /\ <<x, y>> \in Seq(Event) /\ Len(<<x, y>>) = 2
        /\ \A k \in 1..2 : <<x, y>>[k] = x \/ <<x, y>>[k] = y
    BY <1>1 DEF IsTrue
  <2>2. \A k \in 1..Len(<<x, y>>) : IsTrue(<<x, y>>[k])
    BY <1>1, <2>1
  <2> QED BY <1>1, <2>1, <2>2, Emitted
<1> QED BY <1>1 DEF EmitBoth

-----------------------------------------------------------------------------
LEMMA NoRequestIsOne ==
  /\ NoRequest \in [step : {"idle", "call", "write"}, want : BOOLEAN, seen : Row]
  /\ NoRequest.step = "idle"
BY DEF NoRequest, NoRow, Row, Statuses

LEMMA InitIInv ==
  ASSUME Init
  PROVE  IInv
<1>2. NoRow \in Row
  BY DEF Row, NoRow, Statuses
<1>1. sub \in Row /\ NoRowIsEmpty
  <2>1. CASE sub = NoRow
    BY <1>2, <2>1 DEF NoRowIsEmpty, NoRow
  <2>2. CASE sub = LegacyRow
    <3>1. LegacyRow \in Row
      BY <1>2 DEF LegacyRow, Row, Statuses
    <3>2. LegacyRow.status # "none"
      BY <1>2 DEF LegacyRow, Row
    <3> QED BY <2>2, <3>1, <3>2 DEF NoRowIsEmpty
  <2> QED BY <2>1, <2>2 DEF Init
<1>3. /\ done \subseteq 1..Len(log) /\ hand \in {0} \cup done
      /\ log \in Seq(Event) /\ Len(log) = 0 /\ Len(log) <= MaxEvents
  BY BillingAssumption DEF Init, BillingAssumption
<1>4. reqs \in [Requests -> [step : {"idle", "call", "write"}, want : BOOLEAN, seen : Row]]
  BY <1>2 DEF Init, NoRequest
<1>5. stripe \in [Subs -> [status : {"absent", "open", "canceled"} \cup Live,
                           cancel : BOOLEAN, trial : BOOLEAN, owed : BOOLEAN]]
  BY DEF Init
<1>6. TypeOK
  BY <1>1, <1>3, <1>4, <1>5 DEF Init, TypeOK
<1>7. EventsAreTrue /\ RequestsAreLinked
  BY <1>3 DEF Init, EventsAreTrue, RequestsAreLinked, NoRequest
<1> QED BY <1>1, <1>6, <1>7 DEF IInv

(* The steps of the workspace and its clock.                               *)
LEMMA TrialStep ==
  ASSUME IInv, UNCHANGED calm, StartTrial \/ TimePasses
  PROVE  IInv'
<1>1. Trial \in Row
  BY DEF Trial, Row, NoRow, Statuses
<1>2. CASE StartTrial
  BY <1>1, <1>2 DEF StartTrial, IInv, TypeOK, EventsAreTrue, RequestsAreLinked, NoRowIsEmpty,
       Trial, NoRow
<1>3. CASE TimePasses
  BY <1>3 DEF TimePasses, local, IInv, TypeOK, EventsAreTrue, RequestsAreLinked, NoRowIsEmpty
<1> QED BY <1>2, <1>3

LEMMA RecordStep ==
  ASSUME IInv, UNCHANGED calm, NEW i \in 1..MaxEvents, RecordEvent(i)
  PROVE  IInv'
BY DEF RecordEvent, Record, IInv, TypeOK, EventsAreTrue, RequestsAreLinked, NoRowIsEmpty

(* A handler makes a row of a row, and never the row of a workspace        *)
(* without one.                                                            *)
LEMMA HandleStep ==
  ASSUME IInv, UNCHANGED calm, Handle
  PROVE  IInv'
<1> DEFINE e == log[hand]
<1>1. hand \in 1..Len(log) /\ e \in Event
  BY DEF Handle, IInv, TypeOK
<1>2. e.type \in {"created", "updated"} => e.status \in Live
  BY <1>1 DEF IInv, EventsAreTrue
<1>3. sub' \in Row /\ NoRowIsEmpty'
  <2>1. CASE e.type = "completed"
    BY <1>1, <2>1 DEF Handle, Completed, IInv, TypeOK, NoRowIsEmpty, Row, Event, Statuses
  <2>2. CASE e.type \in {"created", "updated"}
    BY <1>1, <1>2, <2>2 DEF Handle, Upserted, IInv, TypeOK, NoRowIsEmpty, Row, Event, Statuses, Live
  <2>3. CASE e.type = "deleted"
    BY <1>1, <2>3 DEF Handle, Deleted, IInv, TypeOK, NoRowIsEmpty, Row, Event, Statuses
  <2>4. CASE e.type = "failed"
    BY <1>1, <2>4 DEF Handle, Failed, IInv, TypeOK, NoRowIsEmpty, Row, Event, Statuses
  <2>5. CASE e.type = "paid"
    BY <1>1, <2>5 DEF Handle, Paid, IInv, TypeOK, NoRowIsEmpty, Row, Event, Statuses
  <2> QED BY <1>1, <2>1, <2>2, <2>3, <2>4, <2>5 DEF Event
<1> QED BY <1>3 DEF Handle, IInv, TypeOK, EventsAreTrue, RequestsAreLinked

-----------------------------------------------------------------------------
(* What Stripe does: an event about a subscription that has begun.         *)
StripeOK ==
  stripe' \in [Subs -> [status : {"absent", "open", "canceled"} \cup Live,
                        cancel : BOOLEAN, trial : BOOLEAN, owed : BOOLEAN]]

(* After a step of Stripe's the rest of the invariant is as it was.        *)
LEMMA Outside ==
  ASSUME IInv, UNCHANGED <<sub, done, hand, clock, calm>>, StripeOK,
         reqs' \in [Requests -> [step : {"idle", "call", "write"}, want : BOOLEAN, seen : Row]],
         RequestsAreLinked', EventsAreTrue',
         log' \in Seq(Event), Len(log') <= MaxEvents, Len(log') >= Len(log)
  PROVE  IInv'
<1>1. 1..Len(log) \subseteq 1..Len(log')
  BY DEF IInv, TypeOK
<1> QED BY <1>1 DEF IInv, TypeOK, StripeOK, NoRowIsEmpty

LEMMA RequestStep ==
  ASSUME IInv, UNCHANGED calm, NEW r \in Requests,
         \/ \E want \in BOOLEAN : ChangeRequest(r, want)
         \/ ChangeCall(r) \/ ChangeWrite(r)
  PROVE  IInv'
<1> USE DEF IInv
<1>1. ASSUME NEW want \in BOOLEAN, ChangeRequest(r, want)
      PROVE  IInv'
  BY <1>1 DEF ChangeRequest, TypeOK, EventsAreTrue, RequestsAreLinked, NoRowIsEmpty, Row
<1>2. CASE ChangeWrite(r)
  BY <1>2, NoRequestIsOne DEF ChangeWrite, WriteBack, TypeOK, EventsAreTrue, RequestsAreLinked,
       NoRowIsEmpty, Row, Statuses
<1>3. CASE ChangeCall(r)
  <2> DEFINE s == reqs[r].seen.sid
  <2>1. s \in Subs
    BY <1>3 DEF ChangeCall, RequestsAreLinked
  <2>2. CASE stripe[s].status \in Live
    <3>1. /\ stripe' = [stripe EXCEPT ![s].cancel = reqs[r].want]
          /\ Emit(<<EventOf(s, "updated")>>)
          /\ reqs' = [reqs EXCEPT ![r].step = "write"]
      BY <1>3, <2>2 DEF ChangeCall
    <3>2. StripeOK /\ stripe'[s].status \in Live
      BY ZenonT(40), <2>1, <2>2, <3>1 DEF StripeOK, TypeOK
    <3>3. IsTrue(EventOf(s, "updated"))
      BY <2>1, <3>2 DEF StripeOK, IsTrue, EventOf, Event
    <3>4. /\ log' \in Seq(Event) /\ Len(log') <= MaxEvents
          /\ Len(log') = Len(log) + 1 /\ EventsAreTrue'
      BY <3>1, <3>3, EmitOne
    <3>5. RequestsAreLinked' /\ reqs' \in [Requests -> [step : {"idle", "call", "write"}, want : BOOLEAN, seen : Row]]
      BY <2>1, <3>1 DEF RequestsAreLinked, TypeOK
    <3>6. Len(log') >= Len(log)
      BY <3>4 DEF TypeOK
    <3> QED BY <1>3, <3>2, <3>4, <3>5, <3>6, Outside DEF ChangeCall
  <2>3. CASE stripe[s].status \notin Live
    BY SMTT(30), <1>3, <2>3, NoRequestIsOne DEF ChangeCall, TypeOK, EventsAreTrue, RequestsAreLinked, NoRowIsEmpty
  <2> QED BY <2>2, <2>3
<1> QED BY <1>1, <1>2, <1>3

LEMMA StripeStep ==
  ASSUME IInv, UNCHANGED calm, NEW s \in Subs,
         \/ OpenCheckout(s) \/ CompleteCheckout(s) \/ End(s)
         \/ \E b \in BOOLEAN : Charge(s, b) \/ Portal(s, b)
         \/ \E what \in LateInvoices : LateInvoice(s, what)
  PROVE  IInv'
<1> USE DEF IInv
<1>1. CASE OpenCheckout(s)
  <2>1. (IsAppTrial /\ clock = "early") \in BOOLEAN
    BY Zenon
  <2>2. PICK b \in BOOLEAN : stripe' = [stripe EXCEPT ![s].status = "open", ![s].trial = b]
    BY <1>1, <2>1 DEF OpenCheckout
  <2>3. StripeOK
    BY <2>2 DEF StripeOK, TypeOK
  <2>4. UNCHANGED <<sub, done, hand, clock, calm>> /\ log' = log /\ reqs' = reqs
    BY <1>1 DEF OpenCheckout, local
  <2>5. EventsAreTrue' /\ RequestsAreLinked'
    BY <1>1, <2>2, <2>4 DEF OpenCheckout, TypeOK, EventsAreTrue, RequestsAreLinked, IsTrue
  <2> QED BY <2>3, <2>4, <2>5 DEF StripeOK, TypeOK, NoRowIsEmpty
<1>2. ASSUME NEW a \in {"completed", "updated"},
             NEW b \in {"created", "paid", "failed"},
             StripeOK, stripe'[s].status \in Live,
             EmitBoth(EventOf(s, a), EventOf(s, b)), UNCHANGED <<local, clock>>
      PROVE  IInv'
  <2>1. IsTrue(EventOf(s, a)) /\ IsTrue(EventOf(s, b))
    BY <1>2 DEF StripeOK, IsTrue, EventOf, Event
  <2>2. /\ log' \in Seq(Event) /\ Len(log') <= MaxEvents
        /\ Len(log') = Len(log) + 2 /\ EventsAreTrue'
    BY <1>2, <2>1, EmitTwo
  <2>3. Len(log') >= Len(log)
    BY <2>2 DEF TypeOK
  <2> QED BY <1>2, <2>2, <2>3, Outside DEF local, TypeOK, RequestsAreLinked
<1>3. ASSUME StripeOK, NEW e, IsTrue(e), Emit(<<e>>), UNCHANGED <<local, clock>>
      PROVE  IInv'
  <2>1. /\ log' \in Seq(Event) /\ Len(log') <= MaxEvents
        /\ Len(log') = Len(log) + 1 /\ EventsAreTrue'
    BY <1>3, EmitOne
  <2>2. Len(log') >= Len(log)
    BY <2>1 DEF TypeOK
  <2> QED BY <1>3, <2>1, <2>2, Outside DEF local, TypeOK, RequestsAreLinked
<1>4. CASE CompleteCheckout(s)
  <2>1. StripeOK /\ stripe'[s].status \in Live
    BY <1>4 DEF CompleteCheckout, StripeOK, TypeOK, Live
  <2> QED BY <1>2, <1>4, <2>1 DEF CompleteCheckout
<1>5. ASSUME NEW b \in BOOLEAN, Charge(s, b)
      PROVE  IInv'
  <2>1. CASE b = TRUE
    <3>1. /\ stripe' = [stripe EXCEPT ![s].status = "active", ![s].owed = FALSE]
          /\ EmitBoth(EventOf(s, "updated"), EventOf(s, "paid"))
      BY <1>5, <2>1 DEF Charge
    <3>2. StripeOK /\ stripe'[s].status \in Live
      BY ZenonT(40), <3>1 DEF StripeOK, TypeOK, Live
    <3> QED BY <1>2, <1>5, <3>1, <3>2 DEF Charge
  <2>2. CASE b = FALSE
    <3>1. /\ stripe' = [stripe EXCEPT ![s].status = "past_due", ![s].owed = TRUE]
          /\ EmitBoth(EventOf(s, "updated"), EventOf(s, "failed"))
      BY <1>5, <2>2 DEF Charge
    <3>2. StripeOK /\ stripe'[s].status \in Live
      BY ZenonT(40), <3>1 DEF StripeOK, TypeOK, Live
    <3> QED BY <1>2, <1>5, <3>1, <3>2 DEF Charge
  <2> QED BY <2>1, <2>2
<1>6. ASSUME NEW b \in BOOLEAN, Portal(s, b)
      PROVE  IInv'
  <2>1. StripeOK /\ stripe'[s].status \in Live
    BY <1>6 DEF Portal, StripeOK, TypeOK
  <2>2. IsTrue(EventOf(s, "updated"))
    BY <2>1 DEF StripeOK, IsTrue, EventOf, Event
  <2> QED BY <1>3, <1>6, <2>1, <2>2 DEF Portal
<1>7. CASE End(s)
  <2>1. StripeOK /\ stripe'[s].status = "canceled"
    BY <1>7 DEF End, StripeOK, TypeOK
  <2>2. IsTrue(EventOf(s, "deleted"))
    BY <2>1 DEF StripeOK, IsTrue, EventOf, Event
  <2> QED BY <1>3, <1>7, <2>1, <2>2 DEF End
<1>8. ASSUME NEW what \in LateInvoices, LateInvoice(s, what)
      PROVE  IInv'
  <2>1. (what # "paid") \in BOOLEAN
    BY Zenon
  <2>2. StripeOK /\ stripe'[s].status = "canceled"
    <3>1. PICK b \in BOOLEAN : stripe' = [stripe EXCEPT ![s].owed = b]
      BY <1>8, <2>1 DEF LateInvoice
    <3> QED BY <1>8, <3>1 DEF LateInvoice, StripeOK, TypeOK
  <2>3. IsTrue(EventOf(s, what))
    BY <2>2, BillingAssumption DEF StripeOK, IsTrue, EventOf, Event, BillingAssumption
  <2> QED BY <1>3, <1>8, <2>2, <2>3 DEF LateInvoice
<1> QED BY <1>1, <1>4, <1>5, <1>6, <1>7, <1>8

LEMMA NextIInv ==
  ASSUME IInv, [Next]_vars
  PROVE  IInv'
<1>1. CASE UNCHANGED vars
  BY <1>1 DEF vars, local, IInv, TypeOK, EventsAreTrue, RequestsAreLinked, NoRowIsEmpty
<1>2. CASE Next
  <2>1. CASE Crash
    <3>1. UNCHANGED calm
      BY <1>2 DEF Next
    <3> QED BY <2>1, <3>1, NoRequestIsOne
            DEF Crash, IInv, TypeOK, EventsAreTrue, RequestsAreLinked, NoRowIsEmpty
  <2> QED BY <1>2, <2>1, TrialStep, RecordStep, HandleStep, RequestStep, StripeStep DEF Next, Step
<1> QED BY <1>1, <1>2

(* The row, the requests, the events and Stripe's own records are well     *)
(* formed, whatever order events arrive in (TypeOK).                       *)
THEOREM TypeCorrect == Spec => []TypeOK
<1>1. IInv => TypeOK
  BY DEF IInv
<1> QED BY <1>1, InitIInv, NextIInv, PTL DEF Spec

-----------------------------------------------------------------------------
(* A row that has left the app's own trial never returns to it: only       *)
(* StartTrial makes such a row, and only where there is none.              *)
LEMMA TrialMoves ==
  ASSUME IInv, [Next]_vars
  PROVE  /\ sub.status # "none" /\ ~IsAppTrial => ~IsAppTrial'
         /\ sub.trial /\ clock = "over" => clock' = "over"
<1>1. CASE UNCHANGED vars
  BY <1>1 DEF vars, local, IsAppTrial
<1>2. CASE StartTrial
  BY <1>2 DEF StartTrial, IInv, NoRowIsEmpty
<1>3. CASE TimePasses
  BY <1>3 DEF TimePasses, local, IsAppTrial, IInv, TypeOK
<1>4. CASE Handle
  <2>1. hand \in 1..Len(log) /\ log[hand] \in Event
    BY <1>4 DEF Handle, IInv, TypeOK
  <2>2. sub' = sub \/ sub'.sid \in Subs
    BY <1>4, <2>1 DEF Handle, Completed, Upserted, Deleted, Failed, Paid, IInv, TypeOK, Row, Event
  <2>3. sub' # sub => ~IsAppTrial'
    BY <2>2, BillingAssumption DEF IsAppTrial, BillingAssumption
  <2> QED BY <1>4, <2>3 DEF Handle, IsAppTrial
<1>5. ASSUME NEW r \in Requests, ChangeWrite(r)
      PROVE  UNCHANGED clock /\ (IsAppTrial' => IsAppTrial)
  BY <1>5 DEF ChangeWrite, WriteBack, IsAppTrial, IInv, TypeOK, Row
<1>6. CASE UNCHANGED <<sub, clock>>
  BY <1>6 DEF IsAppTrial
<1>7. CASE Next
  BY <1>2, <1>3, <1>4, <1>5, <1>6, <1>7 DEF Next, Step, RecordEvent, Record, ChangeRequest, ChangeCall,
       OpenCheckout, CompleteCheckout, End, Charge, Portal, LateInvoice, Crash, local
<1> QED BY <1>1, <1>7

(* Access ends with the trial, or with an event that says so: of the       *)
(* handlers only those of such events write a status without access.       *)
LEMMA AccessStep ==
  ASSUME IInv, [Next]_vars, HasAccess, ~HasAccess'
  PROVE  \/ IsAppTrial /\ clock' = "over"
         \/ hand # 0 /\ (log[hand].type \in {"failed", "deleted"} \/ log[hand].status = "past_due")
<1>1. CASE StartTrial
  BY <1>1 DEF StartTrial, IInv, NoRowIsEmpty, HasAccess, Paying
<1>2. CASE TimePasses
  BY <1>2 DEF TimePasses, local, HasAccess, IsAppTrial, IInv, TypeOK
<1>3. CASE Handle
  <2> DEFINE e == log[hand]
  <2>1. hand # 0 /\ hand \in 1..Len(log) /\ e \in Event /\ sub \in Row
    BY <1>3 DEF Handle, IInv, TypeOK
  <2>2. CASE e.type = "completed"
    BY <1>3, <2>1, <2>2, BillingAssumption
       DEF Handle, Completed, HasAccess, IsAppTrial, Paying, Row, Event, BillingAssumption
  <2>3. CASE e.type \in {"created", "updated"} /\ e.status # "past_due"
    <3>1. e.status \in Paying
      BY <2>1, <2>3 DEF IInv, EventsAreTrue, Live, Paying
    <3> QED BY <1>3, <2>1, <2>3, <3>1, BillingAssumption
            DEF Handle, Upserted, HasAccess, IsAppTrial, Paying, Row, Event, BillingAssumption
  <2>4. CASE e.type = "paid"
    BY <1>3, <2>1, <2>4 DEF Handle, Paid, HasAccess, IsAppTrial, Paying, Row, Event
  <2> QED BY <2>1, <2>2, <2>3, <2>4 DEF Event
<1>4. ASSUME NEW r \in Requests, ChangeWrite(r)
      PROVE  HasAccess'
  BY <1>4 DEF ChangeWrite, WriteBack, HasAccess, IsAppTrial, IInv, TypeOK, Row
<1>5. CASE UNCHANGED <<sub, clock>>
  BY <1>5 DEF HasAccess, IsAppTrial
<1>6. CASE UNCHANGED vars
  BY <1>5, <1>6 DEF vars, local
<1>7. CASE Next
  BY <1>1, <1>2, <1>3, <1>4, <1>5, <1>7 DEF Next, Step, RecordEvent, Record, ChangeRequest, ChangeCall,
       OpenCheckout, CompleteCheckout, End, Charge, Portal, LateInvoice, Crash, local
<1> QED BY <1>6, <1>7

(* A workspace has one trial ever, and access ends for a reason, whatever  *)
(* the order of events and wherever the process dies (AccessMoves).        *)
THEOREM AccessIsKept == Spec => AccessMoves
<1>1. IInv /\ [Next]_vars =>
        /\ [/\ sub.status # "none" /\ ~IsAppTrial => ~IsAppTrial'
            /\ sub.trial /\ clock = "over" => clock' = "over"]_vars
        /\ [HasAccess /\ ~HasAccess' =>
              \/ IsAppTrial /\ clock' = "over"
              \/ hand # 0 /\ (log[hand].type \in {"failed", "deleted"} \/ log[hand].status = "past_due")]_vars
  BY TrialMoves, AccessStep
<1> QED BY <1>1, InitIInv, NextIInv, PTL DEF Spec, AccessMoves, OneTrialEver, AccessEndsForAReason
-----------------------------------------------------------------------------
(* When events arrive in order and nothing dies.                           *)
(*                                                                         *)
(* The row lags behind Stripe by the events not applied yet, so what can   *)
(* be said of it at any moment is what it will be once they are.  What     *)
(* decides access is a row's standing, its status and its subscription;    *)
(* After(p, e) is what the handler of e makes of it.  A path takes the     *)
(* row's standing now through the events ahead, and ends where Stripe is.  *)
Standing == [status : Statuses, sid : Subs \cup {"none"}]

Stands == [status |-> sub.status, sid |-> sub.sid]

Upsert(e) == e.type \in {"created", "updated"}

After(p, e) ==
  IF e.type = "completed"
  THEN [status |-> IF p.status = "none" THEN "incomplete" ELSE p.status, sid |-> e.of]
  ELSE IF Upsert(e) THEN [status |-> e.status, sid |-> e.of]
  ELSE IF p.sid # e.of THEN p
  ELSE [sid |-> p.sid,
        status |-> IF e.type = "deleted" THEN "cancelled"
                   ELSE IF e.type = "failed" THEN "past_due"
                   ELSE IF p.status \in {"past_due", "incomplete"} THEN "active" ELSE p.status]

Path(n, f, l) ==
  /\ f \in [0..Len(l) -> Standing]
  /\ f[n] = Stands
  /\ \A i \in (n + 1)..Len(l) : f[i] = After(f[i - 1], l[i])

\* The first n events have been applied, the next one perhaps recorded.
Applied(n) == done \ {hand} = 1..n /\ hand \in {0, n + 1}

\* The standing that is right for what Stripe has.
Right(p) ==
  Linked # {} =>
    /\ p.sid \in Linked
    /\ \A s \in Linked : stripe[s].status \in Live => s = p.sid
    /\ stripe[p.sid].status \in Live => p.status = stripe[p.sid].status
    /\ stripe[p.sid].status = "canceled" => p.status = "cancelled"

\* The last event ahead that carries the flag, or the row, has it as wanted.
Flag(n, l, now, wanted) ==
  /\ \A i \in (n + 1)..Len(l) :
       Upsert(l[i]) /\ (\A j \in (i + 1)..Len(l) : ~Upsert(l[j])) => l[i].cancel = wanted
  /\ (\A i \in (n + 1)..Len(l) : ~Upsert(l[i])) => now = wanted

FlagIsRight(n, id) ==
  id \in Subs /\ stripe[id].status \in Live => Flag(n, log, sub.cancel, stripe[id].cancel)

\* A request that has had its answer holds the flag Stripe has.
AnswerHolds(id) ==
  \A r \in Requests : reqs[r].step = "write" =>
    reqs[r].seen.sid = id /\ (stripe[id].status \in Live => stripe[id].cancel = reqs[r].want)

OneRequest == \A r, q \in Requests : reqs[r].step # "idle" /\ reqs[q].step # "idle" => r = q

\* An end that was applied to the row is on it.
EndIsKept(n) ==
  \A i \in 1..n : log[i].type = "deleted" /\ log[i].of = sub.sid => sub.status = "cancelled"

Course(n, f) ==
  /\ Applied(n) /\ Path(n, f, log)
  /\ Right(f[Len(log)]) /\ FlagIsRight(n, f[Len(log)].sid) /\ AnswerHolds(f[Len(log)].sid)
  /\ EndIsKept(n)
  /\ sub.status = "none" => n = 0

\* The log begins with the two events of a checkout.
Begins(l) ==
  Len(l) # 0 =>
    /\ Len(l) >= 2 /\ l[1].of = l[2].of
    /\ \/ l[1].type = "completed" /\ l[2].type = "created"
       \/ l[1].type = "created" /\ l[2].type = "completed"

\* A subscription's end is the last of it but for an invoice.
Ends(st, l) ==
  \A i \in 1..Len(l) : l[i].type = "deleted" =>
    /\ st[l[i].of].status = "canceled"
    /\ \A j \in (i + 1)..Len(l) : l[j].of = l[i].of => l[j].type = "paid"

LogIsOrdered ==
  /\ Linked = {} <=> Len(log) = 0
  /\ Begins(log) /\ Ends(stripe, log)

CalmInv ==
  calm => /\ OneRequest /\ LogIsOrdered
          /\ \E n \in 0..Len(log) : \E f \in [0..Len(log) -> Standing] : Course(n, f)

-----------------------------------------------------------------------------
(* What the handlers do is what After says.                                *)
LEMMA StandsTyped ==
  ASSUME IInv
  PROVE  Stands \in Standing
BY DEF IInv, TypeOK, Row, Stands, Standing

LEMMA AfterTyped ==
  ASSUME NEW p \in Standing, NEW e \in Event, Upsert(e) => e.status \in Live
  PROVE  After(p, e) \in Standing
BY DEF After, Standing, Event, Upsert, Live, Statuses

LEMMA HandleIsAfter ==
  ASSUME IInv, Handle
  PROVE  /\ Stands' = After(Stands, log[hand])
         /\ sub'.cancel = IF Upsert(log[hand]) THEN log[hand].cancel ELSE sub.cancel
<1> DEFINE e == log[hand]
<1>1. e \in Event /\ sub \in Row
  BY DEF Handle, IInv, TypeOK
<1>2. CASE e.type = "completed"
  BY <1>1, <1>2 DEF Handle, Completed, Stands, After, Upsert, Row
<1>3. CASE e.type \in {"created", "updated"}
  BY <1>1, <1>3 DEF Handle, Upserted, Stands, After, Upsert, Row
<1>4. CASE e.type = "deleted"
  BY <1>1, <1>4 DEF Handle, Deleted, Stands, After, Upsert, Row
<1>5. CASE e.type = "failed"
  BY <1>1, <1>5 DEF Handle, Failed, Stands, After, Upsert, Row
<1>6. CASE e.type = "paid"
  BY <1>1, <1>6 DEF Handle, Paid, Stands, After, Upsert, Row
<1> QED BY <1>1, <1>2, <1>3, <1>4, <1>5, <1>6 DEF Event

(* A path is lengthened by an event, and where it ends is what After says. *)
LEMMA Lengthen ==
  ASSUME NEW l \in Seq(Event), NEW n \in 0..Len(l), NEW f, Path(n, f, l),
         NEW e, IsTrue(e)
  PROVE  \E g \in [0..Len(Append(l, e)) -> Standing] :
           Path(n, g, Append(l, e)) /\ g[Len(l) + 1] = After(f[Len(l)], e)
<1> DEFINE m == Append(l, e)
           g == [i \in 0..Len(m) |-> IF i <= Len(l) THEN f[i] ELSE After(f[Len(l)], e)]
<1>1. /\ Len(l) \in Nat /\ Len(m) = Len(l) + 1 /\ e \in Event
      /\ \A i \in 1..Len(l) : m[i] = l[i]
      /\ m[Len(l) + 1] = e
  BY DEF IsTrue
<1>2. f[Len(l)] \in Standing
  BY <1>1 DEF Path
<1>3. After(f[Len(l)], e) \in Standing
  BY <1>1, <1>2, AfterTyped DEF IsTrue, Upsert
<1>4. g \in [0..Len(m) -> Standing]
  BY <1>1, <1>3 DEF Path
<1>5. g[n] = Stands
  BY <1>1 DEF Path
<1>6. ASSUME NEW i \in (n + 1)..Len(m)
      PROVE  g[i] = After(g[i - 1], m[i])
  <2>1. CASE i <= Len(l)
    BY <1>1, <2>1 DEF Path
  <2>2. CASE i = Len(l) + 1
    BY <1>1, <2>2
  <2> QED BY <1>1, <2>1, <2>2
<1>7. g[Len(l) + 1] = After(f[Len(l)], e)
  BY <1>1
<1> HIDE DEF g
<1> QED BY <1>4, <1>5, <1>6, <1>7 DEF Path

LEMMA FlagKeeps ==
  ASSUME NEW l \in Seq(Event), NEW n \in 0..Len(l), NEW now, NEW wanted, Flag(n, l, now, wanted),
         NEW e, IsTrue(e), ~Upsert(e)
  PROVE  Flag(n, Append(l, e), now, wanted)
<1> DEFINE m == Append(l, e)
<1>1. /\ Len(l) \in Nat /\ Len(m) = Len(l) + 1 /\ m[Len(l) + 1] = e
      /\ \A i \in 1..Len(l) : m[i] = l[i]
  BY DEF IsTrue
<1> HIDE DEF m
<1>2. ASSUME NEW i \in (n + 1)..Len(m), Upsert(m[i]), \A j \in (i + 1)..Len(m) : ~Upsert(m[j])
      PROVE  m[i].cancel = wanted
  <2>1. i \in (n + 1)..Len(l) /\ m[i] = l[i]
    BY <1>1, <1>2
  <2>2. \A j \in (i + 1)..Len(l) : ~Upsert(l[j])
    BY <1>1, <1>2, <2>1
  <2> QED BY <1>2, <2>1, <2>2 DEF Flag
<1>3. ASSUME \A i \in (n + 1)..Len(m) : ~Upsert(m[i])
      PROVE  now = wanted
  BY <1>1, <1>3 DEF Flag
<1> QED BY <1>2, <1>3 DEF Flag, m

LEMMA FlagSets ==
  ASSUME NEW l \in Seq(Event), NEW n \in 0..Len(l), NEW now,
         NEW e, IsTrue(e), Upsert(e)
  PROVE  Flag(n, Append(l, e), now, e.cancel)
<1> DEFINE m == Append(l, e)
<1>1. /\ Len(l) \in Nat /\ Len(m) = Len(l) + 1 /\ m[Len(l) + 1] = e
  BY DEF IsTrue
<1> HIDE DEF m
<1>2. ASSUME NEW i \in (n + 1)..Len(m), \A j \in (i + 1)..Len(m) : ~Upsert(m[j])
      PROVE  m[i] = e
  BY <1>1, <1>2
<1>3. ~ \A i \in (n + 1)..Len(m) : ~Upsert(m[i])
  BY <1>1
<1> QED BY <1>2, <1>3 DEF Flag, m

LEMMA FlagThen ==
  ASSUME NEW l \in Seq(Event), NEW n \in 0..Len(l), n < Len(l), NEW now, NEW wanted,
         Flag(n, l, now, wanted)
  PROVE  Flag(n + 1, l, IF Upsert(l[n + 1]) THEN l[n + 1].cancel ELSE now, wanted)
<1>1. \A i \in (n + 2)..Len(l) : i \in (n + 1)..Len(l)
  OBVIOUS
<1>2. \A i \in (n + 1)..Len(l) : i = n + 1 \/ i \in (n + 2)..Len(l)
  OBVIOUS
<1>3. n + 1 \in (n + 1)..Len(l) /\ n + 1 + 1 = n + 2
  OBVIOUS
<1> QED BY <1>1, <1>2, <1>3 DEF Flag

LEMMA EndsThen ==
  ASSUME NEW st, NEW l \in Seq(Event), Ends(st, l), NEW e, IsTrue(e),
         e.type = "deleted" => st[e.of].status = "canceled",
         \A i \in 1..Len(l) : l[i].type = "deleted" /\ l[i].of = e.of => e.type = "paid"
  PROVE  Ends(st, Append(l, e))
<1> DEFINE m == Append(l, e)
<1>1. /\ Len(l) \in Nat /\ Len(m) = Len(l) + 1 /\ m[Len(l) + 1] = e
      /\ \A i \in 1..Len(l) : m[i] = l[i]
  BY DEF IsTrue
<1> HIDE DEF m
<1>2. ASSUME NEW i \in 1..Len(m), m[i].type = "deleted"
      PROVE  /\ st[m[i].of].status = "canceled"
             /\ \A j \in (i + 1)..Len(m) : m[j].of = m[i].of => m[j].type = "paid"
  <2>1. CASE i \in 1..Len(l)
    <3>1. \A j \in (i + 1)..Len(m) : (j \in (i + 1)..Len(l) /\ m[j] = l[j]) \/ m[j] = e
      BY <1>1, <2>1
    <3> QED BY <1>1, <1>2, <2>1, <3>1 DEF Ends
  <2>2. CASE i = Len(l) + 1
    BY <1>1, <1>2, <2>2
  <2> QED BY <1>1, <2>1, <2>2
<1> QED BY <1>2 DEF Ends, m

-----------------------------------------------------------------------------
LEMMA InitCalm ==
  ASSUME Init
  PROVE  CalmInv
<1> DEFINE f == [i \in 0..0 |-> Stands]
<1>1. IInv
  BY InitIInv
<1>2. Len(log) = 0 /\ Linked = {}
  BY DEF Init, Linked, Ever
<1>3. f \in [0..Len(log) -> Standing] /\ f[0] = Stands
  BY <1>1, <1>2, StandsTyped
<1>4. Path(0, f, log)
  BY <1>2, <1>3 DEF Path
<1>5. sub.sid = "none" /\ f[0].sid = "none"
  <2>1. LegacyRow.sid = "none"
    BY DEF LegacyRow, NoRow
  <2>2. sub.sid = "none"
    BY <2>1 DEF Init, NoRow
  <2> QED BY <1>3, <2>2 DEF Stands
<1>6. \A r \in Requests : reqs[r].step = "idle"
  BY DEF Init, NoRequest
<1>7. Course(0, f)
  <2>1. Applied(0)
    BY DEF Applied, Init
  <2>2. Right(f[Len(log)]) /\ EndIsKept(0)
    BY <1>2 DEF Right, EndIsKept
  <2>3. FlagIsRight(0, f[Len(log)].sid)
    BY <1>2, <1>5, BillingAssumption DEF FlagIsRight, BillingAssumption
  <2>4. AnswerHolds(f[Len(log)].sid)
    BY <1>6 DEF AnswerHolds
  <2> QED BY <1>4, <2>1, <2>2, <2>3, <2>4 DEF Course
<1> HIDE DEF f
<1> QED BY <1>2, <1>3, <1>6, <1>7 DEF CalmInv, OneRequest, LogIsOrdered, Begins, Ends

(* Steps that neither handle an event nor emit one.                        *)
LEMMA CalmQuiet ==
  ASSUME IInv, CalmInv, calm, UNCHANGED <<sub, done, hand, log>>,
         \A r \in Requests : reqs'[r].step = "write" => reqs'[r] = reqs[r],
         OneRequest',
         \A s \in Subs : \/ stripe'[s] = stripe[s]
                         \/ stripe[s].status = "absent" /\ stripe'[s].status = "open"
  PROVE  CalmInv'
<1>1. PICK n \in 0..Len(log), f \in [0..Len(log) -> Standing] : Course(n, f)
  BY DEF CalmInv
<1>2. \A s \in Subs : (s \in Linked' <=> s \in Linked) /\ (s \in Linked => stripe'[s] = stripe[s])
  BY DEF Linked, Ever
<1>3. Linked' = Linked /\ Linked \subseteq Subs
  BY <1>2 DEF Linked
<1>4. \A s \in Subs : stripe[s].status \in Live \cup {"canceled"} \/ stripe'[s].status \in Live \cup {"canceled"}
                        => s \in Linked
  BY <1>2 DEF Linked, Ever, Live
<1>5. Right(f[Len(log)])'
  BY <1>1, <1>2, <1>3 DEF Course, Right
<1>6. FlagIsRight(n, f[Len(log)].sid)'
  BY <1>1, <1>2, <1>4 DEF Course, FlagIsRight
<1>7. AnswerHolds(f[Len(log)].sid)'
  BY <1>1, <1>2, <1>4 DEF Course, AnswerHolds, IInv, RequestsAreLinked
<1>8. LogIsOrdered'
  <2>1. \A i \in 1..Len(log) : log[i].of \in Subs
    <3>1. \A i \in 1..Len(log) : log[i] \in Event
      BY DEF IInv, TypeOK
    <3> QED BY <3>1 DEF Event
  <2> QED BY <1>2, <1>3, <1>4, <2>1 DEF CalmInv, LogIsOrdered, Begins, Ends
<1>9. (Applied(n) /\ Path(n, f, log) /\ EndIsKept(n) /\ (sub.status = "none" => n = 0))'
  BY <1>1 DEF Course, Applied, Path, Stands, EndIsKept
<1> QED BY <1>1, <1>5, <1>6, <1>7, <1>8, <1>9 DEF CalmInv, Course

-----------------------------------------------------------------------------
(* Steps that emit events: the course goes on to where Stripe now is.      *)
LEMMA Emission ==
  ASSUME IInv, CalmInv, calm, UNCHANGED <<sub, done, hand, calm>>,
         NEW n \in 0..Len(log), NEW f, Course(n, f),
         Len(log') \in Nat, Len(log') >= Len(log), \A i \in 1..Len(log) : log'[i] = log[i],
         NEW g \in [0..Len(log') -> Standing], Path(n, g, log'),
         NEW p, p = g[Len(log')],
         Right(p)', FlagIsRight(n, p.sid)', AnswerHolds(p.sid)',
         OneRequest', LogIsOrdered'
  PROVE  CalmInv'
<1>1. Len(log) \in Nat
  BY DEF IInv, TypeOK
<1>2. Applied(n)' /\ (sub.status = "none" => n = 0)'
  BY DEF Course, Applied
<1>3. Path(n, g, log)'
  BY DEF Path, Stands
<1>4. EndIsKept(n)'
  BY <1>1 DEF Course, EndIsKept
<1>5. n \in 0..Len(log')
  BY <1>1
<1> QED BY <1>2, <1>3, <1>4, <1>5 DEF CalmInv, Course

CanceledStays == \A t \in Subs : stripe[t].status = "canceled" => stripe'[t].status = "canceled"

LEMMA EmitsOne ==
  ASSUME IInv, CalmInv, calm, UNCHANGED <<sub, done, hand, calm>>,
         NEW e, IsTrue(e), Emit(<<e>>), CanceledStays,
         NEW n \in 0..Len(log), NEW f \in [0..Len(log) -> Standing], Course(n, f),
         NEW p, p = After(f[Len(log)], e),
         Right(p)', AnswerHolds(p.sid)', OneRequest', Linked # {}, Linked' # {},
         p.sid \in Subs /\ stripe'[p.sid].status \in Live =>
           \/ Upsert(e) /\ e.cancel = stripe'[p.sid].cancel
           \/ /\ ~Upsert(e) /\ p = f[Len(log)]
              /\ stripe[p.sid].status \in Live /\ stripe'[p.sid].cancel = stripe[p.sid].cancel,
         e.type = "deleted" => stripe'[e.of].status = "canceled",
         \A i \in 1..Len(log) : log[i].type = "deleted" /\ log[i].of = e.of => e.type = "paid"
  PROVE  CalmInv'
<1>1. log \in Seq(Event) /\ Len(log) \in Nat
  BY DEF IInv, TypeOK
<1>2. log' = Append(log, e)
  BY <1>1 DEF Emit
<1>3. Len(log') = Len(log) + 1 /\ \A i \in 1..Len(log) : log'[i] = log[i]
  BY <1>1, <1>2 DEF IsTrue
<1>4. PICK g \in [0..Len(log') -> Standing] : Path(n, g, log') /\ g[Len(log')] = p
  BY <1>1, <1>2, <1>3, Lengthen DEF Course
<1>5. FlagIsRight(n, p.sid)'
  <2> SUFFICES ASSUME p.sid \in Subs, stripe'[p.sid].status \in Live
               PROVE  Flag(n, log', sub.cancel, stripe'[p.sid].cancel)
    BY DEF FlagIsRight
  <2>1. CASE Upsert(e)
    BY <1>1, <1>2, <2>1, FlagSets
  <2>2. CASE ~Upsert(e)
    <3>1. Flag(n, log, sub.cancel, stripe[p.sid].cancel)
      BY <2>2 DEF Course, FlagIsRight
    <3> QED BY <1>1, <1>2, <2>2, <3>1, FlagKeeps
  <2> QED BY <2>1, <2>2
<1>6. LogIsOrdered'
  <2>1. LogIsOrdered
    BY DEF CalmInv
  <2>2. Len(log) >= 2
    BY <1>1, <2>1 DEF LogIsOrdered, Begins
  <2>3. Begins(log')
    BY <1>1, <1>3, <2>1, <2>2 DEF LogIsOrdered, Begins
  <2>4. Ends(stripe', log)
    <3>1. \A i \in 1..Len(log) : log[i] \in Event
      BY <1>1
    <3> QED BY <2>1, <3>1 DEF LogIsOrdered, Ends, CanceledStays, Event
  <2>5. Ends(stripe', log')
    BY <1>1, <1>2, <2>4, EndsThen
  <2> QED BY <1>1, <1>3, <2>3, <2>5 DEF LogIsOrdered
<1>7. Len(log') \in Nat /\ Len(log') >= Len(log)
  BY <1>1, <1>3
<1> QED BY <1>3, <1>4, <1>5, <1>6, <1>7, Emission

LEMMA EmitsTwo ==
  ASSUME IInv, CalmInv, calm, UNCHANGED <<sub, done, hand, calm>>,
         NEW s \in Subs, NEW a, NEW b, IsTrue(a), IsTrue(b), Emit(<<a, b>>), CanceledStays,
         a.of = s, b.of = s, stripe'[s].status \in Live,
         a.type # "deleted", b.type # "deleted",
         Upsert(a) <=> ~Upsert(b), a.cancel = stripe'[s].cancel, b.cancel = stripe'[s].cancel,
         NEW n \in 0..Len(log), NEW f \in [0..Len(log) -> Standing], Course(n, f),
         NEW p, p = After(After(f[Len(log)], a), b), p.sid = s,
         Right(p)', AnswerHolds(p.sid)', OneRequest', Linked' # {},
         Linked = {} => \/ a.type = "completed" /\ b.type = "created"
                        \/ a.type = "created" /\ b.type = "completed"
  PROVE  CalmInv'
<1>1. log \in Seq(Event) /\ Len(log) \in Nat
  BY DEF IInv, TypeOK
<1> DEFINE m == Append(log, a)
<1>2. m \in Seq(Event) /\ Len(m) = Len(log) + 1 /\ \A i \in 1..Len(log) : m[i] = log[i]
  BY <1>1 DEF IsTrue
<1>a. m[Len(log) + 1] = a
  BY <1>1 DEF IsTrue
<1>3. log' = Append(m, b)
  BY <1>1 DEF Emit
<1>4. Len(log') = Len(log) + 2 /\ \A i \in 1..Len(log) : log'[i] = log[i]
  BY <1>1, <1>2, <1>3 DEF IsTrue
<1>b. log'[Len(log) + 1] = a /\ log'[Len(log) + 2] = b
  BY <1>1, <1>2, <1>a, <1>3 DEF IsTrue
<1>5. PICK g \in [0..Len(log') -> Standing] : Path(n, g, log') /\ g[Len(log')] = p
  <2>1. Path(n, f, log)
    BY DEF Course
  <2>2. PICK h \in [0..Len(m) -> Standing] : Path(n, h, m) /\ h[Len(log) + 1] = After(f[Len(log)], a)
    BY <1>1, <2>1, Lengthen
  <2>3. n \in 0..Len(m)
    BY <1>1, <1>2
  <2>4. \E g \in [0..Len(log') -> Standing] : Path(n, g, log') /\ g[Len(m) + 1] = After(h[Len(m)], b)
    BY ZenonT(40), <1>2, <1>3, <2>2, <2>3, Lengthen
  <2> QED BY <1>1, <1>2, <1>4, <2>2, <2>4
<1>6. FlagIsRight(n, p.sid)'
  <2>0. n \in 0..Len(m)
    BY <1>1, <1>2
  <2>1. CASE Upsert(b)
    <3>1. Flag(n, log', sub.cancel, b.cancel)
      BY <1>2, <1>3, <2>0, <2>1, FlagSets
    <3> QED BY <3>1 DEF FlagIsRight
  <2>2. CASE Upsert(a)
    <3>1. Flag(n, m, sub.cancel, a.cancel)
      BY <1>1, <2>2, FlagSets
    <3>2. Flag(n, log', sub.cancel, a.cancel)
      BY <1>2, <1>3, <2>0, <2>2, <3>1, FlagKeeps
    <3> QED BY <3>2 DEF FlagIsRight
  <2> QED BY <2>1, <2>2
<1>7. LogIsOrdered'
  <2>1. LogIsOrdered
    BY DEF CalmInv
  <2>3. Begins(log')
    <3>1. CASE Len(log) # 0
      BY <1>1, <1>4, <2>1, <3>1 DEF LogIsOrdered, Begins
    <3>2. CASE Len(log) = 0
      <4>1. Linked = {}
        BY <2>1, <3>2 DEF LogIsOrdered
      <4>2. log'[1] = a /\ log'[2] = b /\ Len(log') = 2
        BY <1>4, <1>b, <3>2
      <4> QED BY <4>1, <4>2 DEF Begins
    <3> QED BY <3>1, <3>2
  <2>4. Ends(stripe', log)
    <3>1. \A i \in 1..Len(log) : log[i] \in Event
      BY <1>1
    <3> QED BY <2>1, <3>1 DEF LogIsOrdered, Ends, CanceledStays, Event
  <2>5. \A i \in 1..Len(log) : log[i].type = "deleted" => log[i].of # s
    BY <2>4 DEF Ends, Live
  <2>6. Ends(stripe', m)
    BY <1>1, <2>4, <2>5, EndsThen
  <2>7. \A i \in 1..Len(m) : log'[i] = m[i] /\ (m[i].type = "deleted" => m[i].of # s)
    <3>1. \A i \in 1..Len(m) : i \in 1..Len(log) \/ i = Len(log) + 1
      BY <1>1, <1>2
    <3> QED BY <1>1, <1>2, <1>a, <1>b, <1>4, <2>5, <3>1
  <2>8. Ends(stripe', log')
    BY <1>2, <1>3, <2>6, <2>7, EndsThen
  <2> QED BY <1>1, <1>4, <2>3, <2>8 DEF LogIsOrdered
<1>8. Len(log') \in Nat /\ Len(log') >= Len(log)
  BY <1>1, <1>4
<1> QED BY <1>4, <1>5, <1>6, <1>7, <1>8, Emission

-----------------------------------------------------------------------------
(* A live subscription is the one the course ends at.                      *)
LEMMA LiveIsLast ==
  ASSUME IInv, NEW n \in 0..Len(log), NEW f, Course(n, f), NEW s \in Subs, stripe[s].status \in Live
  PROVE  s \in Linked /\ f[Len(log)] = [status |-> stripe[s].status, sid |-> s]
<1>1. s \in Linked
  BY DEF Linked, Ever, Live
<1>2. f[Len(log)] \in Standing
  BY DEF Course, Path, IInv, TypeOK
<1>3. f[Len(log)].sid = s /\ f[Len(log)].status = stripe[s].status
  BY <1>1 DEF Course, Right
<1> QED BY <1>1, <1>2, <1>3 DEF Standing

LEMMA NotEnded ==
  ASSUME CalmInv, calm, NEW s \in Subs, stripe[s].status \in Live
  PROVE  \A i \in 1..Len(log) : log[i].type = "deleted" => log[i].of # s
BY DEF CalmInv, LogIsOrdered, Ends, Live

(* What the events of one change make of a standing, in either order.      *)
LEMMA AfterBoth ==
  ASSUME NEW q \in Standing, NEW s \in Subs, NEW x, NEW y, x \in Event, y \in Event,
         x.of = s, y.of = s, Upsert(x), x.status \in Live,
         \/ y.type = "completed"
         \/ y.type = "paid" /\ x.status = "active"
         \/ y.type = "failed" /\ x.status = "past_due",
         y.type # "completed" => q.sid = s
  PROVE  /\ After(After(q, x), y) = [status |-> x.status, sid |-> s]
         /\ After(After(q, y), x) = [status |-> x.status, sid |-> s]
<1>1. After(q, x) = [status |-> x.status, sid |-> s]
  BY DEF After, Upsert, Event
<1>2. After(After(q, y), x) = [status |-> x.status, sid |-> s]
  BY DEF After, Upsert, Event
<1>3. CASE y.type = "completed"
  BY <1>1, <1>3 DEF After, Live
<1>4. CASE y.type = "paid"
  BY <1>1, <1>4 DEF After, Upsert
<1>5. CASE y.type = "failed"
  BY <1>1, <1>5 DEF After, Upsert
<1> QED BY <1>2, <1>3, <1>4, <1>5

(* A checkout completes, or a charge is made: both events of it, in either *)
(* order, lead to the subscription as it now is.                           *)
LEMMA CalmChange ==
  ASSUME IInv, CalmInv, calm, UNCHANGED <<sub, done, hand, reqs, calm>>, StripeOK,
         NEW s \in Subs, NEW u \in {"created", "updated"}, NEW o \in {"completed", "paid", "failed"},
         EmitBoth(EventOf(s, u), EventOf(s, o)),
         \A t \in Subs \ {s} : stripe'[t] = stripe[t] /\ stripe[t].status \notin Live,
         stripe[s].status # "canceled", stripe'[s].status \in Live,
         \/ o = "completed" /\ u = "created" /\ \A r \in Requests : reqs[r].step = "idle"
         \/ /\ stripe[s].status \in Live /\ stripe'[s].cancel = stripe[s].cancel
            /\ \/ o = "paid" /\ stripe'[s].status = "active"
               \/ o = "failed" /\ stripe'[s].status = "past_due"
  PROVE  CalmInv'
<1> DEFINE x == EventOf(s, u)
           y == EventOf(s, o)
<1>1. PICK n \in 0..Len(log), f \in [0..Len(log) -> Standing] : Course(n, f)
  BY DEF CalmInv
<1>2. /\ x.of = s /\ x.type = u /\ x.status = stripe'[s].status /\ x.cancel = stripe'[s].cancel
      /\ y.of = s /\ y.type = o /\ y.cancel = stripe'[s].cancel
  BY DEF EventOf
<1>3. IsTrue(x) /\ IsTrue(y)
  BY DEF StripeOK, IsTrue, EventOf, Event
<1> HIDE DEF x, y
<1>4. f[Len(log)] \in Standing
  BY <1>1 DEF IInv, TypeOK
<1>5. stripe[s].status \in Live => s \in Linked /\ f[Len(log)].sid = s
  <2> SUFFICES ASSUME stripe[s].status \in Live
               PROVE  s \in Linked /\ f[Len(log)].sid = s
    OBVIOUS
  <2>1. s \in Linked /\ f[Len(log)] = [status |-> stripe[s].status, sid |-> s]
    BY <1>1, LiveIsLast
  <2> QED BY <2>1
<1>6. PICK p : p = [status |-> stripe'[s].status, sid |-> s]
  OBVIOUS
<1>7. /\ After(After(f[Len(log)], x), y) = p
      /\ After(After(f[Len(log)], y), x) = p
  <2>1. u # "completed" /\ Upsert(x) /\ x \in Event /\ y \in Event
    BY <1>2, <1>3 DEF Upsert, IsTrue
  <2>2. o # "completed" => f[Len(log)].sid = s
    BY <1>5
  <2>3. \/ y.type = "completed"
        \/ y.type = "paid" /\ x.status = "active"
        \/ y.type = "failed" /\ x.status = "past_due"
    BY <1>2
  <2> QED BY <1>2, <1>4, <1>6, <2>1, <2>2, <2>3, AfterBoth
<1>8. s \in Linked' /\ \A t \in Linked' : stripe'[t].status \in Live => t = s
  BY DEF Linked, Ever, Live
<1>9. Right(p)'
  BY <1>6, <1>8 DEF Right, Live
<1>10. AnswerHolds(p.sid)'
  BY <1>1, <1>5, <1>6 DEF AnswerHolds, Course
<1>11. OneRequest'
  BY DEF CalmInv, OneRequest
<1>12. CanceledStays
  BY DEF CanceledStays
<1>13. Linked = {} => o = "completed" /\ u = "created"
  BY <1>5
<1>14. Upsert(x) /\ ~Upsert(y) /\ p.sid = s
  BY <1>2, <1>6 DEF Upsert
<1>15. CASE Emit(<<x, y>>)
  BY <1>1, <1>2, <1>3, <1>7, <1>8, <1>9, <1>10, <1>11, <1>12, <1>13, <1>14, <1>15, EmitsTwo
<1>16. CASE Emit(<<y, x>>)
  BY <1>1, <1>2, <1>3, <1>7, <1>8, <1>9, <1>10, <1>11, <1>12, <1>13, <1>14, <1>16, EmitsTwo
<1> QED BY <1>15, <1>16 DEF EmitBoth, x, y

(* One event of a live subscription: its flag is changed, or it ends.      *)
LEMMA CalmFlag ==
  ASSUME IInv, CalmInv, calm, UNCHANGED <<sub, done, hand, calm>>,
         NEW s \in Subs, NEW want \in BOOLEAN, stripe[s].status \in Live,
         stripe' = [stripe EXCEPT ![s].cancel = want],
         Emit(<<EventOf(s, "updated")>>), OneRequest',
         \A r \in Requests : reqs'[r].step = "write" => reqs'[r].seen.sid = s /\ reqs'[r].want = want
  PROVE  CalmInv'
<1> DEFINE e == EventOf(s, "updated")
<1>1. PICK n \in 0..Len(log), f \in [0..Len(log) -> Standing] : Course(n, f)
  BY DEF CalmInv
<1>2. /\ stripe'[s].status = stripe[s].status /\ stripe'[s].cancel = want
      /\ \A t \in Subs : t # s => stripe'[t] = stripe[t]
      /\ StripeOK
  BY DEF IInv, TypeOK, StripeOK
<1>3. IsTrue(e) /\ Upsert(e) /\ e.cancel = want /\ e.type = "updated"
      /\ e.of = s /\ e.status = stripe[s].status
  BY <1>2 DEF StripeOK, IsTrue, EventOf, Event, Upsert
<1>4. s \in Linked /\ f[Len(log)] = [status |-> stripe[s].status, sid |-> s]
  BY <1>1, LiveIsLast
<1>5. PICK p : p = [status |-> stripe[s].status, sid |-> s]
  OBVIOUS
<1> HIDE DEF e
<1>6. p = After(f[Len(log)], e) /\ p.sid = s
  BY <1>3, <1>5 DEF After, Upsert
<1>7. \A t \in Subs : stripe'[t].status = stripe[t].status
  BY <1>2
<1>8. Linked' = Linked /\ CanceledStays
  BY <1>7 DEF Linked, Ever, CanceledStays
<1>9. Right(p)'
  <2>1. Right(p)
    BY <1>1, <1>4, <1>5 DEF Course
  <2>2. Linked \subseteq Subs
    BY DEF Linked
  <2> QED BY <1>6, <1>7, <1>8, <2>1, <2>2 DEF Right
<1>10. AnswerHolds(p.sid)'
  BY <1>2, <1>6 DEF AnswerHolds
<1>11. \A i \in 1..Len(log) : log[i].type = "deleted" => log[i].of # e.of
  BY <1>3, NotEnded
<1> QED BY <1>1, <1>2, <1>3, <1>4, <1>6, <1>8, <1>9, <1>10, <1>11, EmitsOne DEF e

LEMMA CalmEnd ==
  ASSUME IInv, CalmInv, calm, UNCHANGED calm, NEW s \in Subs, End(s)
  PROVE  CalmInv'
<1> DEFINE e == EventOf(s, "deleted")
<1>1. PICK n \in 0..Len(log), f \in [0..Len(log) -> Standing] : Course(n, f)
  BY DEF CalmInv
<1>2. /\ stripe[s].status \in Live /\ stripe'[s].status = "canceled"
      /\ \A t \in Subs : t # s => stripe'[t] = stripe[t]
      /\ Emit(<<e>>) /\ StripeOK /\ UNCHANGED <<sub, done, hand, reqs>>
  BY DEF End, IInv, TypeOK, StripeOK, local
<1>3. IsTrue(e) /\ ~Upsert(e) /\ e.type = "deleted" /\ e.of = s
  BY <1>2 DEF StripeOK, IsTrue, EventOf, Event, Upsert
<1>4. s \in Linked /\ f[Len(log)] = [status |-> stripe[s].status, sid |-> s]
  BY <1>1, <1>2, LiveIsLast
<1>5. PICK p : p = [status |-> "cancelled", sid |-> s]
  OBVIOUS
<1> HIDE DEF e
<1>6. p = After(f[Len(log)], e) /\ p.sid = s
  BY <1>3, <1>4, <1>5 DEF After, Upsert
<1>7. Linked' = Linked /\ CanceledStays
  BY <1>2 DEF Linked, Ever, CanceledStays, Live
<1>8. Right(p)'
  <2>1. \A t \in Linked : stripe[t].status \in Live => t = s
    BY <1>1, <1>4 DEF Course, Right
  <2>2. \A t \in Linked' : stripe'[t].status \in Live => t = s
    BY <1>2, <1>7, <2>1 DEF Linked, Live
  <2> QED BY <1>2, <1>4, <1>5, <1>7, <2>2 DEF Right, Live
<1>9. AnswerHolds(p.sid)'
  <2>1. \A r \in Requests : reqs[r].step = "write" => reqs[r].seen.sid = s
    BY <1>1, <1>4 DEF Course, AnswerHolds
  <2> QED BY <1>2, <1>6, <2>1 DEF AnswerHolds, Live
<1>10. OneRequest'
  BY <1>2 DEF CalmInv, OneRequest
<1>11. \A i \in 1..Len(log) : log[i].type = "deleted" => log[i].of # e.of
  BY <1>2, <1>3, NotEnded
<1>12. stripe'[p.sid].status \notin Live
  BY <1>2, <1>6 DEF Live
<1> QED BY <1>1, <1>2, <1>3, <1>4, <1>6, <1>7, <1>8, <1>9, <1>10, <1>11, <1>12, EmitsOne

LEMMA CalmLateInvoice ==
  ASSUME IInv, CalmInv, calm, UNCHANGED calm, NEW s \in Subs, LateInvoice(s, "paid")
  PROVE  CalmInv'
<1> DEFINE e == EventOf(s, "paid")
<1>1. PICK n \in 0..Len(log), f \in [0..Len(log) -> Standing] : Course(n, f)
  BY DEF CalmInv
<1>2. /\ stripe[s].status = "canceled" /\ StripeOK
      /\ \A t \in Subs : stripe'[t].status = stripe[t].status /\ stripe'[t].cancel = stripe[t].cancel
      /\ Emit(<<e>>) /\ UNCHANGED <<sub, done, hand, reqs>>
  BY DEF LateInvoice, IInv, TypeOK, StripeOK, local
<1>3. IsTrue(e) /\ ~Upsert(e) /\ e.type = "paid" /\ e.of = s
  BY <1>2 DEF StripeOK, IsTrue, EventOf, Event, Upsert
<1>4. s \in Linked /\ Linked' = Linked /\ Linked \subseteq Subs /\ CanceledStays
  BY <1>2 DEF Linked, Ever, CanceledStays
<1>5. PICK p : p = f[Len(log)]
  OBVIOUS
<1>6. p \in Standing /\ Right(p) /\ p.sid \in Subs
  BY <1>1, <1>4, <1>5 DEF Course, Path, IInv, TypeOK, Right
<1> HIDE DEF e
<1>7. p = After(f[Len(log)], e)
  <2>1. CASE p.sid = s
    <3>1. p.status = "cancelled"
      BY <1>2, <1>4, <1>6, <2>1 DEF Right
    <3> QED BY <1>3, <1>5, <1>6, <2>1, <3>1 DEF After, Upsert, Standing
  <2>2. CASE p.sid # s
    BY <1>3, <1>5, <2>2 DEF After, Upsert
  <2> QED BY <2>1, <2>2
<1>8. Right(p)'
  BY <1>2, <1>4, <1>6 DEF Right
<1>9. AnswerHolds(p.sid)'
  <2>1. AnswerHolds(p.sid)
    BY <1>1, <1>5 DEF Course
  <2> QED BY <1>2, <1>6, <2>1 DEF AnswerHolds
<1>10. OneRequest'
  BY <1>2 DEF CalmInv, OneRequest
<1> QED BY <1>1, <1>2, <1>3, <1>4, <1>5, <1>6, <1>7, <1>8, <1>9, <1>10, EmitsOne

-----------------------------------------------------------------------------
(* Applying the next event goes one step along the path.                   *)
LEMMA CalmHandle ==
  ASSUME IInv, CalmInv, calm, UNCHANGED calm, Handle
  PROVE  CalmInv'
<1>1. PICK n \in 0..Len(log), f \in [0..Len(log) -> Standing] : Course(n, f)
  BY DEF CalmInv
<1> DEFINE e == log[n + 1]
<1>2. /\ hand = n + 1 /\ done = 1..(n + 1) /\ n + 1 \in 1..Len(log) /\ Len(log) \in Nat
      /\ e \in Event /\ log \in Seq(Event)
  <2>1. hand = n + 1 /\ hand \in done /\ done \ {hand} = 1..n
    BY <1>1 DEF Handle, Course, Applied, IInv, TypeOK
  <2>2. done = 1..(n + 1)
    BY <2>1
  <2> QED BY <2>1, <2>2 DEF IInv, TypeOK
<1>3. /\ Stands' = After(Stands, e)
      /\ sub'.cancel = IF Upsert(e) THEN e.cancel ELSE sub.cancel
  BY <1>2, HandleIsAfter
<1>4. UNCHANGED <<done, reqs, stripe, log>> /\ hand' = 0
  BY DEF Handle
<1> HIDE DEF e
<1>5. Applied(n + 1)'
  BY <1>2, <1>4 DEF Applied
<1>6. Path(n + 1, f, log)'
  <2>1. f[n] = Stands /\ f[n + 1] = After(f[n + 1 - 1], log[n + 1])
    BY <1>1, <1>2 DEF Course, Path
  <2>2. f[n + 1] = Stands'
    BY <1>2, <1>3, <2>1 DEF e
  <2> QED BY <1>1, <1>2, <1>4, <2>2 DEF Course, Path
<1>7. /\ Right(f[Len(log)])' /\ AnswerHolds(f[Len(log)].sid)'
  BY <1>1, <1>4 DEF Course, Right, AnswerHolds, Linked, Ever
<1>8. FlagIsRight(n + 1, f[Len(log)].sid)'
  <2> DEFINE id == f[Len(log)].sid
  <2> SUFFICES ASSUME id \in Subs, stripe[id].status \in Live
               PROVE  Flag(n + 1, log, sub'.cancel, stripe[id].cancel)
    BY <1>4 DEF FlagIsRight
  <2>1. Flag(n, log, sub.cancel, stripe[id].cancel)
    BY <1>1 DEF Course, FlagIsRight
  <2> QED BY <1>2, <1>3, <2>1, FlagThen DEF e
<1>9. \A i \in 1..n : log[i].type = "deleted" /\ log[i].of = e.of => e.type = "paid"
  BY <1>2 DEF CalmInv, LogIsOrdered, Ends, e
<1>10. EndIsKept(n + 1)'
  <2> SUFFICES ASSUME NEW i \in 1..(n + 1), log[i].type = "deleted", log[i].of = Stands'.sid
               PROVE  Stands'.status = "cancelled"
    BY <1>4 DEF EndIsKept, Stands
  <2>1. CASE i = n + 1
    BY <1>3, <2>1 DEF After, Upsert, Stands, e
  <2>2. CASE i \in 1..n
    <3>1. log[i].of = sub.sid => sub.status = "cancelled"
      BY <1>1, <2>2 DEF Course, EndIsKept
    <3>2. CASE log[i].of = e.of
      BY <1>3, <1>9, <2>2, <3>1, <3>2 DEF After, Upsert, Stands
    <3>3. CASE log[i].of # e.of
      BY <1>3, <3>1, <3>3 DEF After, Upsert, Stands
    <3> QED BY <3>2, <3>3
  <2> QED BY <1>1, <2>1, <2>2
<1>11. sub'.status # "none"
  <2>1. Upsert(e) => e.status # "none"
    BY <1>2 DEF IInv, EventsAreTrue, Upsert, Live, e
  <2>2. n = 0 => e.type = "completed" \/ Upsert(e)
    BY <1>2 DEF CalmInv, LogIsOrdered, Begins, Upsert, e
  <2>3. n # 0 => Stands.status # "none"
    BY <1>1 DEF Course, Stands
  <2>4. After(Stands, e).status # "none"
    BY <2>1, <2>2, <2>3 DEF After
  <2> QED BY <1>3, <2>4 DEF Stands
<1>12. OneRequest' /\ LogIsOrdered'
  BY <1>4 DEF CalmInv, OneRequest, LogIsOrdered, Linked, Ever
<1>13. n + 1 \in 0..Len(log)
  BY <1>2
<1> QED BY <1>4, <1>5, <1>6, <1>7, <1>8, <1>10, <1>11, <1>12, <1>13 DEF CalmInv, Course

LEMMA CalmRecord ==
  ASSUME IInv, CalmInv, calm, UNCHANGED calm, NEW i, RecordEvent(i)
  PROVE  CalmInv'
<1>1. PICK n \in 0..Len(log), f \in [0..Len(log) -> Standing] : Course(n, f)
  BY DEF CalmInv
<1>2. /\ hand = 0 /\ i \in 1..Len(log) /\ i \notin done /\ \A j \in 1..(i - 1) : j \in done
      /\ done' = done \cup {i} /\ hand' = i /\ UNCHANGED <<sub, reqs, stripe, log>>
      /\ Len(log) \in Nat
  BY DEF RecordEvent, Record, IInv, TypeOK
<1>3. done = 1..n
  <2>1. done \ {0} = 1..n
    BY <1>1, <1>2 DEF Course, Applied
  <2>2. 0 \notin done
    BY DEF IInv, TypeOK
  <2> QED BY <2>1, <2>2
<1>4. i = n + 1
  <2>1. ~(i <= n)
    BY <1>2, <1>3
  <2>2. ~(n + 1 \in 1..(i - 1))
    BY <1>2, <1>3
  <2> QED BY <1>2, <2>1, <2>2
<1>5. Applied(n)'
  BY <1>2, <1>3, <1>4 DEF Applied
<1>6. Course(n, f)'
  BY <1>1, <1>2, <1>5 DEF Course, Path, Stands, Right, Linked, Ever, FlagIsRight, AnswerHolds, EndIsKept
<1> QED BY <1>2, <1>6 DEF CalmInv, OneRequest, LogIsOrdered, Linked, Ever

(* The answer of a request is the flag Stripe has, so that writing it      *)
(* leaves the row's flag as wanted, or about to be overwritten.            *)
LEMMA CalmWrite ==
  ASSUME IInv, CalmInv, calm, UNCHANGED calm, NEW r \in Requests, ChangeWrite(r)
  PROVE  CalmInv'
<1>1. PICK n \in 0..Len(log), f \in [0..Len(log) -> Standing] : Course(n, f)
  BY DEF CalmInv
<1> DEFINE id == f[Len(log)].sid
           flag == IF reqs[r].want = reqs[r].seen.cancel THEN sub.cancel ELSE reqs[r].want
<1>2. /\ reqs[r].step = "write" /\ sub' = [sub EXCEPT !.cancel = flag]
      /\ reqs' = [reqs EXCEPT ![r] = NoRequest]
      /\ UNCHANGED <<done, hand, stripe, log>>
  BY DEF ChangeWrite, WriteBack
<1>3. /\ sub'.status = sub.status /\ sub'.sid = sub.sid /\ sub'.cancel = flag
  BY <1>2 DEF IInv, TypeOK, Row
<1>4. \A q \in Requests : q # r => reqs'[q] = reqs[q]
  BY <1>2 DEF IInv, TypeOK
<1>5. reqs'[r].step = "idle"
  BY <1>2, NoRequestIsOne DEF IInv, TypeOK
<1> HIDE DEF flag
<1>6. (Applied(n) /\ Path(n, f, log) /\ EndIsKept(n) /\ (sub.status = "none" => n = 0))'
  BY <1>1, <1>2, <1>3 DEF Course, Applied, Path, Stands, EndIsKept
<1>7. Right(f[Len(log)])'
  BY <1>1, <1>2 DEF Course, Right, Linked, Ever
<1>8. AnswerHolds(id)'
  BY <1>1, <1>2, <1>4, <1>5 DEF Course, AnswerHolds
<1>9. FlagIsRight(n, id)'
  <2> SUFFICES ASSUME id \in Subs, stripe[id].status \in Live
               PROVE  Flag(n, log, flag, stripe[id].cancel)
    BY <1>2, <1>3 DEF FlagIsRight
  <2>1. Flag(n, log, sub.cancel, stripe[id].cancel)
    BY <1>1 DEF Course, FlagIsRight
  <2>2. stripe[id].cancel = reqs[r].want
    BY <1>1, <1>2 DEF Course, AnswerHolds
  <2>3. CASE reqs[r].want = reqs[r].seen.cancel
    BY <2>1, <2>3 DEF flag
  <2>4. CASE reqs[r].want # reqs[r].seen.cancel
    BY <2>1, <2>2, <2>4 DEF Flag, flag
  <2> QED BY <2>3, <2>4
<1>10. OneRequest' /\ LogIsOrdered'
  BY <1>2, <1>4, <1>5 DEF CalmInv, OneRequest, LogIsOrdered, Linked, Ever
<1> QED BY <1>1, <1>2, <1>6, <1>7, <1>8, <1>9, <1>10 DEF CalmInv, Course

(* The app's own trial begins where no event was applied, and the first    *)
(* two events to come leave nothing of it but the status until they do.    *)
LEMMA CalmTrial ==
  ASSUME IInv, CalmInv, calm, UNCHANGED calm, StartTrial
  PROVE  CalmInv'
<1>1. PICK n \in 0..Len(log), f \in [0..Len(log) -> Standing] : Course(n, f)
  BY DEF CalmInv
<1>2. /\ sub.status = "none" /\ sub.sid = "none" /\ n = 0
      /\ UNCHANGED <<done, hand, reqs, stripe, log>> /\ Len(log) \in Nat
  BY <1>1 DEF StartTrial, Course, IInv, NoRowIsEmpty, TypeOK
<1>3. /\ sub'.status = "trialing" /\ sub'.sid = "none"
      /\ Stands' = [status |-> "trialing", sid |-> "none"]
  BY DEF StartTrial, Trial, NoRow, Stands
<1>4. Stands = [status |-> "none", sid |-> "none"]
  BY <1>2 DEF Stands
<1>5. OneRequest' /\ LogIsOrdered'
  BY <1>2 DEF CalmInv, OneRequest, LogIsOrdered, Linked, Ever
<1>6. Applied(0)' /\ EndIsKept(0)'
  BY <1>1, <1>2 DEF Course, Applied, EndIsKept
<1>7. CASE Len(log) = 0
  <2> DEFINE g == [i \in 0..Len(log) |-> Stands']
  <2>1. Stands' \in Standing
    BY <1>3 DEF Standing, Statuses
  <2>2. g \in [0..Len(log) -> Standing] /\ g[0] = Stands' /\ g[Len(log)] = Stands'
    BY <1>7, <2>1
  <2>3. PICK h : h = g
    OBVIOUS
  <2> HIDE DEF g
  <2>4. Path(0, h, log)'
    BY <1>2, <1>7, <2>2, <2>3 DEF Path
  <2>5. Linked = {} /\ h[Len(log)].sid = "none" /\ f[Len(log)].sid = "none"
    <3>1. f[Len(log)] = Stands
      BY <1>1, <1>2, <1>7 DEF Course, Path
    <3> QED BY <1>3, <1>4, <1>7, <2>2, <2>3, <3>1 DEF CalmInv, LogIsOrdered
  <2>6. Right(h[Len(log)])'
    BY <1>2, <2>5 DEF Right, Linked, Ever
  <2>7. FlagIsRight(0, h[Len(log)].sid)'
    BY <1>2, <2>5, BillingAssumption DEF FlagIsRight, BillingAssumption
  <2>8. AnswerHolds(h[Len(log)].sid)'
    BY <1>1, <1>2, <2>5 DEF Course, AnswerHolds
  <2>9. Course(0, h)'
    BY <1>2, <1>6, <2>4, <2>6, <2>7, <2>8 DEF Course
  <2> QED BY <1>2, <1>5, <2>2, <2>3, <2>9 DEF CalmInv
<1>8. CASE Len(log) # 0
  <2>1. /\ Len(log) >= 2 /\ log[1].of = log[2].of
        /\ log[1].type # log[2].type
        /\ {log[1].type, log[2].type} \subseteq {"completed", "created"}
    BY <1>8 DEF CalmInv, LogIsOrdered, Begins
  <2>2. /\ f[0] = Stands /\ f[1] = After(Stands, log[1])
        /\ \A i \in 1..Len(log) : f[i] = After(f[i - 1], log[i])
    BY <1>1, <1>2, <2>1 DEF Course, Path
  <2> DEFINE a1 == After([status |-> "trialing", sid |-> "none"], log[1])
             g == [i \in 0..Len(log) |-> IF i = 0 THEN [status |-> "trialing", sid |-> "none"]
                                         ELSE IF i = 1 THEN a1 ELSE f[i]]
  <2>3. log[1] \in Event /\ log[2] \in Event /\ (Upsert(log[1]) => log[1].status \in Live)
    BY <1>2, <2>1 DEF IInv, TypeOK, EventsAreTrue, Upsert
  <2>4. [status |-> "trialing", sid |-> "none"] \in Standing
    BY DEF Standing, Statuses
  <2>5. a1 \in Standing
    BY <2>3, <2>4, AfterTyped
  <2>6. f[2] = After(a1, log[2])
    <3>1. f[2] = After(f[1], log[2])
      BY <1>2, <2>1, <2>2
    <3>2. CASE log[1].type = "completed"
      BY <2>1, <3>1, <3>2 DEF After, Upsert
    <3>3. CASE log[1].type = "created"
      BY <2>2, <3>1, <3>3 DEF After, Upsert
    <3> QED BY <2>1, <3>2, <3>3
  <2> HIDE DEF a1
  <2>7. /\ g \in [0..Len(log) -> Standing] /\ g[Len(log)] = f[Len(log)]
        /\ g[0] = [status |-> "trialing", sid |-> "none"]
        /\ g[1] = a1
        /\ \A i \in 2..Len(log) : g[i] = f[i]
    BY <1>2, <2>1, <2>4, <2>5
  <2>8. \A i \in 1..Len(log) : g[i] = After(g[i - 1], log[i])
    <3> SUFFICES ASSUME NEW i \in 1..Len(log)
                 PROVE  g[i] = After(g[i - 1], log[i])
      OBVIOUS
    <3> HIDE DEF g
    <3>1. CASE i = 1
      BY <2>7, <3>1 DEF a1
    <3>2. CASE i = 2
      BY <2>1, <2>6, <2>7, <3>2
    <3>3. CASE i \notin {1, 2}
      <4>1. i \in 2..Len(log) /\ i - 1 \in 2..Len(log)
        BY <1>2, <3>3
      <4> QED BY <2>2, <2>7, <4>1
    <3> QED BY <3>1, <3>2, <3>3
  <2> HIDE DEF g
  <2>9. PICK h : h = g
    OBVIOUS
  <2>10. Path(0, h, log)'
    BY <1>2, <1>3, <2>7, <2>8, <2>9 DEF Path
  <2>11. Right(h[Len(log)])' /\ AnswerHolds(h[Len(log)].sid)'
    BY <1>1, <1>2, <2>7, <2>9 DEF Course, Right, AnswerHolds, Linked, Ever
  <2>12. FlagIsRight(0, h[Len(log)].sid)'
    <3>1. ~ \A i \in 1..Len(log) : ~Upsert(log[i])
      <4>1. 1 \in 1..Len(log) /\ 2 \in 1..Len(log)
        BY <1>2, <2>1
      <4>2. Upsert(log[1]) \/ Upsert(log[2])
        BY <2>1 DEF Upsert
      <4> QED BY <4>1, <4>2
    <3>2. FlagIsRight(0, f[Len(log)].sid)
      BY <1>1, <1>2 DEF Course
    <3> QED BY <1>2, <2>7, <2>9, <3>1, <3>2 DEF FlagIsRight, Flag
  <2>13. Course(0, h)'
    BY <1>2, <1>6, <2>10, <2>11, <2>12 DEF Course
  <2>14. h \in [0..Len(log) -> Standing]
    BY <2>7, <2>9
  <2> QED BY <1>2, <1>5, <2>13, <2>14 DEF CalmInv
<1> QED BY <1>7, <1>8

LEMMA CalmRequest ==
  ASSUME IInv, CalmInv, calm, UNCHANGED calm, NEW r \in Requests,
         (\E want \in BOOLEAN : ChangeRequest(r, want)) \/ ChangeCall(r)
  PROVE  CalmInv'
<1>1. ASSUME NEW want \in BOOLEAN, ChangeRequest(r, want)
      PROVE  CalmInv'
  <2>1. /\ \A q \in Requests : reqs[q].step = "idle"
        /\ reqs' = [reqs EXCEPT ![r] = [step |-> "call", want |-> want, seen |-> sub]]
        /\ UNCHANGED <<sub, done, hand, stripe, log>>
    BY <1>1 DEF ChangeRequest, OwnerIsFree
  <2>2. \A q \in Requests : IF q = r THEN reqs'[q].step = "call" ELSE reqs'[q] = reqs[q]
    BY <2>1 DEF IInv, TypeOK
  <2>3. OneRequest' /\ \A q \in Requests : reqs'[q].step # "write"
    BY <2>1, <2>2 DEF OneRequest
  <2> QED BY <2>1, <2>3, CalmQuiet
<1>2. CASE ChangeCall(r)
  <2> DEFINE s == reqs[r].seen.sid
  <2>1. s \in Subs /\ reqs[r].step = "call" /\ UNCHANGED <<sub, done, hand>>
    BY <1>2 DEF ChangeCall, IInv, RequestsAreLinked
  <2>2. \A q \in Requests : q # r => reqs[q].step = "idle" /\ reqs'[q] = reqs[q]
    BY <1>2, <2>1 DEF ChangeCall, CalmInv, OneRequest, IInv, TypeOK
  <2>3. CASE stripe[s].status \in Live
    <3>1. PICK want \in BOOLEAN : want = reqs[r].want
      BY DEF IInv, TypeOK
    <3>2. PICK t \in Subs : t = s
      BY <2>1
    <3>3. /\ stripe' = [stripe EXCEPT ![t].cancel = want]
          /\ Emit(<<EventOf(t, "updated")>>)
          /\ reqs' = [reqs EXCEPT ![r].step = "write"]
      BY <1>2, <2>3, <3>1, <3>2 DEF ChangeCall
    <3>4. reqs'[r].want = want /\ reqs'[r].seen.sid = t
      BY <3>1, <3>2, <3>3 DEF IInv, TypeOK
    <3>5. \A q \in Requests : reqs'[q].step = "write" => reqs'[q].seen.sid = t /\ reqs'[q].want = want
      BY <2>2, <3>4
    <3>6. OneRequest'
      BY <2>2 DEF OneRequest
    <3> QED BY <2>1, <2>3, <3>2, <3>3, <3>5, <3>6, CalmFlag
  <2>4. CASE stripe[s].status \notin Live
    <3>1. reqs' = [reqs EXCEPT ![r] = NoRequest] /\ UNCHANGED <<stripe, log>>
      BY <1>2, <2>4 DEF ChangeCall
    <3>2. reqs'[r].step = "idle"
      BY <3>1, NoRequestIsOne DEF IInv, TypeOK
    <3>3. OneRequest' /\ \A q \in Requests : reqs'[q].step # "write"
      BY <2>2, <3>2 DEF OneRequest
    <3> QED BY <2>1, <3>1, <3>3, CalmQuiet
  <2> QED BY <2>3, <2>4
<1> QED BY <1>1, <1>2

LEMMA CalmStripe ==
  ASSUME IInv, CalmInv, calm, UNCHANGED calm, NEW s \in Subs,
         \/ OpenCheckout(s) \/ CompleteCheckout(s)
         \/ \E b \in BOOLEAN : Charge(s, b) \/ Portal(s, b)
  PROVE  CalmInv'
<1>1. CASE OpenCheckout(s)
  <2>1. /\ stripe[s].status = "absent" /\ UNCHANGED <<sub, done, hand, reqs, log>>
        /\ \A t \in Subs : IF t = s THEN stripe'[t].status = "open" ELSE stripe'[t] = stripe[t]
    BY <1>1 DEF OpenCheckout, local, IInv, TypeOK
  <2>2. OneRequest'
    BY <2>1 DEF CalmInv, OneRequest
  <2> QED BY <2>1, <2>2, CalmQuiet
<1>2. CASE CompleteCheckout(s)
  <2>1. /\ UNCHANGED <<sub, done, hand, reqs>>
        /\ stripe[s].status = "open" /\ \A r \in Requests : reqs[r].step = "idle"
        /\ \A t \in Subs : stripe[t].status \notin Live
        /\ stripe' = [stripe EXCEPT ![s].status = IF stripe[s].trial THEN "trialing" ELSE "active"]
        /\ EmitBoth(EventOf(s, "created"), EventOf(s, "completed"))
    BY <1>2 DEF CompleteCheckout, OwnerIsFree, EmitBoth, local
  <2>2. StripeOK /\ stripe'[s].status \in Live /\ \A t \in Subs \ {s} : stripe'[t] = stripe[t]
    BY <2>1 DEF IInv, TypeOK, StripeOK, Live
  <2> QED BY <2>1, <2>2, CalmChange
<1>3. ASSUME NEW b \in BOOLEAN, Charge(s, b)
      PROVE  CalmInv'
  <2>1. UNCHANGED <<sub, done, hand, reqs>> /\ stripe[s].status \in Live
    BY <1>3 DEF Charge, local
  <2>2. \A t \in Subs \ {s} : stripe[t].status \notin Live
    <3>1. PICK n \in 0..Len(log), f \in [0..Len(log) -> Standing] : Course(n, f)
      BY DEF CalmInv
    <3>2. s \in Linked /\ f[Len(log)] = [status |-> stripe[s].status, sid |-> s]
      BY <2>1, <3>1, LiveIsLast
    <3> QED BY <3>1, <3>2 DEF Course, Right, Linked, Ever, Live
  <2>3. CASE b = TRUE
    <3>1. /\ stripe' = [stripe EXCEPT ![s].status = "active", ![s].owed = FALSE]
          /\ EmitBoth(EventOf(s, "updated"), EventOf(s, "paid"))
      BY <1>3, <2>3 DEF Charge
    <3>2. /\ StripeOK /\ \A t \in Subs \ {s} : stripe'[t] = stripe[t]
          /\ stripe'[s].status = "active" /\ stripe'[s].cancel = stripe[s].cancel
      BY ZenonT(40), <3>1 DEF StripeOK, IInv, TypeOK, Live
    <3>3. stripe[s].status # "canceled" /\ stripe'[s].status \in Live
      BY <2>1, <3>2 DEF Live
    <3> QED BY <2>1, <2>2, <3>1, <3>2, <3>3, CalmChange
  <2>4. CASE b = FALSE
    <3>1. /\ stripe' = [stripe EXCEPT ![s].status = "past_due", ![s].owed = TRUE]
          /\ EmitBoth(EventOf(s, "updated"), EventOf(s, "failed"))
      BY <1>3, <2>4 DEF Charge
    <3>2. /\ StripeOK /\ \A t \in Subs \ {s} : stripe'[t] = stripe[t]
          /\ stripe'[s].status = "past_due" /\ stripe'[s].cancel = stripe[s].cancel
      BY ZenonT(40), <3>1 DEF StripeOK, IInv, TypeOK, Live
    <3>3. stripe[s].status # "canceled" /\ stripe'[s].status \in Live
      BY <2>1, <3>2 DEF Live
    <3> QED BY <2>1, <2>2, <3>1, <3>2, <3>3, CalmChange
  <2> QED BY <2>3, <2>4
<1>4. ASSUME NEW b \in BOOLEAN, Portal(s, b)
      PROVE  CalmInv'
  <2>1. /\ UNCHANGED <<sub, done, hand, reqs>> /\ stripe[s].status \in Live
        /\ \A r \in Requests : reqs[r].step = "idle"
        /\ stripe' = [stripe EXCEPT ![s].cancel = b]
        /\ Emit(<<EventOf(s, "updated")>>)
    BY <1>4 DEF Portal, OwnerIsFree, local
  <2>2. OneRequest' /\ \A r \in Requests : reqs'[r].step # "write"
    BY <2>1 DEF OneRequest
  <2> QED BY <2>1, <2>2, CalmFlag
<1> QED BY <1>1, <1>2, <1>3, <1>4

(* Nothing is left to happen to a cancelled subscription's invoice but     *)
(* that it is paid.                                                        *)
LEMMA NextCalm ==
  ASSUME LateInvoices \subseteq {"paid"}, IInv, CalmInv, [Next]_vars
  PROVE  CalmInv'
<1>1. CASE UNCHANGED vars
  <2>1. CASE calm
    <3>1. OneRequest'
      BY <1>1, <2>1 DEF vars, local, CalmInv, OneRequest
    <3> QED BY <1>1, <2>1, <3>1, CalmQuiet DEF vars, local
  <2> QED BY <1>1, <2>1 DEF vars, CalmInv
<1>2. CASE Next /\ ~calm
  BY <1>2 DEF Next, CalmInv
<1>3. CASE Next /\ calm
  <2>1. calm /\ UNCHANGED calm /\ Step
    BY <1>3 DEF Next
  <2>2. CASE TimePasses
    BY <2>1, <2>2, CalmQuiet DEF TimePasses, local, CalmInv, OneRequest
  <2>3. ~Crash
    BY <2>1 DEF Crash
  <2>4. ASSUME NEW s \in Subs, NEW what \in LateInvoices, LateInvoice(s, what)
        PROVE  CalmInv'
    <3>1. what = "paid"
      OBVIOUS
    <3> QED BY <2>1, <2>4, <3>1, CalmLateInvoice
  <2> QED BY <2>1, <2>2, <2>3, <2>4, CalmTrial, CalmHandle, CalmRecord, CalmWrite, CalmRequest, CalmStripe,
          CalmEnd DEF Step
<1> QED BY <1>1, <1>2, <1>3

(* Once every event is applied the row stands where its course ends.       *)
LEMMA CalmIsRight ==
  ASSUME IInv, CalmInv
  PROVE  AccessIsRight
<1>1. CASE ~calm
  BY <1>1 DEF AccessIsRight, AccessFollowsStripe, CancelFlagFollowsStripe, EndedStaysEnded
<1>2. CASE calm
  <2>1. PICK n \in 0..Len(log), f \in [0..Len(log) -> Standing] : Course(n, f)
    BY <1>2 DEF CalmInv
  <2>2. Len(log) \in Nat /\ sub \in Row
    BY DEF IInv, TypeOK
  <2>3. Settled => n = Len(log) /\ f[Len(log)] = Stands
    <3> SUFFICES ASSUME Settled
                 PROVE  n = Len(log)
      BY <2>1 DEF Course, Path
    <3>1. hand = 0 /\ \A i \in 1..Len(log) : i \in done
      BY DEF Settled, IInv, TypeOK
    <3>2. \A i \in 1..Len(log) : i \in 1..n
      BY <2>1, <3>1 DEF Course, Applied
    <3>3. CASE Len(log) = 0
      BY <3>3
    <3>4. CASE Len(log) # 0
      BY <2>2, <3>2, <3>4
    <3> QED BY <3>3, <3>4
  <2>4. AccessFollowsStripe
    <3> SUFFICES ASSUME Settled, Linked # {}
                 PROVE  /\ sub.sid \in Linked
                        /\ \A s \in Linked : stripe[s].status \in Live => s = sub.sid
                        /\ ~sub.legacy => (HasAccess <=> stripe[sub.sid].status \in Paying)
      BY DEF AccessFollowsStripe
    <3>1. Right(Stands)
      BY <2>1, <2>3 DEF Course
    <3>2. sub.sid \in Linked /\ \A s \in Linked : stripe[s].status \in Live => s = sub.sid
      BY <3>1 DEF Right, Stands
    <3>3. sub.sid \in Subs /\ sub.sid # "none"
      BY <3>2, BillingAssumption DEF Linked, BillingAssumption
    <3>4. stripe[sub.sid].status \in Live \cup {"canceled"}
      BY <3>2, <3>3 DEF Linked, Ever, IInv, TypeOK
    <3>5. \/ stripe[sub.sid].status \in Live /\ sub.status = stripe[sub.sid].status
          \/ stripe[sub.sid].status = "canceled" /\ sub.status = "cancelled"
      BY <3>1, <3>2, <3>4 DEF Right, Stands
    <3> QED BY <3>2, <3>3, <3>5 DEF HasAccess, IsAppTrial, Paying, Live
  <2>5. CancelFlagFollowsStripe
    <3> SUFFICES ASSUME Settled, sub.sid # "none", stripe[sub.sid].status \in Live
                 PROVE  sub.cancel = stripe[sub.sid].cancel
      BY DEF CancelFlagFollowsStripe
    <3>1. f[Len(log)].sid = sub.sid /\ sub.sid \in Subs
      BY <2>2, <2>3 DEF Stands, Row
    <3>2. Flag(Len(log), log, sub.cancel, stripe[sub.sid].cancel)
      BY <2>1, <2>3, <3>1 DEF Course, FlagIsRight
    <3> QED BY <2>2, <3>2 DEF Flag
  <2>6. EndedStaysEnded
    BY <2>1 DEF EndedStaysEnded, Course, Applied, EndIsKept, HasAccess, IsAppTrial, Paying
  <2> QED BY <2>4, <2>5, <2>6 DEF AccessIsRight
<1> QED BY <1>1, <1>2

(* With events in the order of Stripe's changes, no crash and no invoice   *)
(* that fails after its subscription ended, a workspace has access exactly *)
(* when its latest subscription does, shows the flag Stripe acts on, and   *)
(* has none once the end was applied (AccessIsRight).                      *)
THEOREM AccessIsTrue ==
  ASSUME LateInvoices \subseteq {"paid"}
  PROVE  Spec => []AccessIsRight
<1>1. IInv /\ CalmInv /\ [Next]_vars => (IInv /\ CalmInv)'
  BY NextIInv, NextCalm
<1>2. IInv /\ CalmInv => AccessIsRight
  BY CalmIsRight
<1> QED BY <1>1, <1>2, InitIInv, InitCalm, PTL DEF Spec
=============================================================================
