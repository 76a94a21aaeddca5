--------------------------- MODULE DeliveryProofs ---------------------------
(***************************************************************************)
(* Theorems about Delivery and RetrySweep for every set of messages and    *)
(* processes and every bound.  IInv, the inductive invariant of Delivery,  *)
(* ties what each process holds in its session (ProcessInv) to the tables  *)
(* as they are now (MessageInv), and says that from insert to outcome a    *)
(* sender is alone.  SweepInv is that of RetrySweep.                       *)
(***************************************************************************)
EXTENDS Delivery, RetrySweep, TLAPS

\* What a process at each step may rely on about its message.
SendInv(p) ==
  Trying(p) /\ work[p].flow = "send" =>
    /\ work[p].seen = NewRow
    /\ row[work[p].msg] = NewRow

RetryInv(p) ==
  Trying(p) /\ work[p].flow = "retry" =>
    /\ pc[p] # "withhold"
    /\ work[p].seen.status = "failed"
    /\ ~work[p].seen.traced
    /\ work[p].seen.attempts < MaxAttempts
    /\ row[work[p].msg].status \in {"failed"} \cup Handed

EventInv(p) ==
  /\ pc[p] \in {"lookup", "post", "suppress"} =>
       <<work[p].msg, work[p].type>> \in emitted \cap processed
  /\ pc[p] = "post" =>
       /\ work[p].type # "complained"
       /\ work[p].seen.status \in Handed
       /\ work[p].seen.traced
       /\ row[work[p].msg].traced

AttemptInv(p) ==
  /\ pc[p] = "insert" => work[p].flow = "send"
  /\ Trying(p) => work[p].flow # "event"
  /\ pc[p] = "withhold" => accepted[work[p].msg] = "no" /\ calls[work[p].msg] = 0
  /\ pc[p] = "record" /\ work[p].outcome = "accepted" => accepted[work[p].msg] # "no"

ProcessInv == \A p \in Processes : SendInv(p) /\ RetryInv(p) /\ EventInv(p) /\ AttemptInv(p)

MessageInv ==
  \A m \in Messages :
    /\ row[m].traced <=> row[m].status \in Handed
    /\ row[m].status \in Handed => accepted[m] # "no"
    /\ row[m].status \in {"delivered", "bounced"} => <<m, row[m].status>> \in emitted \cap processed
    /\ row[m].status \in {"none", "suppressed"} => accepted[m] = "no" /\ calls[m] = 0

Alone ==
  \A p, q \in Processes :
    p # q /\ Trying(p) /\ Trying(q) /\ work[p].flow = "send" => work[p].msg # work[q].msg

IInv == TypeOK /\ ProcessInv /\ MessageInv /\ Alone /\ OneHandlerPerEvent

-----------------------------------------------------------------------------
(* The data: what the row operators return.                                *)

LEMMA WorkTypes ==
  /\ NoRow \in Rows /\ NewRow \in Rows /\ NoWork \in Work
  /\ NewRow.status = "queued" /\ ~NewRow.traced /\ NewRow.attempts = 0
BY DeliveryAssumption
DEF NoWork, Work, NoRow, NewRow, Rows, Flows, EventTypes, Outcomes, Statuses, Categories,
    Retryable, Handed

LEMMA FlushType ==
  ASSUME NEW cur \in Rows, NEW seen \in Rows, NEW new \in Rows
  PROVE  /\ Flush(cur, seen, new) \in Rows
         /\ Flush(cur, seen, new).status \in {cur.status, new.status}
         /\ Flush(cur, seen, new).traced \in {cur.traced, new.traced}
         /\ new.status # seen.status => Flush(cur, seen, new).status = new.status
         /\ new.status = seen.status => Flush(cur, seen, new).status = cur.status
         /\ new.traced # seen.traced => Flush(cur, seen, new).traced = new.traced
         /\ new.traced = seen.traced => Flush(cur, seen, new).traced = cur.traced
BY DEF Flush, Rows

LEMMA ResultType ==
  ASSUME NEW seen \in Rows, seen.attempts < MaxAttempts, NEW outcome \in Outcomes
  PROVE  /\ Result(seen, outcome) \in Rows
         /\ Result(seen, outcome).status = IF outcome = "accepted" THEN "sent" ELSE "failed"
         /\ Result(seen, outcome).traced = (outcome = "accepted")
BY DeliveryAssumption DEF Result, Outcome, Rows, Outcomes, Statuses, Categories, Retryable, Handed

\* A step of process p moves p and its session, and no other.
LEMMA SessionStep ==
  ASSUME TypeOK, NEW p \in Processes, NEW step \in Steps, NEW w \in Work,
         Goto(p, step), work' = [work EXCEPT ![p] = w]
  PROVE  /\ pc' \in [Processes -> Steps] /\ work' \in [Processes -> Work]
         /\ pc'[p] = step /\ work'[p] = w
         /\ \A q \in Processes \ {p} : pc'[q] = pc[q] /\ work'[q] = work[q]
BY DEF TypeOK, Goto

\* A step after which p is idle keeps the invariants that speak of processes,
\* if it disturbs no table they speak of.
LEMMA FinishStep ==
  ASSUME TypeOK, NEW p \in Processes, Finish(p)
  PROVE  /\ pc' \in [Processes -> Steps] /\ work' \in [Processes -> Work]
         /\ pc'[p] = "idle" /\ ~Trying(p)'
         /\ \A q \in Processes \ {p} : pc'[q] = pc[q] /\ work'[q] = work[q]
<1>1. "idle" \in Steps /\ NoWork \in Work
  BY WorkTypes DEF Steps
<1>2. QED
  BY <1>1, SessionStep DEF Finish, Goto, Trying

\* Whoever works on an attempt works on a row that exists.
LEMMA TryingHasRow ==
  ASSUME TypeOK, ProcessInv, NEW p \in Processes, Trying(p)
  PROVE  /\ work[p].msg \in Messages
         /\ row[work[p].msg].status \in {"queued", "failed"} \cup Handed
<1>1. work[p] \in Work /\ work[p].msg \in Messages /\ work[p].flow \in {"send", "retry"}
  BY DEF TypeOK, Work, Flows, ProcessInv, AttemptInv
<1>2. CASE work[p].flow = "send"
  BY <1>1, <1>2, WorkTypes DEF ProcessInv, SendInv
<1>3. CASE work[p].flow = "retry"
  BY <1>1, <1>3 DEF ProcessInv, RetryInv
<1>4. QED
  BY <1>1, <1>2, <1>3

LEMMA FinishKeeps ==
  ASSUME IInv, NEW p \in Processes, Finish(p), UNCHANGED <<db, remote>>
  PROVE  IInv'
<1>1. /\ pc' \in [Processes -> Steps] /\ work' \in [Processes -> Work]
      /\ pc'[p] = "idle" /\ ~Trying(p)'
      /\ \A q \in Processes \ {p} : pc'[q] = pc[q] /\ work'[q] = work[q]
  BY FinishStep DEF IInv
<1>2. TypeOK'
  BY <1>1 DEF IInv, TypeOK, db, remote
<1>3. ProcessInv'
  BY <1>1 DEF IInv, ProcessInv, SendInv, RetryInv, EventInv, AttemptInv, Trying, db, remote
<1>4. MessageInv' /\ Alone' /\ OneHandlerPerEvent'
  BY <1>1 DEF IInv, MessageInv, Alone, OneHandlerPerEvent, Trying, db, remote
<1>5. QED
  BY <1>2, <1>3, <1>4 DEF IInv

-----------------------------------------------------------------------------
(* Each action preserves the invariant.                                    *)

LEMMA SendReadInv == ASSUME IInv, NEW p \in Processes, NEW m \in Messages, SendRead(p, m) PROVE IInv'
<1> DEFINE blocked == \/ Recipient[m] \in suppressed
                      \/ m \in Marketing /\ consent[Recipient[m]] # "on"
           w == [NoWork EXCEPT !.flow = "send", !.msg = m, !.blocked = blocked]
<1>1. w \in Work /\ w.flow = "send" /\ w.msg = m
  BY WorkTypes DEF Work, Flows
<1>2. "insert" \in Steps /\ Goto(p, "insert") /\ work' = [work EXCEPT ![p] = w]
  BY DEF SendRead, Steps
<1> HIDE DEF w
<1>3. /\ pc' \in [Processes -> Steps] /\ work' \in [Processes -> Work]
      /\ pc'[p] = "insert" /\ work'[p] = w
      /\ \A q \in Processes \ {p} : pc'[q] = pc[q] /\ work'[q] = work[q]
  BY <1>1, <1>2, SessionStep DEF IInv
<1>4. UNCHANGED <<db, remote>>
  BY DEF SendRead
<1>5. TypeOK'
  BY <1>3, <1>4 DEF IInv, TypeOK, db, remote
<1>6. ProcessInv'
  BY <1>1, <1>3, <1>4 DEF IInv, ProcessInv, SendInv, RetryInv, EventInv, AttemptInv, Trying, db, remote
<1>7. MessageInv' /\ Alone' /\ OneHandlerPerEvent'
  BY <1>3, <1>4 DEF IInv, MessageInv, Alone, OneHandlerPerEvent, Trying, db, remote
<1>8. QED
  BY <1>5, <1>6, <1>7 DEF IInv

LEMMA SendInsertInv == ASSUME IInv, NEW p \in Processes, SendInsert(p) PROVE IInv'
<1> DEFINE m == work[p].msg
           w == [work[p] EXCEPT !.seen = NewRow]
           step == IF work[p].blocked THEN "withhold" ELSE "call"
<1>1. /\ work[p] \in Work /\ m \in Messages /\ row[m] \in Rows
      /\ pc[p] = "insert" /\ work[p].flow = "send" /\ row[m].status = "none"
  BY DEF IInv, TypeOK, ProcessInv, AttemptInv, SendInsert, Insert, KeyIsFree, Work
<1>2. w \in Work /\ w.flow = "send" /\ w.msg = m /\ w.seen = NewRow
  BY <1>1, WorkTypes DEF Work
<1>3. step \in Steps /\ step \in {"withhold", "call"} /\ Goto(p, step)
      /\ work' = [work EXCEPT ![p] = w]
  BY DEF SendInsert, Insert, KeyIsFree, Steps
<1>4. row' = [row EXCEPT ![m] = NewRow] /\ row'[m] = NewRow
      /\ UNCHANGED <<suppressed, consent, tokens, processed, remote>>
  BY <1>1 DEF SendInsert, Insert, KeyIsFree, IInv, TypeOK
<1> HIDE DEF w, step
<1>5. /\ pc' \in [Processes -> Steps] /\ work' \in [Processes -> Work]
      /\ pc'[p] = step /\ work'[p] = w
      /\ \A q \in Processes \ {p} : pc'[q] = pc[q] /\ work'[q] = work[q]
  BY <1>2, <1>3, SessionStep DEF IInv
<1>6. accepted[m] = "no" /\ calls[m] = 0 /\ ~row[m].traced
  BY <1>1 DEF IInv, MessageInv, Handed
<1>7. \A q \in Processes : (Trying(q) \/ pc[q] = "post") => work[q].msg # m
  <2>1. ASSUME NEW q \in Processes, pc[q] = "post" PROVE work[q].msg # m
    BY <1>6, <2>1 DEF IInv, ProcessInv, EventInv
  <2>2. ASSUME NEW q \in Processes, Trying(q) PROVE row[work[q].msg].status # "none"
    BY <2>2, TryingHasRow DEF IInv, Handed
  <2>3. QED
    BY <1>1, <2>1, <2>2
<1>8. TypeOK'
  BY <1>1, <1>4, <1>5, WorkTypes DEF IInv, TypeOK, remote
<1>9. ProcessInv'
  <2>1. ASSUME NEW q \in Processes \ {p} PROVE (SendInv(q) /\ RetryInv(q) /\ EventInv(q) /\ AttemptInv(q))'
    <3>1. (Trying(q) \/ pc[q] = "post") => row'[work[q].msg] = row[work[q].msg]
      BY <1>4, <1>7 DEF IInv, TypeOK, Work
    <3>2. QED
      BY <3>1, <1>4, <1>5 DEF IInv, remote, ProcessInv, SendInv, RetryInv, EventInv, AttemptInv, Trying
  <2>2. (SendInv(p) /\ RetryInv(p) /\ EventInv(p) /\ AttemptInv(p))'
    BY <1>2, <1>3, <1>4, <1>5, <1>6 DEF remote, ProcessInv, SendInv, RetryInv, EventInv, AttemptInv, Trying
  <2>3. QED
    BY <2>1, <2>2 DEF ProcessInv
<1>10. MessageInv'
  BY <1>1, <1>4, <1>6, WorkTypes DEF IInv, TypeOK, MessageInv, Handed, remote
<1>11. Alone' /\ OneHandlerPerEvent'
  BY <1>2, <1>3, <1>5, <1>7 DEF IInv, Alone, OneHandlerPerEvent, Trying
<1>12. QED
  BY <1>8, <1>9, <1>10, <1>11 DEF IInv

LEMMA SendRefusedInv == ASSUME IInv, NEW p \in Processes, SendRefused(p) PROVE IInv'
<1>1. Finish(p) /\ UNCHANGED <<db, remote>>
  BY DEF SendRefused, KeyIsFree
<1>2. QED
  BY <1>1, FinishKeeps

LEMMA WebhookUnknownInv == ASSUME IInv, NEW p \in Processes, WebhookUnknown(p) PROVE IInv'
<1>1. Finish(p) /\ UNCHANGED <<db, remote>>
  BY DEF WebhookUnknown
<1>2. QED
  BY <1>1, FinishKeeps

LEMMA CrashInv == ASSUME IInv, NEW p \in Processes, Crash(p) PROVE IInv'
<1>1. Finish(p) /\ UNCHANGED <<db, remote>>
  BY DEF Crash
<1>2. QED
  BY <1>1, FinishKeeps

\* What the three updates of a row do to it.
LEMMA WithholdEffect ==
  ASSUME IInv, NEW p \in Processes, SendWithhold(p), NEW m, m = work[p].msg
  PROVE  /\ m \in Messages /\ row[m] = NewRow /\ accepted[m] = "no" /\ calls[m] = 0
         /\ Trying(p) /\ work[p].flow = "send"
         /\ row' \in [Messages -> Rows] /\ row'[m].status = "suppressed" /\ ~row'[m].traced
         /\ \A n \in Messages \ {m} : row'[n] = row[n]
         /\ Finish(p) /\ UNCHANGED <<suppressed, consent, tokens, processed, remote>>
<1> DEFINE new == [status |-> "suppressed", category |-> "suppressed",
                   traced |-> FALSE, attempts |-> work[p].seen.attempts + 1]
<1>1. /\ m \in Messages /\ row[m] = NewRow /\ work[p].seen = NewRow /\ Trying(p)
      /\ work[p].flow = "send" /\ accepted[m] = "no" /\ calls[m] = 0
  BY DEF SendWithhold, IInv, TypeOK, Work, Flows, ProcessInv, SendInv, RetryInv, EventInv, AttemptInv, Trying
<1>2. new \in Rows
  BY <1>1, WorkTypes, DeliveryAssumption DEF Rows, Statuses, Categories
<1>3. /\ row' = [row EXCEPT ![m] = Flush(NewRow, NewRow, new)]
      /\ Finish(p) /\ UNCHANGED <<suppressed, consent, tokens, processed, remote>>
  BY <1>1 DEF SendWithhold, Update
<1> HIDE DEF new
<1>4. /\ Flush(NewRow, NewRow, new) \in Rows
      /\ Flush(NewRow, NewRow, new).status = "suppressed" /\ ~Flush(NewRow, NewRow, new).traced
  BY <1>2, FlushType, WorkTypes DEF new
<1>5. QED
  BY <1>1, <1>3, <1>4 DEF IInv, TypeOK

LEMMA RecordEffect ==
  ASSUME IInv, NEW p \in Processes, RecordResult(p), NEW m, m = work[p].msg
  PROVE  /\ m \in Messages /\ Trying(p)
         /\ row' \in [Messages -> Rows]
         /\ \A n \in Messages \ {m} : row'[n] = row[n]
         /\ row[m].status \in {"queued", "failed"} \cup Handed
         /\ row'[m].status \in {"failed"} \cup Handed
         /\ row[m].traced => row'[m].traced
         /\ row'[m].traced <=> row'[m].status \in Handed
         /\ row'[m].status \in Handed => accepted[m] # "no"
         /\ row'[m].status \in {"delivered", "bounced"} => row'[m].status = row[m].status
         /\ Finish(p) /\ tokens' \in {tokens, tokens \cup {m}}
         /\ UNCHANGED <<suppressed, consent, processed, remote>>
<1> DEFINE seen == work[p].seen
           outcome == work[p].outcome
           new == Result(seen, outcome)
           after == Flush(row[m], seen, new)
<1>1. /\ Trying(p) /\ work[p] \in Work /\ work[p].flow \in {"send", "retry"}
      /\ m \in Messages /\ seen \in Rows /\ outcome \in Outcomes /\ row[m] \in Rows
      /\ outcome = "accepted" => accepted[m] # "no"
      /\ row[m].status \in {"queued", "failed"} \cup Handed
  BY TryingHasRow DEF RecordResult, IInv, TypeOK, Work, Flows, ProcessInv, SendInv, RetryInv, EventInv, AttemptInv, Trying
<1>2. /\ seen.status \in {"queued", "failed"} /\ ~seen.traced /\ seen.attempts < MaxAttempts
      /\ seen.status = "queued" => row[m] = NewRow
      /\ seen.status = "failed" => row[m].status \in {"failed"} \cup Handed
  BY <1>1, WorkTypes, DeliveryAssumption DEF IInv, ProcessInv, SendInv, RetryInv
<1>3. /\ new \in Rows
      /\ new.status = IF outcome = "accepted" THEN "sent" ELSE "failed"
      /\ new.traced = (outcome = "accepted")
  BY <1>1, <1>2, ResultType
<1>4. /\ row' = [row EXCEPT ![m] = after] /\ Finish(p)
      /\ tokens' \in {tokens, tokens \cup {m}} /\ UNCHANGED <<suppressed, consent, processed, remote>>
  BY DEF RecordResult, Update
<1> HIDE DEF new
<1>5. /\ after \in Rows
      /\ outcome = "accepted" => after.status = "sent" /\ after.traced
      /\ outcome # "accepted" => after.traced = row[m].traced
      /\ outcome # "accepted" => after.status = IF seen.status = "queued" THEN "failed" ELSE row[m].status
  BY <1>1, <1>2, <1>3, FlushType DEF Rows
<1> HIDE DEF after
<1>6. /\ row[m].traced => after.traced
      /\ after.status \in {"failed"} \cup Handed
      /\ after.traced <=> after.status \in Handed
      /\ after.status \in Handed => accepted[m] # "no"
      /\ after.status \in {"delivered", "bounced"} => after.status = row[m].status
  BY <1>1, <1>2, <1>5, WorkTypes DEF IInv, MessageInv, Handed
<1>7. row' \in [Messages -> Rows] /\ row'[m] = after /\ \A n \in Messages \ {m} : row'[n] = row[n]
  BY <1>1, <1>4, <1>5 DEF IInv, TypeOK
<1>8. QED
  BY <1>1, <1>4, <1>6, <1>7

LEMMA PostEffect ==
  ASSUME IInv, NEW p \in Processes, WebhookPost(p), NEW m, m = work[p].msg
  PROVE  /\ m \in Messages /\ pc[p] = "post" /\ row[m].status \in Handed
         /\ row' \in [Messages -> Rows]
         /\ \A n \in Messages \ {m} : row'[n] = row[n]
         /\ row'[m].traced /\ row'[m].status \in {row[m].status, work[p].type}
         /\ work[p].type \in {"delivered", "bounced"}
         /\ <<m, work[p].type>> \in emitted \cap processed
         /\ UNCHANGED <<suppressed, consent, tokens, processed, remote>>
<1> DEFINE seen == work[p].seen
           bounced == work[p].type = "bounced"
           new == [seen EXCEPT !.status   = work[p].type,
                               !.category = IF bounced THEN "permanent" ELSE "none"]
           after == Flush(row[m], seen, new)
<1>1. /\ pc[p] = "post" /\ work[p] \in Work /\ m \in Messages /\ seen \in Rows /\ row[m] \in Rows
      /\ work[p].type \in {"delivered", "bounced"} /\ seen.traced
      /\ row[m].traced /\ row[m].status \in Handed
      /\ <<m, work[p].type>> \in emitted \cap processed
  BY DEF WebhookPost, IInv, TypeOK, Work, EventTypes, MessageInv, ProcessInv, EventInv
<1>2. new \in Rows /\ new.traced /\ new.status = work[p].type
  BY <1>1 DEF Rows, Statuses, Handed, Categories
<1>3. /\ row' = [row EXCEPT ![m] = after]
      /\ UNCHANGED <<suppressed, consent, tokens, processed, remote>>
  BY DEF WebhookPost, Update
<1> HIDE DEF new
<1>4. /\ after \in Rows /\ after.traced /\ after.status \in {row[m].status, work[p].type}
  BY <1>1, <1>2, FlushType
<1>5. QED
  BY <1>1, <1>3, <1>4 DEF IInv, TypeOK

LEMMA SendWithholdInv == ASSUME IInv, NEW p \in Processes, SendWithhold(p) PROVE IInv'
<1> DEFINE m == work[p].msg
<1>1. /\ m \in Messages /\ row[m] = NewRow /\ accepted[m] = "no" /\ calls[m] = 0
      /\ Trying(p) /\ work[p].flow = "send"
      /\ row' \in [Messages -> Rows] /\ row'[m].status = "suppressed" /\ ~row'[m].traced
      /\ \A n \in Messages \ {m} : row'[n] = row[n]
      /\ Finish(p) /\ UNCHANGED <<suppressed, consent, tokens, processed, remote>>
  BY WithholdEffect
<1>2. /\ pc' \in [Processes -> Steps] /\ work' \in [Processes -> Work]
      /\ pc'[p] = "idle" /\ ~Trying(p)'
      /\ \A q \in Processes \ {p} : pc'[q] = pc[q] /\ work'[q] = work[q]
  BY <1>1, FinishStep DEF IInv
<1>3. \A q \in Processes \ {p} : (Trying(q) \/ pc[q] = "post") => work[q].msg \in Messages \ {m}
  <2>1. ASSUME NEW q \in Processes \ {p} PROVE work[q].msg \in Messages
    BY DEF IInv, TypeOK, Work
  <2>2. ASSUME NEW q \in Processes \ {p}, Trying(q) PROVE work[q].msg # m
    BY <1>1, <2>2 DEF IInv, Alone
  <2>3. ASSUME NEW q \in Processes \ {p}, pc[q] = "post" PROVE work[q].msg # m
    BY <1>1, <2>3, WorkTypes DEF IInv, ProcessInv, EventInv
  <2>4. QED
    BY <2>1, <2>2, <2>3
<1>4. TypeOK'
  BY <1>1, <1>2 DEF IInv, TypeOK, remote
<1>5. ProcessInv'
  BY <1>1, <1>2, <1>3 DEF IInv, remote, ProcessInv, SendInv, RetryInv, EventInv, AttemptInv, Trying
<1>6. MessageInv'
  BY <1>1 DEF IInv, MessageInv, Handed, remote
<1>7. Alone' /\ OneHandlerPerEvent'
  BY <1>2 DEF IInv, Alone, OneHandlerPerEvent, Trying
<1>8. QED
  BY <1>4, <1>5, <1>6, <1>7 DEF IInv

LEMMA RetryReadInv == ASSUME IInv, NEW p \in Processes, NEW m \in Messages, RetryRead(p, m) PROVE IInv'
<1> DEFINE w == [NoWork EXCEPT !.flow = "retry", !.msg = m, !.seen = row[m]]
<1>1. row[m] \in Rows /\ row[m].status = "failed" /\ row[m].attempts < MaxAttempts /\ ~row[m].traced
  BY DEF RetryRead, RetryFrom, HasFailed, AttemptsLeft, IInv, TypeOK, MessageInv, Handed
<1>2. w \in Work /\ w.flow = "retry" /\ w.msg = m /\ w.seen = row[m]
  BY <1>1, WorkTypes DEF Work, Flows
<1>3. "call" \in Steps /\ Goto(p, "call") /\ work' = [work EXCEPT ![p] = w] /\ UNCHANGED <<db, remote>>
  BY DEF RetryRead, RetryFrom, HasFailed, AttemptsLeft, Steps
<1> HIDE DEF w
<1>4. /\ pc' \in [Processes -> Steps] /\ work' \in [Processes -> Work]
      /\ pc'[p] = "call" /\ work'[p] = w
      /\ \A q \in Processes \ {p} : pc'[q] = pc[q] /\ work'[q] = work[q]
  BY <1>2, <1>3, SessionStep DEF IInv
<1>5. \A q \in Processes : Trying(q) /\ work[q].flow = "send" => work[q].msg # m
  BY <1>1, WorkTypes DEF IInv, ProcessInv, SendInv
<1>6. TypeOK'
  BY <1>3, <1>4 DEF IInv, TypeOK, db, remote
<1>7. ProcessInv'
  BY <1>1, <1>2, <1>3, <1>4 DEF IInv, ProcessInv, SendInv, RetryInv, EventInv, AttemptInv, Trying, db, remote
<1>8. MessageInv'
  BY <1>3 DEF IInv, MessageInv, db, remote
<1>9. Alone' /\ OneHandlerPerEvent'
  BY <1>2, <1>4, <1>5 DEF IInv, Alone, OneHandlerPerEvent, Trying
<1>10. QED
  BY <1>6, <1>7, <1>8, <1>9 DEF IInv

LEMMA ProviderCallInv == ASSUME IInv, NEW p \in Processes, ProviderCall(p) PROVE IInv'
<1> DEFINE m == work[p].msg
           mail == IF work[p].flow = "send" /\ m \in Marketing THEN "footer" ELSE "plain"
           new == IF accepted[m] = "no" THEN mail ELSE accepted[m]
<1>1. /\ pc[p] = "call" /\ Trying(p) /\ work[p] \in Work /\ m \in Messages
      /\ row[m].status \in {"queued", "failed"} \cup Handed
      /\ Goto(p, "record") /\ UNCHANGED <<db, emitted>>
  BY TryingHasRow DEF ProviderCall, Trying, IInv, TypeOK, Work
<1>2. new \in {"footer", "plain"} /\ (accepted[m] # "no" => new = accepted[m])
  BY <1>1 DEF IInv, TypeOK
<1>3. PICK outcome \in Outcomes, kept \in BOOLEAN :
        /\ outcome = "accepted" => kept
        /\ accepted' = [accepted EXCEPT ![m] = IF kept THEN new ELSE accepted[m]]
        /\ calls' = [calls EXCEPT ![m] =
                       IF outcome # "unavailable" /\ calls[m] < MaxCalls THEN calls[m] + 1 ELSE calls[m]]
        /\ work' = [work EXCEPT ![p].outcome = outcome]
  BY DEF ProviderCall
<1> DEFINE w == [work[p] EXCEPT !.outcome = outcome]
<1>4. w \in Work /\ w.flow = work[p].flow /\ w.msg = m /\ w.seen = work[p].seen /\ w.outcome = outcome
  BY <1>1 DEF Work
<1>5. "record" \in Steps /\ work' = [work EXCEPT ![p] = w]
  BY <1>3 DEF Steps
<1> HIDE DEF w, new
<1>6. /\ pc' \in [Processes -> Steps] /\ work' \in [Processes -> Work]
      /\ pc'[p] = "record" /\ work'[p] = w
      /\ \A q \in Processes \ {p} : pc'[q] = pc[q] /\ work'[q] = work[q]
  BY <1>1, <1>4, <1>5, SessionStep DEF IInv
<1>7. /\ accepted' \in [Messages -> {"no", "footer", "plain"}] /\ calls' \in [Messages -> 0..MaxCalls]
      /\ \A n \in Messages : accepted[n] # "no" => accepted'[n] # "no"
      /\ \A n \in Messages \ {m} : accepted'[n] = accepted[n] /\ calls'[n] = calls[n]
      /\ outcome = "accepted" => accepted'[m] # "no"
  BY <1>1, <1>2, <1>3, DeliveryAssumption DEF IInv, TypeOK
<1>8. \A q \in Processes \ {p} : pc[q] = "withhold" => work[q].msg \in Messages \ {m}
  <2>1. ASSUME NEW q \in Processes \ {p}, pc[q] = "withhold"
        PROVE  Trying(q) /\ work[q] \in Work /\ work[q].flow = "send"
    BY <2>1 DEF IInv, TypeOK, Work, Flows, ProcessInv, RetryInv, AttemptInv, Trying
  <2>2. QED
    BY <1>1, <2>1 DEF IInv, Alone, Work
<1>9. TypeOK'
  BY <1>1, <1>6, <1>7 DEF IInv, TypeOK, db
<1>10. ProcessInv'
  <2>1. ASSUME NEW q \in Processes \ {p} PROVE (SendInv(q) /\ RetryInv(q) /\ EventInv(q) /\ AttemptInv(q))'
    BY <1>1, <1>6, <1>7, <1>8 DEF IInv, TypeOK, Work, db, ProcessInv, SendInv, RetryInv, EventInv, AttemptInv, Trying
  <2>2. (SendInv(p) /\ RetryInv(p))'
    BY <1>1, <1>4, <1>6 DEF IInv, db, ProcessInv, SendInv, RetryInv, Trying
  <2>3. (EventInv(p) /\ AttemptInv(p))'
    BY ZenonT(40), <1>1, <1>4, <1>6, <1>7 DEF IInv, ProcessInv, EventInv, AttemptInv, Trying
  <2>4. QED
    BY <2>1, <2>2, <2>3 DEF ProcessInv
<1>11. MessageInv'
  BY <1>1, <1>7 DEF IInv, MessageInv, Handed, db
<1>12. Alone' /\ OneHandlerPerEvent'
  BY <1>1, <1>4, <1>6 DEF IInv, Alone, OneHandlerPerEvent, Trying
<1>13. QED
  BY <1>9, <1>10, <1>11, <1>12 DEF IInv

LEMMA RecordResultInv == ASSUME IInv, NEW p \in Processes, RecordResult(p) PROVE IInv'
<1> DEFINE m == work[p].msg
<1>1. /\ m \in Messages /\ Trying(p)
      /\ row' \in [Messages -> Rows]
      /\ \A n \in Messages \ {m} : row'[n] = row[n]
      /\ row'[m].status \in {"failed"} \cup Handed
      /\ row[m].traced => row'[m].traced
      /\ row'[m].traced <=> row'[m].status \in Handed
      /\ row'[m].status \in Handed => accepted[m] # "no"
      /\ row'[m].status \in {"delivered", "bounced"} => row'[m].status = row[m].status
      /\ Finish(p) /\ tokens' \in {tokens, tokens \cup {m}}
      /\ UNCHANGED <<suppressed, consent, processed, remote>>
  BY RecordEffect
<1>2. /\ pc' \in [Processes -> Steps] /\ work' \in [Processes -> Work]
      /\ pc'[p] = "idle" /\ ~Trying(p)'
      /\ \A q \in Processes \ {p} : pc'[q] = pc[q] /\ work'[q] = work[q]
  BY <1>1, FinishStep DEF IInv
<1>3. \A q \in Processes \ {p} : Trying(q) /\ work[q].flow = "send" => work[q].msg \in Messages \ {m}
  BY <1>1 DEF IInv, Alone, TypeOK, Work
<1>4. TypeOK'
  BY <1>1, <1>2 DEF IInv, TypeOK, remote
<1>5. ProcessInv'
  <2>1. ASSUME NEW q \in Processes \ {p} PROVE (SendInv(q) /\ AttemptInv(q))'
    BY <1>1, <1>2, <1>3 DEF IInv, ProcessInv, SendInv, AttemptInv, Trying, remote
  <2>2. ASSUME NEW q \in Processes \ {p} PROVE (RetryInv(q) /\ EventInv(q))'
    <3>1. work[q].msg \in Messages
      BY DEF IInv, TypeOK, Work
    <3>2. QED
      BY <3>1, <1>1, <1>2 DEF IInv, ProcessInv, RetryInv, EventInv, Trying, remote
  <2>3. (SendInv(p) /\ RetryInv(p) /\ EventInv(p) /\ AttemptInv(p))'
    BY <1>2 DEF SendInv, RetryInv, EventInv, AttemptInv, Trying
  <2>4. QED
    BY <2>1, <2>2, <2>3 DEF ProcessInv
<1>6. MessageInv'
  BY <1>1 DEF IInv, MessageInv, Handed, remote
<1>7. Alone' /\ OneHandlerPerEvent'
  BY <1>2 DEF IInv, Alone, OneHandlerPerEvent, Trying
<1>8. QED
  BY <1>4, <1>5, <1>6, <1>7 DEF IInv

LEMMA EmitInv == ASSUME IInv, NEW e \in Events, Emit(e) PROVE IInv'
<1>1. TypeOK'
  BY DEF Emit, IInv, TypeOK, db
<1>2. ProcessInv'
  BY DEF Emit, IInv, db, ProcessInv, SendInv, RetryInv, EventInv, AttemptInv, Trying
<1>3. MessageInv' /\ Alone' /\ OneHandlerPerEvent'
  BY DEF Emit, IInv, db, MessageInv, Alone, OneHandlerPerEvent, Trying
<1>4. QED
  BY <1>1, <1>2, <1>3 DEF IInv

LEMMA WebhookClaimInv == ASSUME IInv, NEW p \in Processes, NEW e \in Events, WebhookClaim(p, e) PROVE IInv'
<1> DEFINE w == [NoWork EXCEPT !.flow = "event", !.msg = e[1], !.type = e[2]]
<1>1. e[1] \in Messages /\ e[2] \in EventTypes /\ e = <<e[1], e[2]>> /\ e \in emitted /\ e \notin processed
  BY DEF WebhookClaim, Claim, Events
<1>2. w \in Work /\ w.flow = "event" /\ w.msg = e[1] /\ w.type = e[2]
  BY <1>1, WorkTypes DEF Work, Flows
<1>3. /\ "lookup" \in Steps /\ Goto(p, "lookup") /\ work' = [work EXCEPT ![p] = w]
      /\ processed' = processed \cup {e} /\ UNCHANGED <<row, suppressed, consent, tokens, remote>>
  BY DEF WebhookClaim, Claim, Steps
<1> HIDE DEF w
<1>4. /\ pc' \in [Processes -> Steps] /\ work' \in [Processes -> Work]
      /\ pc'[p] = "lookup" /\ work'[p] = w
      /\ \A q \in Processes \ {p} : pc'[q] = pc[q] /\ work'[q] = work[q]
  BY <1>2, <1>3, SessionStep DEF IInv
<1>5. TypeOK'
  BY <1>3, <1>4 DEF IInv, TypeOK, remote
<1>6. ProcessInv'
  <2>1. ASSUME NEW q \in Processes \ {p} PROVE (SendInv(q) /\ RetryInv(q) /\ EventInv(q) /\ AttemptInv(q))'
    BY <1>3, <1>4 DEF IInv, remote, ProcessInv, SendInv, RetryInv, EventInv, AttemptInv, Trying
  <2>2. (SendInv(p) /\ RetryInv(p) /\ EventInv(p) /\ AttemptInv(p))'
    BY <1>1, <1>2, <1>3, <1>4 DEF remote, ProcessInv, SendInv, RetryInv, EventInv, AttemptInv, Trying
  <2>3. QED
    BY <2>1, <2>2 DEF ProcessInv
<1>7. MessageInv' /\ Alone'
  BY <1>3, <1>4 DEF IInv, MessageInv, Alone, Trying, remote
<1>8. OneHandlerPerEvent'
  <2>1. ASSUME NEW q \in Processes \ {p}, pc[q] \in {"lookup", "post", "suppress"}
        PROVE  <<work[q].msg, work[q].type>> # <<w.msg, w.type>>
    BY <1>1, <1>2, <2>1 DEF IInv, ProcessInv, EventInv
  <2>2. QED
    BY <1>4, <2>1 DEF IInv, OneHandlerPerEvent
<1>9. QED
  BY <1>5, <1>6, <1>7, <1>8 DEF IInv

LEMMA WebhookFoundInv == ASSUME IInv, NEW p \in Processes, WebhookFound(p) PROVE IInv'
<1> DEFINE m == work[p].msg
           w == [work[p] EXCEPT !.seen = row[m]]
           step == IF work[p].type = "complained" THEN "suppress" ELSE "post"
<1>1. /\ pc[p] = "lookup" /\ work[p] \in Work /\ m \in Messages /\ row[m] \in Rows
      /\ row[m].traced /\ row[m].status \in Handed
      /\ <<m, work[p].type>> \in emitted \cap processed
  BY DEF WebhookFound, Found, IInv, TypeOK, Work, MessageInv, ProcessInv, EventInv
<1>2. w \in Work /\ w.msg = m /\ w.type = work[p].type /\ w.seen = row[m]
  BY <1>1 DEF Work
<1>3. /\ step \in Steps /\ step \in {"suppress", "post"} /\ (step = "post" => work[p].type # "complained")
      /\ Goto(p, step) /\ work' = [work EXCEPT ![p] = w] /\ UNCHANGED <<db, remote>>
  BY DEF WebhookFound, Found, Steps
<1> HIDE DEF w, step
<1>4. /\ pc' \in [Processes -> Steps] /\ work' \in [Processes -> Work]
      /\ pc'[p] = step /\ work'[p] = w
      /\ \A q \in Processes \ {p} : pc'[q] = pc[q] /\ work'[q] = work[q]
  BY <1>2, <1>3, SessionStep DEF IInv
<1>5. TypeOK'
  BY <1>3, <1>4 DEF IInv, TypeOK, db, remote
<1>6. ProcessInv'
  <2>1. ASSUME NEW q \in Processes \ {p} PROVE (SendInv(q) /\ RetryInv(q) /\ EventInv(q) /\ AttemptInv(q))'
    BY <1>3, <1>4 DEF IInv, db, remote, ProcessInv, SendInv, RetryInv, EventInv, AttemptInv, Trying
  <2>2. (SendInv(p) /\ RetryInv(p) /\ EventInv(p) /\ AttemptInv(p))'
    BY <1>1, <1>2, <1>3, <1>4 DEF db, remote, ProcessInv, SendInv, RetryInv, EventInv, AttemptInv, Trying
  <2>3. QED
    BY <2>1, <2>2 DEF ProcessInv
<1>7. MessageInv' /\ Alone'
  BY <1>3, <1>4 DEF IInv, MessageInv, Alone, Trying, db, remote
<1>8. OneHandlerPerEvent'
  BY <1>1, <1>2, <1>4 DEF IInv, OneHandlerPerEvent
<1>9. QED
  BY <1>5, <1>6, <1>7, <1>8 DEF IInv

LEMMA WebhookPostInv == ASSUME IInv, NEW p \in Processes, WebhookPost(p) PROVE IInv'
<1> DEFINE m == work[p].msg
<1>1. /\ m \in Messages /\ pc[p] = "post" /\ row[m].status \in Handed
      /\ row' \in [Messages -> Rows]
      /\ \A n \in Messages \ {m} : row'[n] = row[n]
      /\ row'[m].traced /\ row'[m].status \in {row[m].status, work[p].type}
      /\ work[p].type \in {"delivered", "bounced"}
      /\ <<m, work[p].type>> \in emitted \cap processed
      /\ UNCHANGED <<suppressed, consent, tokens, processed, remote>>
  BY PostEffect
<1>2. row'[m].status \in Handed
  BY <1>1 DEF Handed
<1>3. /\ pc' \in [Processes -> Steps] /\ work' \in [Processes -> Work]
      /\ pc'[p] \in {"idle", "suppress"} /\ (pc'[p] = "suppress" => work'[p] = work[p])
      /\ \A q \in Processes \ {p} : pc'[q] = pc[q] /\ work'[q] = work[q]
  <2>1. CASE Finish(p)
    BY <2>1, FinishStep DEF IInv
  <2>2. CASE Goto(p, "suppress") /\ work' = [work EXCEPT ![p] = work[p]]
    <3>1. "suppress" \in Steps /\ work[p] \in Work
      BY DEF Steps, IInv, TypeOK
    <3>2. QED
      BY <2>2, <3>1, SessionStep DEF IInv
  <2>3. QED
    BY <2>1, <2>2 DEF WebhookPost, IInv, TypeOK
<1>4. \A q \in Processes : Trying(q) /\ work[q].flow = "send" => work[q].msg \in Messages \ {m}
  BY <1>1, WorkTypes DEF IInv, TypeOK, Work, ProcessInv, SendInv, Handed
<1>5. \A q \in Processes : work[q].msg \in Messages
  BY DEF IInv, TypeOK, Work
<1>6. TypeOK'
  BY <1>1, <1>3 DEF IInv, TypeOK, remote
<1>7. ProcessInv'
  <2>1. ASSUME NEW q \in Processes \ {p} PROVE (SendInv(q) /\ AttemptInv(q))'
    BY <1>1, <1>3, <1>4 DEF IInv, ProcessInv, SendInv, AttemptInv, Trying, remote
  <2>2. ASSUME NEW q \in Processes \ {p} PROVE (RetryInv(q) /\ EventInv(q))'
    <3>1. /\ row[work[q].msg].traced => row'[work[q].msg].traced
          /\ row'[work[q].msg].status \in {row[work[q].msg].status} \cup Handed
      BY <1>1, <1>2, <1>5
    <3>2. QED
      BY <3>1, <1>1, <1>3 DEF IInv, ProcessInv, RetryInv, EventInv, Trying, remote
  <2>3. (SendInv(p) /\ RetryInv(p) /\ EventInv(p) /\ AttemptInv(p))'
    BY <1>1, <1>3 DEF SendInv, RetryInv, EventInv, AttemptInv, Trying, remote
  <2>4. QED
    BY <2>1, <2>2, <2>3 DEF ProcessInv
<1>8. MessageInv'
  BY <1>1, <1>2 DEF IInv, MessageInv, Handed, remote
<1>9. Alone' /\ OneHandlerPerEvent'
  BY <1>1, <1>3 DEF IInv, Alone, OneHandlerPerEvent, Trying
<1>10. QED
  BY <1>6, <1>7, <1>8, <1>9 DEF IInv

LEMMA WebhookSuppressInv == ASSUME IInv, NEW p \in Processes, WebhookSuppress(p) PROVE IInv'
<1>1. /\ Finish(p) /\ suppressed' = suppressed \cup {Recipient[work[p].msg]}
      /\ UNCHANGED <<row, consent, tokens, processed, remote>>
  BY DEF WebhookSuppress
<1>2. /\ pc' \in [Processes -> Steps] /\ work' \in [Processes -> Work]
      /\ pc'[p] = "idle" /\ ~Trying(p)'
      /\ \A q \in Processes \ {p} : pc'[q] = pc[q] /\ work'[q] = work[q]
  BY <1>1, FinishStep DEF IInv
<1>3. Recipient[work[p].msg] \in Addresses
  BY DeliveryAssumption DEF IInv, TypeOK, Work
<1>4. TypeOK'
  BY <1>1, <1>2, <1>3 DEF IInv, TypeOK, remote
<1>5. ProcessInv'
  BY <1>1, <1>2 DEF IInv, ProcessInv, SendInv, RetryInv, EventInv, AttemptInv, Trying, remote
<1>6. MessageInv' /\ Alone' /\ OneHandlerPerEvent'
  BY <1>1, <1>2 DEF IInv, MessageInv, Alone, OneHandlerPerEvent, Trying, remote
<1>7. QED
  BY <1>4, <1>5, <1>6 DEF IInv

LEMMA ConsentInv == ASSUME IInv, NEW a \in Addresses, NEW choice \in {"on", "off"}, consent' = [consent EXCEPT ![a] = choice],
         UNCHANGED <<row, suppressed, tokens, processed, pc, work, remote>> PROVE IInv'
<1>1. TypeOK'
  BY DEF IInv, TypeOK, remote
<1>2. ProcessInv'
  BY DEF IInv, ProcessInv, SendInv, RetryInv, EventInv, AttemptInv, Trying, remote
<1>3. MessageInv' /\ Alone' /\ OneHandlerPerEvent'
  BY DEF IInv, MessageInv, Alone, OneHandlerPerEvent, Trying, remote
<1>4. QED
  BY <1>1, <1>2, <1>3 DEF IInv

LEMMA InitInv == Init => IInv
<1> SUFFICES ASSUME Init PROVE IInv
  OBVIOUS
<1>1. TypeOK
  BY WorkTypes, DeliveryAssumption DEF Init, TypeOK, Steps
<1>2. ProcessInv
  BY DEF Init, ProcessInv, SendInv, RetryInv, EventInv, AttemptInv, Trying
<1>3. MessageInv
  BY DEF Init, MessageInv, NoRow, Handed
<1>4. Alone /\ OneHandlerPerEvent
  BY DEF Init, Alone, OneHandlerPerEvent, Trying
<1>5. QED
  BY <1>1, <1>2, <1>3, <1>4 DEF IInv

LEMMA StutterInv == ASSUME IInv, UNCHANGED vars PROVE IInv'
BY DEF IInv, vars, db, remote, TypeOK, ProcessInv, SendInv, RetryInv, EventInv, AttemptInv,
       MessageInv, Alone, OneHandlerPerEvent, Trying

\* IInv is inductive: one case per action of Next.
LEMMA NextInv == IInv /\ [Next]_vars => IInv'
<1> SUFFICES ASSUME IInv, [Next]_vars PROVE IInv'
  OBVIOUS
<1>1. ASSUME NEW p \in Processes, NEW m \in Messages, SendRead(p, m) \/ RetryRead(p, m) PROVE IInv'
  BY <1>1, SendReadInv, RetryReadInv
<1>2. ASSUME NEW p \in Processes, SendStep(p) PROVE IInv'
  BY <1>2, SendInsertInv, SendRefusedInv, SendWithholdInv, ProviderCallInv, RecordResultInv DEF SendStep
<1>3. ASSUME NEW p \in Processes, WebhookStep(p) PROVE IInv'
  BY <1>3, WebhookUnknownInv, WebhookFoundInv, WebhookPostInv, WebhookSuppressInv DEF WebhookStep
<1>4. ASSUME NEW p \in Processes, Crash(p) PROVE IInv'
  BY <1>4, CrashInv
<1>5. ASSUME NEW p \in Processes, NEW e \in Events, WebhookClaim(p, e) PROVE IInv'
  BY <1>5, WebhookClaimInv
<1>6. ASSUME NEW e \in Events, Emit(e) PROVE IInv'
  BY <1>6, EmitInv
<1>7. ASSUME NEW m \in Messages, Unsubscribe(m) PROVE IInv'
  <2>1. Recipient[m] \in Addresses
    BY DeliveryAssumption
  <2>2. QED
    BY <1>7, <2>1, ConsentInv DEF Unsubscribe
<1>8. ASSUME NEW a \in Addresses, NEW choice \in {"on", "off"}, SetPreference(a, choice) PROVE IInv'
  BY <1>8, ConsentInv DEF SetPreference
<1>9. QED
  BY <1>1, <1>2, <1>3, <1>4, <1>5, <1>6, <1>7, <1>8, StutterInv DEF Next

-----------------------------------------------------------------------------
(* The theorems.                                                           *)

\* The inductive invariant holds in every reachable state.
THEOREM Invariance == Spec => []IInv
BY InitInv, NextInv, PTL DEF Spec

\* The state is well typed.
THEOREM TypeCorrect == Spec => []TypeOK
<1>1. IInv => TypeOK
  BY DEF IInv
<1>2. QED
  BY <1>1, Invariance, PTL

\* From the queued insert to the recorded outcome a sender is alone on its row, and
\* from its claim to its last write a handler on its event.
THEOREM NoInterference == Spec => []OneAtATime
<1>1. IInv => SenderOwnsRow
  BY DEF IInv, ProcessInv, SendInv, Alone, SenderOwnsRow
<1>2. IInv => OneHandlerPerEvent
  BY DEF IInv
<1>3. IInv => OneAtATime
  BY <1>1, <1>2 DEF OneAtATime
<1>4. QED
  BY <1>3, Invariance, PTL

\* No status is fabricated, every message handed over can be traced, and
\* nothing withheld or unrecorded reaches the provider.
THEOREM LedgerIsHonest == Spec => []LedgerIsTrue
<1>1. IInv => StatusIsReal /\ HandedIsTraced
  BY DEF IInv, MessageInv, StatusIsReal, HandedIsTraced
<1>2. IInv => LedgerCoversProvider
  BY DEF IInv, MessageInv, LedgerCoversProvider
<1>3. IInv => LedgerIsTrue
  BY <1>1, <1>2 DEF LedgerIsTrue
<1>4. QED
  BY <1>3, Invariance, PTL

-----------------------------------------------------------------------------
(* Delivery implements MailLedger.                                         *)

LEMMA PhaseOf ==
  /\ Phase("none") = "absent" /\ Phase("queued") = "pending"
  /\ Phase("suppressed") = "blocked" /\ Phase("failed") = "failed"
  /\ \A s \in Handed : Phase(s) = "handed"
BY DEF Phase, Handed

\* A step that leaves every phase, and the provider, as they are.
LEMMA NoMove ==
  ASSUME \A m \in Messages : Phase(row'[m].status) = Phase(row[m].status),
         \A m \in Messages : (accepted'[m] # "no") <=> (accepted[m] # "no")
  PROVE  UNCHANGED Ledger!vars
BY DEF Ledger!vars

\* A step that changes the phase of one message.
LEMMA OneMove ==
  ASSUME NEW m \in Messages, NEW from, NEW to, UNCHANGED accepted,
         \A n \in Messages \ {m} : row'[n] = row[n],
         Phase(row[m].status) \in from, Phase(row'[m].status) = to
  PROVE  Ledger!Move(m, from, to)
BY DEF Ledger!Move

\* The actions that the ledger can see.
LEMMA VisibleSteps ==
  ASSUME [Next]_vars
  PROVE  \/ \E p \in Processes : \/ SendInsert(p) \/ SendWithhold(p) \/ ProviderCall(p)
                                 \/ RecordResult(p) \/ WebhookPost(p)
         \/ UNCHANGED <<row, accepted>>
BY DEF Next, SendStep, WebhookStep, SendRead, RetryRead, RetryFrom, HasFailed, AttemptsLeft, SendRefused, KeyIsFree, WebhookUnknown,
       WebhookFound, Found, WebhookSuppress, Crash, WebhookClaim, Claim, Emit, Unsubscribe, SetPreference,
       vars, db, remote

LEMMA LedgerStep == ASSUME IInv, [Next]_vars PROVE [Ledger!Next]_(Ledger!vars)
<1>1. ASSUME NEW p \in Processes, SendInsert(p) PROVE Ledger!Next
  <2> DEFINE m == work[p].msg
  <2>1. /\ m \in Messages /\ row[m].status = "none" /\ row' = [row EXCEPT ![m] = NewRow]
        /\ row \in [Messages -> Rows] /\ UNCHANGED accepted
    BY <1>1 DEF SendInsert, Insert, KeyIsFree, IInv, TypeOK, Work, remote
  <2>2. row'[m].status = "queued" /\ \A n \in Messages \ {m} : row'[n] = row[n]
    BY <2>1, WorkTypes
  <2>3. Ledger!Open(m)
    BY <2>1, <2>2, OneMove, PhaseOf DEF Ledger!Open
  <2>4. QED
    BY <2>1, <2>3 DEF Ledger!Next
<1>2. ASSUME NEW p \in Processes, SendWithhold(p) PROVE Ledger!Next
  <2> DEFINE m == work[p].msg
  <2>1. /\ m \in Messages /\ row[m].status = "queued" /\ row'[m].status = "suppressed"
        /\ \A n \in Messages \ {m} : row'[n] = row[n]
        /\ accepted[m] = "no" /\ UNCHANGED accepted
    BY <1>2, WithholdEffect, WorkTypes DEF remote
  <2>2. Ledger!Block(m)
    BY <2>1, OneMove, PhaseOf DEF Ledger!Block
  <2>3. QED
    BY <2>1, <2>2 DEF Ledger!Next
<1>3. ASSUME NEW p \in Processes, ProviderCall(p) PROVE [Ledger!Next]_(Ledger!vars)
  <2> DEFINE m == work[p].msg
  <2>1. /\ m \in Messages /\ row[m].status \in {"queued", "failed"} \cup Handed /\ UNCHANGED row
        /\ accepted \in [Messages -> {"no", "footer", "plain"}]
        /\ \E a \in {"no", "footer", "plain"} :
             accepted' = [accepted EXCEPT ![m] = a] /\ (accepted[m] # "no" => a = accepted[m])
    BY <1>3, TryingHasRow DEF ProviderCall, Trying, IInv, TypeOK, db
  <2>2. CASE \A n \in Messages : (accepted'[n] # "no") <=> (accepted[n] # "no")
    BY <2>1, <2>2, NoMove
  <2>3. CASE accepted[m] = "no" /\ accepted'[m] # "no"
    <3>1. row[m].status \in {"queued", "failed"}
      BY <2>1, <2>3 DEF IInv, MessageInv
    <3>2. Phase(row[m].status) \in {"pending", "failed"}
      BY <3>1, PhaseOf
    <3>3. {n \in Messages : accepted'[n] # "no"} = {n \in Messages : accepted[n] # "no"} \cup {m}
      BY <2>1, <2>3
    <3>4. Ledger!Leave(m)
      BY <2>1, <3>2, <3>3 DEF Ledger!Leave
    <3>5. m \in Messages
      BY <2>1
    <3>6. QED
      BY <3>4, <3>5 DEF Ledger!Next, Ledger!Leave
  <2>4. QED
    BY <2>1, <2>2, <2>3
<1>4. ASSUME NEW p \in Processes, RecordResult(p) PROVE [Ledger!Next]_(Ledger!vars)
  <2> DEFINE m == work[p].msg
  <2>1. /\ m \in Messages /\ UNCHANGED accepted
        /\ \A n \in Messages \ {m} : row'[n] = row[n]
        /\ row[m].status \in {"queued", "failed"} \cup Handed
        /\ row'[m].status \in {"failed"} \cup Handed
        /\ row[m].traced => row'[m].traced
        /\ row[m].traced <=> row[m].status \in Handed
        /\ row'[m].traced <=> row'[m].status \in Handed
        /\ row'[m].status \in Handed => accepted[m] # "no"
    BY <1>4, RecordEffect DEF IInv, MessageInv, remote
  <2>2. CASE row'[m].status \in Handed /\ row[m].status \notin Handed
    <3>1. Phase(row[m].status) \in {"pending", "failed"} /\ Phase(row'[m].status) = "handed"
      BY <2>1, <2>2, PhaseOf
    <3>2. Ledger!Settle(m)
      BY <2>1, <2>2, <3>1, OneMove DEF Ledger!Settle
    <3>3. QED
      BY <2>1, <3>2 DEF Ledger!Next
  <2>3. CASE row'[m].status = "failed" /\ row[m].status = "queued"
    <3>1. Phase(row[m].status) \in {"pending"} /\ Phase(row'[m].status) = "failed"
      BY <2>1, <2>3, PhaseOf
    <3>2. Ledger!Fail(m)
      BY <2>1, <3>1, OneMove DEF Ledger!Fail
    <3>3. QED
      BY <2>1, <3>2 DEF Ledger!Next
  <2>4. CASE \/ row'[m].status \in Handed /\ row[m].status \in Handed
             \/ row'[m].status = "failed" /\ row[m].status = "failed"
    <3>1. Phase(row'[m].status) = Phase(row[m].status)
      BY <2>4, PhaseOf
    <3>2. \A n \in Messages : Phase(row'[n].status) = Phase(row[n].status)
      BY <2>1, <3>1
    <3>3. QED
      BY <2>1, <3>2, NoMove
  <2>5. QED
    BY <2>1, <2>2, <2>3, <2>4
<1>5. ASSUME NEW p \in Processes, WebhookPost(p) PROVE UNCHANGED Ledger!vars
  <2> DEFINE m == work[p].msg
  <2>1. /\ m \in Messages /\ UNCHANGED accepted /\ \A n \in Messages \ {m} : row'[n] = row[n]
        /\ row[m].status \in Handed /\ row'[m].status \in Handed
    BY ZenonT(40), <1>5, PostEffect DEF remote, Handed
  <2>2. Phase(row'[m].status) = Phase(row[m].status)
    BY <2>1, PhaseOf
  <2>3. \A n \in Messages : Phase(row'[n].status) = Phase(row[n].status)
    BY <2>1, <2>2
  <2>4. QED
    BY <2>1, <2>3, NoMove
<1>6. CASE UNCHANGED <<row, accepted>>
  BY <1>6, NoMove
<1>7. QED
  BY <1>1, <1>2, <1>3, <1>4, <1>5, <1>6, VisibleSteps

LEMMA LedgerInit == Init => Ledger!Init
BY PhaseOf DEF Init, Ledger!Init, NoRow

\* The e-mail service keeps the ledger's promise.
THEOREM ImplementsLedger == Spec => LedgerSpec
<1>1. Init => Ledger!Init
  BY LedgerInit
<1>2. IInv /\ [Next]_vars => [Ledger!Next]_(Ledger!vars)
  BY LedgerStep
<1>3. QED
  BY <1>1, <1>2, Invariance, PTL DEF Spec, LedgerSpec, Ledger!Spec

LEMMA FinalStep ==
  ASSUME IInv, [Next]_vars
  PROVE  \A m \in Messages : row[m].status \in Handed => row'[m].status \in Handed
<1>1. ASSUME NEW p \in Processes, SendInsert(p), NEW m \in Messages, row[m].status \in Handed
      PROVE  row'[m].status \in Handed
  <2>1. work[p].msg \in Messages /\ work[p].msg # m
    BY <1>1 DEF SendInsert, Insert, KeyIsFree, IInv, TypeOK, Work, Handed
  <2>2. QED
    BY <1>1, <2>1 DEF SendInsert, Insert, KeyIsFree, IInv, TypeOK
<1>2. ASSUME NEW p \in Processes, SendWithhold(p), NEW m \in Messages, row[m].status \in Handed
      PROVE  row'[m].status \in Handed
  BY <1>2, WithholdEffect, WorkTypes DEF Handed
<1>3. ASSUME NEW p \in Processes, RecordResult(p), NEW m \in Messages, row[m].status \in Handed
      PROVE  row'[m].status \in Handed
  BY <1>3, RecordEffect DEF IInv, MessageInv
<1>4. ASSUME NEW p \in Processes, WebhookPost(p), NEW m \in Messages, row[m].status \in Handed
      PROVE  row'[m].status \in Handed
  BY <1>4, PostEffect DEF Handed
<1>5. ASSUME NEW p \in Processes, ProviderCall(p) PROVE UNCHANGED row
  BY <1>5 DEF ProviderCall, db
<1>6. QED
  BY <1>1, <1>2, <1>3, <1>4, <1>5, VisibleSteps

\* A message handed over stays handed over.
THEOREM HandedStays == Spec => HandedIsFinal
<1>1. IInv /\ [Next]_vars =>
        [\A m \in Messages : row[m].status \in Handed => row'[m].status \in Handed]_vars
  BY FinalStep
<1>2. QED
  BY <1>1, Invariance, PTL DEF Spec, HandedIsFinal

-----------------------------------------------------------------------------
(* The retry sweep.                                                          *)

\* A row is taken out of the order: those behind it move up.
LEMMA TakenOut ==
  ASSUME NEW S, NEW s \in Seq(S), NEW i \in DOMAIN s
  PROVE  /\ RemoveAt(s, i) \in Seq(S)
         /\ DOMAIN RemoveAt(s, i) = 1 .. Len(s) - 1
         /\ \A j \in 1 .. Len(s) - 1 : RemoveAt(s, i)[j] = IF j < i THEN s[j] ELSE s[j + 1]
<1> DEFINE a == SubSeq(s, 1, i - 1)
           b == SubSeq(s, i + 1, Len(s))
<1>1. Len(s) \in Nat /\ i \in 1 .. Len(s) /\ \A k \in 1 .. Len(s) : s[k] \in S
  OBVIOUS
<1>2. a \in Seq(S) /\ Len(a) = i - 1 /\ \A j \in 1 .. i - 1 : a[j] = s[j]
  BY <1>1
<1>3. b \in Seq(S) /\ Len(b) = Len(s) - i /\ \A j \in 1 .. Len(s) - i : b[j] = s[j + i]
  BY <1>1
<1> HIDE DEF a, b
<1>4. a \o b \in Seq(S) /\ DOMAIN (a \o b) = 1 .. Len(s) - 1
  BY <1>1, <1>2, <1>3
<1>5. ASSUME NEW j \in 1 .. Len(s) - 1
      PROVE  (a \o b)[j] = IF j < i THEN s[j] ELSE s[j + 1]
  <2>1. CASE j < i
    BY <1>1, <1>2, <1>3, <2>1
  <2>2. CASE ~(j < i)
    <3>0. j \in Len(a) + 1 .. Len(a) + Len(b) /\ (a \o b)[j] = b[j - Len(a)]
      <4>1. j \in Len(a) + 1 .. Len(a) + Len(b) /\ Len(a) \in Nat /\ Len(b) \in Nat
        BY <1>1, <1>2, <1>3, <2>2
      <4> QED BY SMTT(30), <1>2, <1>3, <4>1
    <3>1. j - (i - 1) \in 1 .. Len(s) - i /\ (a \o b)[j] = b[j - (i - 1)]
      <4>1. j - (i - 1) \in 1 .. Len(s) - i
        BY <1>1, <2>2
      <4>2. Len(a) = i - 1
        BY <1>2
      <4> QED BY <3>0, <4>1, <4>2
    <3>2. b[j - (i - 1)] = s[j - (i - 1) + i] /\ j - (i - 1) + i = j + 1
      BY SMTT(30), <1>1, <1>3, <3>1
    <3> QED BY <2>2, <3>1, <3>2
  <2> QED BY <2>1, <2>2
<1>6. RemoveAt(s, i) = a \o b
  BY DEF RemoveAt, a, b
<1> QED BY <1>4, <1>5, <1>6

\* Every other row stays, each once.
LEMMA OthersStay ==
  ASSUME NEW S, NEW s \in Seq(S), IsInjective(s), NEW i \in DOMAIN s
  PROVE  IsInjective(RemoveAt(s, i)) /\ ToSet(RemoveAt(s, i)) = ToSet(s) \ {s[i]}
<1> DEFINE t == RemoveAt(s, i)
<1>1. /\ DOMAIN t = 1 .. Len(s) - 1 /\ Len(s) \in Nat /\ i \in 1 .. Len(s) /\ DOMAIN s = 1 .. Len(s)
      /\ \A j \in 1 .. Len(s) - 1 : t[j] = IF j < i THEN s[j] ELSE s[j + 1]
  BY TakenOut
<1>2. \A j, k \in 1 .. Len(s) : s[j] = s[k] => j = k
  BY <1>1 DEF IsInjective
<1> HIDE DEF t
<1>3. \A j, k \in 1 .. Len(s) - 1 : t[j] = t[k] => j = k
  BY <1>1, <1>2
<1>4. \A j \in 1 .. Len(s) - 1 : \E k \in 1 .. Len(s) : k # i /\ t[j] = s[k]
  BY <1>1
<1>5. ASSUME NEW k \in 1 .. Len(s), k # i
      PROVE  \E j \in 1 .. Len(s) - 1 : t[j] = s[k]
  <2>1. CASE k < i
    BY <1>1, <2>1
  <2>2. CASE k > i
    <3>1. k - 1 \in 1 .. Len(s) - 1 /\ t[k - 1] = s[k]
      BY <1>1, <2>2
    <3> QED BY <3>1
  <2> QED BY <1>1, <1>5, <2>1, <2>2
<1>6. ToSet(t) = ToSet(s) \ {s[i]}
  <2>1. \A x : x \in ToSet(t) <=> \E j \in 1 .. Len(s) - 1 : x = t[j]
    BY <1>1 DEF ToSet
  <2>2. \A x : x \in ToSet(s) <=> \E k \in 1 .. Len(s) : x = s[k]
    BY <1>1 DEF ToSet
  <2>3. \A k \in 1 .. Len(s) : s[k] = s[i] <=> k = i
    BY <1>1, <1>2
  <2>4. \A x : (\E j \in 1 .. Len(s) - 1 : x = t[j]) <=> x # s[i] /\ \E k \in 1 .. Len(s) : x = s[k]
    BY <1>4, <1>5, <2>3
  <2> QED BY <2>1, <2>2, <2>4
<1> QED BY <1>1, <1>3, <1>6 DEF IsInjective, t

LEMMA Appended ==
  ASSUME NEW S, NEW s \in Seq(S), IsInjective(s), NEW m \in S, m \notin ToSet(s)
  PROVE  Append(s, m) \in Seq(S) /\ IsInjective(Append(s, m)) /\ ToSet(Append(s, m)) = ToSet(s) \cup {m}
<1> DEFINE t == Append(s, m)
<1>1. /\ t \in Seq(S) /\ DOMAIN t = 1 .. Len(s) + 1 /\ Len(s) \in Nat /\ DOMAIN s = 1 .. Len(s)
      /\ t[Len(s) + 1] = m /\ \A j \in 1 .. Len(s) : t[j] = s[j]
  OBVIOUS
<1>2. \A j \in 1 .. Len(s) : s[j] # m
  BY <1>1 DEF ToSet
<1>3. \A j, k \in 1 .. Len(s) : s[j] = s[k] => j = k
  BY <1>1 DEF IsInjective
<1> HIDE DEF t
<1>4. \A j \in 1 .. Len(s) + 1 : j \in 1 .. Len(s) \/ j = Len(s) + 1
  BY <1>1
<1>5. \A j, k \in 1 .. Len(s) + 1 : t[j] = t[k] => j = k
  BY <1>1, <1>2, <1>3, <1>4
<1>6. ToSet(t) = ToSet(s) \cup {m}
  <2>1. 1 .. Len(s) \subseteq 1 .. Len(s) + 1 /\ Len(s) + 1 \in 1 .. Len(s) + 1
    BY <1>1
  <2> QED BY <1>1, <1>4, <2>1 DEF ToSet
<1> QED BY <1>1, <1>5, <1>6 DEF IsInjective, t

LEMMA Shortened ==
  ASSUME NEW S, NEW s \in Seq(S), IsInjective(s), s # <<>>
  PROVE  /\ Head(s) \in S /\ Tail(s) \in Seq(S) /\ IsInjective(Tail(s))
         /\ ToSet(Tail(s)) = ToSet(s) \ {Head(s)}
<1> DEFINE t == Tail(s)
<1>1. /\ t \in Seq(S) /\ DOMAIN t = 1 .. Len(s) - 1 /\ Len(s) \in Nat \ {0} /\ DOMAIN s = 1 .. Len(s)
      /\ Head(s) = s[1] /\ Head(s) \in S /\ \A j \in 1 .. Len(s) - 1 : t[j] = s[j + 1] /\ j + 1 \in 2 .. Len(s)
  OBVIOUS
<1>2. \A j, k \in 1 .. Len(s) : s[j] = s[k] => j = k
  BY <1>1 DEF IsInjective
<1> HIDE DEF t
<1>3. \A j, k \in 1 .. Len(s) - 1 : t[j] = t[k] => j = k
  BY <1>1, <1>2
<1>4. \A k \in 1 .. Len(s) : k # 1 => k - 1 \in 1 .. Len(s) - 1 /\ t[k - 1] = s[k]
  BY <1>1
<1>5. \A j \in 1 .. Len(s) - 1 : t[j] # s[1]
  BY <1>1, <1>2
<1>6. ToSet(t) = ToSet(s) \ {s[1]}
  <2>1. \A x : x \in ToSet(t) <=> \E j \in 1 .. Len(s) - 1 : x = t[j]
    BY <1>1 DEF ToSet
  <2>2. \A x : x \in ToSet(s) <=> \E k \in 1 .. Len(s) : x = s[k]
    BY <1>1 DEF ToSet
  <2>3. \A j \in 1 .. Len(s) - 1 : \E k \in 1 .. Len(s) : t[j] = s[k]
    BY <1>1
  <2>4. \A k \in 1 .. Len(s) : s[k] # s[1] => \E j \in 1 .. Len(s) - 1 : t[j] = s[k]
    BY <1>4
  <2>5. ToSet(t) \subseteq ToSet(s) \ {s[1]}
    BY <1>5, <2>1, <2>2, <2>3
  <2>6. ToSet(s) \ {s[1]} \subseteq ToSet(t)
    BY <2>1, <2>2, <2>4
  <2> QED BY <2>5, <2>6
<1> QED BY <1>1, <1>3, <1>6 DEF IsInjective, t

\* list_retryable_communications() lists rows that have failed, each once.
LEMMA ListIsSound ==
  ASSUME failed \in Seq(Listable), IsInjective(failed)
  PROVE  ListedNow \in Seq(Listable) /\ IsInjective(ListedNow)
<1> DEFINE n == IF Len(failed) < Limit THEN Len(failed) ELSE Limit
<1>1. Len(failed) \in Nat /\ n \in 0 .. Len(failed) /\ DOMAIN failed = 1 .. Len(failed)
  BY SweepAssumption
<1> HIDE DEF n
<1>2. /\ SubSeq(failed, 1, n) \in Seq(Listable) /\ DOMAIN SubSeq(failed, 1, n) = 1 .. n
      /\ \A j \in 1 .. n : SubSeq(failed, 1, n)[j] = failed[j] /\ j \in 1 .. Len(failed)
  BY <1>1
<1>3. IsInjective(SubSeq(failed, 1, n))
  BY <1>1, <1>2 DEF IsInjective
<1> QED BY <1>2, <1>3 DEF ListedNow, n

\* A row that has failed or was resolved has been attempted.
SweepInv == SweepIsSound /\ \A m \in ToSet(failed) \cup resolved : attempts[m] # 0

\* Another attempt, whoever makes it, keeps the rows in order.
LEMMA SweepTryKeeps ==
  ASSUME SweepInv, NEW m \in Listable, MayRetry(m), SweepTry(m)
  PROVE  /\ failed' \in Seq(Listable) /\ IsInjective(failed')
         /\ attempts' \in [Listable -> 0..MaxTries]
         /\ resolved' \subseteq Listable \ ToSet(failed')
         /\ \A k \in ToSet(failed') \cup resolved' : attempts'[k] # 0
<1>1. /\ failed \in Seq(Listable) /\ IsInjective(failed) /\ attempts \in [Listable -> 0..MaxTries]
      /\ resolved \subseteq Listable \ ToSet(failed) /\ attempts[m] < MaxTries
      /\ \A k \in ToSet(failed) \cup resolved : attempts[k] # 0
  BY DEF SweepInv, SweepIsSound, SweepTypeOK, MayRetry
<1>2. PICK i \in DOMAIN failed :
        /\ failed[i] = m
        /\ \/ failed' = Append(RemoveAt(failed, i), m) /\ UNCHANGED resolved
           \/ failed' = RemoveAt(failed, i) /\ resolved' = resolved \cup {m}
  BY DEF SweepTry
<1> DEFINE rest == RemoveAt(failed, i)
<1>3. rest \in Seq(Listable) /\ IsInjective(rest) /\ ToSet(rest) = ToSet(failed) \ {m}
  BY <1>1, <1>2, TakenOut, OthersStay
<1> HIDE DEF rest
<1>4. /\ Append(rest, m) \in Seq(Listable) /\ IsInjective(Append(rest, m))
      /\ ToSet(Append(rest, m)) = ToSet(failed) \cup {m}
  <2>1. m \notin ToSet(rest)
    BY <1>3
  <2>2. ToSet(Append(rest, m)) = ToSet(rest) \cup {m} /\ Append(rest, m) \in Seq(Listable) /\ IsInjective(Append(rest, m))
    BY <1>3, <2>1, Appended
  <2> QED BY <1>3, <2>2
<1>5. m \in ToSet(failed)
  BY DEF MayRetry
<1>6. /\ failed' \in Seq(Listable) /\ IsInjective(failed') /\ resolved' \subseteq Listable \ ToSet(failed')
      /\ ToSet(failed') \cup resolved' = ToSet(failed) \cup resolved
  <2>1. CASE failed' = Append(rest, m) /\ UNCHANGED resolved
    BY <1>1, <1>4, <1>5, <2>1
  <2>2. CASE failed' = rest /\ resolved' = resolved \cup {m}
    BY <1>1, <1>3, <1>5, <2>2
  <2> QED BY <1>2, <2>1, <2>2 DEF rest
<1>7. /\ attempts' = [attempts EXCEPT ![m] = @ + 1] /\ MaxTries \in Nat
  BY SweepAssumption DEF SweepTry
<1>8. attempts' \in [Listable -> 0..MaxTries] /\ \A k \in Listable : attempts[k] # 0 => attempts'[k] # 0
  BY <1>1, <1>7
<1>9. \A k \in ToSet(failed) \cup resolved : k \in Listable
  BY <1>1 DEF ToSet
<1> QED BY <1>1, <1>6, <1>8, <1>9

LEMMA SweepInitInv == SweepInit => SweepInv
<1> SUFFICES ASSUME SweepInit PROVE SweepInv
  OBVIOUS
<1>1. /\ <<>> \in Seq(Listable) /\ ToSet(<<>>) = {} /\ IsInjective(<<>>)
  BY DEF ToSet, IsInjective
<1>2. attempts \in [Listable -> 0..MaxTries]
  BY SweepAssumption DEF SweepInit
<1> QED BY <1>1, <1>2 DEF SweepInit, SweepInv, SweepIsSound, SweepTypeOK, OncePerSweep

LEMMA SweepNextInv == SweepInv /\ [SweepNext]_sweepVars => SweepInv'
<1> SUFFICES ASSUME SweepInv, [SweepNext]_sweepVars PROVE SweepInv'
  OBVIOUS
<1>1. /\ failed \in Seq(Listable) /\ IsInjective(failed) /\ attempts \in [Listable -> 0..MaxTries]
      /\ resolved \subseteq Listable \ ToSet(failed) /\ todo \in Seq(Listable) /\ tried \subseteq Listable
      /\ IsInjective(todo) /\ tried \cap ToSet(todo) = {}
      /\ \A k \in ToSet(failed) \cup resolved : attempts[k] # 0
  BY DEF SweepInv, SweepIsSound, SweepTypeOK, OncePerSweep
<1>2. CASE UNCHANGED sweepVars
  BY <1>2 DEF sweepVars, SweepInv, SweepIsSound, SweepTypeOK, OncePerSweep
<1>3. ASSUME NEW m \in Listable, FirstFailure(m) PROVE SweepInv'
  <2>1. /\ m \notin ToSet(failed) /\ m \notin resolved /\ failed' = Append(failed, m)
        /\ attempts' = [attempts EXCEPT ![m] = 1] /\ UNCHANGED <<resolved, todo, tried>>
    BY <1>1, <1>3 DEF FirstFailure
  <2>2. failed' \in Seq(Listable) /\ IsInjective(failed') /\ ToSet(failed') = ToSet(failed) \cup {m}
    BY <1>1, <2>1, Appended
  <2>3. attempts' \in [Listable -> 0..MaxTries] /\ \A k \in ToSet(failed) \cup resolved \cup {m} : attempts'[k] # 0
    <3>1. 1 \in 0..MaxTries
      BY SweepAssumption
    <3>2. \A k \in ToSet(failed) \cup resolved : k \in Listable
      BY <1>1 DEF ToSet
    <3> QED BY <1>1, <2>1, <3>1, <3>2
  <2> QED BY <1>1, <2>1, <2>2, <2>3 DEF SweepInv, SweepIsSound, SweepTypeOK, OncePerSweep
<1>4. ASSUME NEW m \in Listable, UserRetry(m) PROVE SweepInv'
  <2>1. MayRetry(m) /\ SweepTry(m) /\ UNCHANGED <<todo, tried>>
    BY <1>4 DEF UserRetry
  <2> QED BY <1>1, <2>1, SweepTryKeeps DEF SweepInv, SweepIsSound, SweepTypeOK, OncePerSweep
<1>5. CASE StartSweep
  <2>1. todo' = ListedNow /\ tried' = {} /\ UNCHANGED <<failed, attempts, resolved>>
    BY <1>5 DEF StartSweep
  <2> QED BY <1>1, <2>1, ListIsSound DEF SweepInv, SweepIsSound, SweepTypeOK, OncePerSweep
<1>6. CASE SweepAttempt
  <2> DEFINE m == Head(todo)
  <2>1. /\ todo # <<>> /\ MayRetry(m) /\ SweepTry(m) /\ tried' = tried \cup {m} /\ todo' = Tail(todo)
    BY <1>6 DEF SweepAttempt, TryHead
  <2>2. m \in Listable /\ todo' \in Seq(Listable) /\ IsInjective(todo') /\ ToSet(todo') = ToSet(todo) \ {m}
    BY <1>1, <2>1, Shortened
  <2>3. tried' \subseteq Listable /\ tried' \cap ToSet(todo') = {}
    BY <1>1, <2>1, <2>2
  <2> HIDE DEF m
  <2> QED BY <2>1, <2>2, <2>3, SweepTryKeeps DEF SweepInv, SweepIsSound, SweepTypeOK, OncePerSweep
<1>7. CASE SweepSkip
  <2>1. todo # <<>> /\ todo' = Tail(todo) /\ UNCHANGED <<failed, attempts, resolved, tried>>
    BY <1>7 DEF SweepSkip, SkipTo
  <2>2. todo' \in Seq(Listable) /\ IsInjective(todo') /\ ToSet(todo') \subseteq ToSet(todo)
    BY <1>1, <2>1, Shortened
  <2> QED BY <1>1, <2>1, <2>2 DEF SweepInv, SweepIsSound, SweepTypeOK, OncePerSweep
<1> QED BY <1>2, <1>3, <1>4, <1>5, <1>6, <1>7 DEF SweepNext

\* One sweep attempts a row at most once, however its attempts and those of
\* users reorder the list it was made from, and attempts stay bounded.
THEOREM OneAttemptPerSweep == SweepSpec => []SweepIsSound
<1>1. SweepInv => SweepIsSound
  BY DEF SweepInv
<1> QED BY <1>1, SweepInitInv, SweepNextInv, PTL DEF SweepSpec
=============================================================================
