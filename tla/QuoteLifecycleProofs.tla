------------------------- MODULE QuoteLifecycleProofs -------------------------
(* What QuoteLifecycle keeps in every interleaving, for any number of        *)
(* requests and line sets.                                                   *)
EXTENDS QuoteLifecycle, TLAPS

-----------------------------------------------------------------------------
(* Rows and sessions.                                                        *)

LEMMA RowTypes ==
  /\ NoPrice \in Totals /\ NoRow \in Row /\ Idle \in Session
  /\ \A ls \in SUBSET Versions, t \in Terms : Price(ls, t) \in Totals /\ Price(ls, t) # NoPrice
<1>1. \A ls \in SUBSET Versions, t \in Terms : Price(ls, t) \in Totals /\ Price(ls, t) # NoPrice
  BY DEF Totals, Price, NoPrice, Terms
<1>2. NoPrice \in Totals
  BY DEF Totals, NoPrice
<1>3. NoRow \in Row
  BY <1>2 DEF NoRow, Row, Terms
<1>4. Idle \in Session
  BY <1>3, QuoteAssumption DEF Idle, Session, Steps, Terms, Mails, Triggers
<1> QED BY <1>1, <1>2, <1>3, <1>4

LEMMA BecomeIs ==
  ASSUME sess \in [Processes -> Session], NEW p \in Processes, NEW s \in Session, Become(p, s)
  PROVE  /\ sess' \in [Processes -> Session] /\ sess'[p] = s
         /\ \A q \in Processes : q # p => sess'[q] = sess[q]
BY DEF Become

\* A request that writes lines has lines to write.
HasLines(s) == s.step \in {"items", "lines", "complete"} => s.new \in Versions

Ready == {s \in Session : HasLines(s)}

Typed == TypeOK /\ \A p \in Processes : HasLines(sess[p])

LEMMA TypedInit == Init => Typed
<1> SUFFICES ASSUME Init PROVE Typed
  OBVIOUS
<1>1. sess \in [Processes -> Session] /\ \A p \in Processes : HasLines(sess[p])
  <2>1. HasLines(Idle)
    BY DEF HasLines, Idle
  <2> QED BY <2>1, RowTypes DEF Init
<1>2. quote \in Row /\ made \in 0..MaxVersions /\ mail \in Mails
  BY RowTypes, QuoteAssumption DEF Init, Mails
<1>3. projects \in Seq([lines : SUBSET Versions, total : Totals])
  BY DEF Init
<1>4. told \in [Triggers -> 0..2]
  BY DEF Init
<1>5. emailed \in BOOLEAN /\ calm \in BOOLEAN
  BY ZenonT(20) DEF Init
<1> QED BY <1>1, <1>2, <1>3, <1>4, <1>5 DEF Typed, TypeOK

\* The session a step leaves behind is typed: nothing else is to be shown of it.
LEMMA TypedSession ==
  ASSUME Typed, NEW p \in Processes, NEW s \in Ready, Become(p, s),
         quote' \in Row, made' \in 0..MaxVersions, mail' \in Mails, emailed' \in BOOLEAN,
         projects' \in Seq([lines : SUBSET Versions, total : Totals]),
         told' \in [Triggers -> 0..2], calm' = calm
  PROVE  Typed'
<1>1. sess \in [Processes -> Session] /\ calm \in BOOLEAN
  BY DEF Typed, TypeOK
<1>2. sess' \in [Processes -> Session] /\ \A q \in Processes : HasLines(sess'[q])
  BY <1>1, BecomeIs DEF Typed, HasLines, Ready
<1>3. TypeOK'
  BY <1>1, <1>2 DEF TypeOK
<1> QED BY <1>2, <1>3 DEF Typed, HasLines

\* The sessions that steps make, when they are not about to write lines, ...
PlainSteps == Steps \ {"items", "lines", "complete"}

LEMMA PlainSessions ==
  ASSUME TypeOK, NEW p \in Processes, NEW step \in PlainSteps
  PROVE  /\ [Idle EXCEPT !.step = step] \in Ready /\ Load(step) \in Ready
         /\ \A m \in Mails : /\ [Idle EXCEPT !.step = step, !.mail = m] \in Ready
                            /\ [Idle EXCEPT !.step = step, !.mail = m, !.sweep = TRUE] \in Ready
                            /\ [sess[p] EXCEPT !.step = step, !.mail = m] \in Ready
                            /\ [sess[p] EXCEPT !.step = step, !.answer = m] \in Ready
         /\ \A t \in Triggers : [Idle EXCEPT !.step = step, !.trigger = t] \in Ready
         /\ \A n \in 0..MaxVersions, t \in Terms : [Load(step) EXCEPT !.terms = t, !.new = n] \in Ready
<1>1. quote \in Row /\ sess[p] \in Session /\ Idle \in Session /\ step \in Steps
  BY RowTypes DEF TypeOK, PlainSteps
<1>2. \A s \in Session : s.step = step => s \in Ready
  BY DEF Ready, HasLines, PlainSteps
<1>3. Load(step) \in Session /\ Load(step).step = step
  BY <1>1 DEF Load, Session
<1>4. [Idle EXCEPT !.step = step] \in Ready
  BY <1>1, <1>2 DEF Session
<1>5. \A m \in Mails : [Idle EXCEPT !.step = step, !.mail = m] \in Ready
  BY <1>1, <1>2 DEF Session
<1>6. \A m \in Mails : [Idle EXCEPT !.step = step, !.mail = m, !.sweep = TRUE] \in Ready
  BY <1>1, <1>2 DEF Session
<1>7. \A m \in Mails : [sess[p] EXCEPT !.step = step, !.mail = m] \in Ready
  BY <1>1, <1>2 DEF Session
<1>8. \A m \in Mails : [sess[p] EXCEPT !.step = step, !.answer = m] \in Ready
  BY <1>1, <1>2 DEF Session
<1>9. \A t \in Triggers : [Idle EXCEPT !.step = step, !.trigger = t] \in Ready
  BY <1>1, <1>2 DEF Session
<1>10. \A n \in 0..MaxVersions, t \in Terms : [Load(step) EXCEPT !.terms = t, !.new = n] \in Ready
  BY <1>2, <1>3 DEF Session
<1> QED BY <1>2, <1>3, <1>4, <1>5, <1>6, <1>7, <1>8, <1>9, <1>10

LEMMA Drawn ==
  ASSUME TypeOK, Draw
  PROVE  made' \in Versions /\ made' \in 0..MaxVersions
BY QuoteAssumption DEF TypeOK, Draw, Versions

\* ... and when they are.
LEMMA LineSessions ==
  ASSUME Typed, NEW p \in Processes, NEW n \in Versions
  PROVE  /\ [Idle EXCEPT !.step = "items", !.new = n] \in Ready
         /\ [Load("complete") EXCEPT !.new = n] \in Ready
<1>1. quote \in Row /\ sess[p] \in Session /\ Idle \in Session /\ n \in 0..MaxVersions
  BY RowTypes, QuoteAssumption DEF Typed, TypeOK, Versions
<1>2. {"items", "complete", "lines"} \subseteq Steps
  BY DEF Steps
<1>3. [Idle EXCEPT !.step = "items", !.new = n] \in Ready
  BY <1>1, <1>2 DEF Session, Ready, HasLines
<1>4. Load("complete") \in Session
  BY <1>1, <1>2 DEF Load, Session
<1>5. [Load("complete") EXCEPT !.new = n] \in Ready
  BY <1>1, <1>4 DEF Session, Ready, HasLines
<1> QED BY <1>3, <1>5

LEMMA EditSessions ==
  ASSUME TypeOK, NEW p \in Processes, NEW q \in Row, sess[p].new # 0
  PROVE  [sess[p] EXCEPT !.step = "lines", !.loaded = q] \in Ready
<1>1. sess[p] \in Session /\ "lines" \in Steps
  BY DEF TypeOK, Steps
<1>2. sess[p].new \in Versions
  BY <1>1, QuoteAssumption DEF Session, Versions
<1> QED BY <1>1, <1>2 DEF Session, Ready, HasLines

-----------------------------------------------------------------------------
(* Types.                                                                    *)

LEMMA TypedReads ==
  ASSUME Typed, NEW p \in Processes, calm' = calm,
         \/ ApproveRead(p) \/ MarkRead(p) \/ HandoffRead(p) \/ SweepRead(p)
         \/ MailRead(p) \/ MailCheck(p) \/ Crash(p)
  PROVE  Typed'
<1>1. TypeOK /\ UNCHANGED <<offer, post, projects, told>>
  BY DEF Typed, ApproveRead, MarkRead, HandoffRead, SweepRead, MailRead, MailCheck, Crash
<1>2. \A s \in Ready : Become(p, s) => Typed'
  BY <1>1, TypedSession DEF TypeOK, offer, post
<1>3. Idle \in Ready
  BY RowTypes DEF Ready, HasLines, Idle
<1>4. mail \in Mails /\ sess[p].mail \in Mails
  BY <1>1 DEF TypeOK, Session
<1>5. {"approve", "mark", "insert", "call", "project"} \subseteq PlainSteps
  BY DEF Steps, PlainSteps
<1>6. CASE ApproveRead(p) \/ MarkRead(p)
  BY <1>1, <1>6, <1>2, <1>5, PlainSessions DEF ApproveRead, MarkRead
<1>7. CASE HandoffRead(p) \/ Crash(p)
  BY <1>1, <1>7, <1>2, <1>3, <1>5, PlainSessions DEF HandoffRead, Crash, Finish
<1>8. CASE MailRead(p)
  BY <1>1, <1>8, <1>2, <1>4, <1>5, PlainSessions DEF MailRead
<1>9. CASE MailCheck(p)
  BY <1>1, <1>9, <1>2, <1>3, <1>4, <1>5, PlainSessions DEF MailCheck, Finish
<1>10. CASE SweepRead(p)
  BY <1>1, <1>10, <1>2, <1>4, <1>5, PlainSessions DEF SweepRead
<1> QED BY <1>6, <1>7, <1>8, <1>9, <1>10

LEMMA TypedMail ==
  ASSUME Typed, NEW p \in Processes, calm' = calm,
         MailInsert(p) \/ MailCall(p) \/ MailRecord(p) \/ Dispatch(p)
  PROVE  Typed'
<1>1. TypeOK /\ sess[p] \in Session /\ {"call", "record", "check", "rule"} \subseteq PlainSteps
  BY DEF Typed, TypeOK, Steps, PlainSteps
<1>2. Idle \in Ready
  BY RowTypes DEF Ready, HasLines, Idle
<1>3. CASE MailInsert(p)
  <2>1. mail' \in Mails /\ UNCHANGED <<offer, emailed, projects, told>>
    BY <1>1, <1>3 DEF MailInsert, TypeOK, Mails
  <2>2. \A s \in Ready : Become(p, s) => Typed'
    BY <2>1, <1>1, TypedSession DEF TypeOK, offer
  <2> QED BY <1>1, <1>2, <1>3, <2>1, <2>2, PlainSessions DEF MailInsert, Finish
<1>4. CASE MailCall(p)
  <2>1. PICK answer \in {"sent", "failed", "withheld"} :
          Become(p, [sess[p] EXCEPT !.step = "record", !.answer = answer])
    BY <1>4 DEF MailCall
  <2>2. emailed' \in BOOLEAN
    BY <1>4, <1>1, ZenonT(20) DEF MailCall, TypeOK
  <2>3. answer \in Mails
    BY DEF Mails
  <2>4. UNCHANGED <<offer, mail, projects, told>>
    BY <1>4 DEF MailCall
  <2>5. \A s \in Ready : Become(p, s) => Typed'
    BY <2>2, <2>4, <1>1, TypedSession DEF TypeOK, offer
  <2> QED BY <1>1, <2>1, <2>3, <2>5, PlainSessions
<1>5. CASE MailRecord(p)
  <2>1. mail' \in Mails /\ UNCHANGED <<offer, emailed, projects, told>>
    BY <1>1, <1>5 DEF MailRecord, TypeOK, Session, Written
  <2>2. \A s \in Ready : Become(p, s) => Typed'
    BY <2>1, <1>1, TypedSession DEF TypeOK, offer
  <2> QED BY <1>1, <1>2, <1>5, <2>1, <2>2, PlainSessions DEF MailRecord, Finish
<1>6. CASE Dispatch(p)
  <2>1. told' \in [Triggers -> 0..2] /\ UNCHANGED <<offer, post, projects>>
    BY <1>1, <1>6 DEF Dispatch, TypeOK, Session
  <2>2. \A s \in Ready : Become(p, s) => Typed'
    BY <2>1, <1>1, TypedSession DEF TypeOK, offer, post
  <2> QED BY <1>1, <1>2, <1>6, <2>2, PlainSessions DEF Dispatch, Finish
<1> QED BY <1>3, <1>4, <1>5, <1>6

\* A step that writes the quote, its lines or its project.
LEMMA TypedRows ==
  ASSUME Typed, NEW p \in Processes, calm' = calm,
         \/ EditItems(p) \/ CreateItems(p) \/ EditTotals(p)
         \/ \E priced \in BOOLEAN : CreateStone(p, priced) \/ Complete(p, priced)
         \/ \E t \in Terms : CreateGeneral(p, t)
         \/ ApproveWrite(p) \/ MarkWrite(p) \/ HandoffCreate(p)
  PROVE  Typed'
<1>1. TypeOK /\ quote \in Row /\ sess[p] \in Session /\ sess[p].loaded \in Row /\ NoRow \in Row
  BY RowTypes DEF Typed, TypeOK, Session
<1>2. Idle \in Ready
  BY RowTypes DEF Ready, HasLines, Idle
<1>3. "tell" \in PlainSteps
  BY DEF Steps, PlainSteps
<1>4. \A t \in Triggers : [Idle EXCEPT !.step = "tell", !.trigger = t] \in Ready
  BY <1>1, <1>3, PlainSessions
<1>5. {"created", "sent", "approved"} \subseteq Triggers
  BY DEF Triggers
<1>6. \A s \in Ready :
        (Become(p, s) /\ quote' \in Row /\ made' \in 0..MaxVersions /\ UNCHANGED <<post, projects, told>>) => Typed'
  BY <1>1, TypedSession DEF TypeOK, post
<1>7. CASE ApproveWrite(p) \/ MarkWrite(p)
  <2>1. quote' \in Row /\ made' \in 0..MaxVersions /\ UNCHANGED <<post, projects, told>>
    BY <1>1, <1>7 DEF ApproveWrite, MarkWrite, Row, TypeOK
  <2> QED BY <1>4, <1>5, <1>6, <1>7, <2>1 DEF ApproveWrite, MarkWrite, Tell
<1>8. CASE HandoffCreate(p)
  <2>1. projects' \in Seq([lines : SUBSET Versions, total : Totals]) /\ UNCHANGED <<offer, post, told>>
    <3> DEFINE q == sess[p].loaded
               Copy == [lines |-> q.lines, total |-> q.total]
               Copies == [lines : SUBSET Versions, total : Totals]
    <3>1. Copy \in Copies
      BY <1>1 DEF Row
    <3>2. projects' = (IF projects = <<>> THEN <<Copy>> ELSE projects)
      BY <1>8 DEF HandoffCreate
    <3>3. projects \in Seq(Copies)
      BY <1>1 DEF TypeOK
    <3>4. UNCHANGED <<offer, post, told>>
      BY <1>8 DEF HandoffCreate
    <3> HIDE DEF Copy, Copies
    <3>5. projects' \in Seq(Copies)
      BY <3>1, <3>2, <3>3
    <3> QED BY <3>4, <3>5 DEF Copies
  <2> QED BY <1>1, <1>2, <1>8, <2>1, TypedSession DEF HandoffCreate, Finish, TypeOK, offer, post
<1>9. ASSUME ReplaceItems(p), sess[p].new \in Versions
      PROVE  quote' \in Row /\ made' \in 0..MaxVersions /\ UNCHANGED <<post, projects, told>>
  BY <1>1, <1>9 DEF ReplaceItems, Row, TypeOK
<1>10. CASE CreateItems(p) \/ EditItems(p)
  <2>1. sess[p].new \in Versions
    BY <1>10 DEF CreateItems, EditItems, At, Typed, HasLines
  <2> QED BY <1>2, <1>4, <1>5, <1>6, <1>9, <1>10, <2>1 DEF CreateItems, EditItems, Tell, Finish
<1>11. ASSUME Draw PROVE made' \in Versions /\ made' \in 0..MaxVersions
  BY <1>1, <1>11, Drawn
<1>12. \A v \in Versions, b \in BOOLEAN : StoneTotal(v, b) \in Totals
  BY RowTypes DEF StoneTotal, Terms
<1>13. ASSUME NEW t \in Terms, CreateGeneral(p, t) PROVE Typed'
  <2>1. made' \in Versions /\ made' \in 0..MaxVersions
    BY <1>11, <1>13 DEF CreateGeneral
  <2>2. Price({made'}, t) \in Totals
    BY <2>1, RowTypes
  <2>3. quote' \in Row
    BY <1>1, <1>13, <2>2 DEF CreateGeneral, Row
  <2> QED BY <1>6, <1>13, <2>1, <2>3, LineSessions DEF CreateGeneral
<1>14. ASSUME NEW b \in BOOLEAN, CreateStone(p, b) PROVE Typed'
  <2>1. made' \in Versions /\ made' \in 0..MaxVersions
    BY <1>11, <1>14 DEF CreateStone
  <2>2. quote' \in Row
    BY <1>1, <1>12, <1>14, <2>1 DEF CreateStone, Row
  <2>3. CASE b
    BY <1>4, <1>5, <1>6, <1>14, <2>1, <2>2, <2>3 DEF CreateStone, Tell
  <2>4. CASE ~b
    BY <1>1, <1>14, <2>1, <2>2, <2>4 DEF CreateStone, Typed, TypeOK, HasLines, post
  <2> QED BY <2>3, <2>4
<1>15. ASSUME NEW b \in BOOLEAN, Complete(p, b) PROVE Typed'
  <2>1. sess[p].new \in Versions
    BY <1>15 DEF Complete, At, Typed, HasLines
  <2>2. quote' \in Row
    <3>1. PICK missed \in {{}, quote.lines \ sess[p].loaded.lines} :
            quote' = [quote EXCEPT !.lines = missed \cup {sess[p].new},
                                   !.total = Written(NoPrice, StoneTotal(sess[p].new, b), @)]
      BY <1>15 DEF Complete
    <3>2. missed \cup {sess[p].new} \subseteq Versions
      BY <1>1, <2>1 DEF Row
    <3>3. Written(NoPrice, StoneTotal(sess[p].new, b), quote.total) \in Totals
      BY <1>1, <1>12, <2>1 DEF Row, Written
    <3> QED BY <1>1, <3>1, <3>2, <3>3 DEF Row
  <2> QED BY <1>1, <1>2, <1>4, <1>5, <1>6, <1>15, <2>2 DEF Complete, Tell, Finish, TypeOK
<1>16. CASE EditTotals(p)
  <2>1. Repriced(sess[p]) \in Totals /\ sess[p].terms \in Terms
    BY <1>1, RowTypes, QuoteAssumption DEF Repriced, Session, Row, Versions
  <2>2. quote' \in Row /\ UNCHANGED <<made, post, projects, told>>
    BY <1>1, <1>16, <2>1 DEF EditTotals, Row, Written
  <2>3. sess[p].new # 0 => [sess[p] EXCEPT !.step = "lines", !.loaded = quote'] \in Ready
    BY <1>1, <2>2, EditSessions
  <2> QED BY <1>1, <1>2, <1>6, <1>16, <2>2, <2>3 DEF EditTotals, Finish, TypeOK
<1> QED BY <1>7, <1>8, <1>10, <1>13, <1>14, <1>15, <1>16

LEMMA TypedNext == Typed /\ [Next]_vars => Typed'
<1> SUFFICES ASSUME Typed, [Next]_vars PROVE Typed'
  OBVIOUS
<1>1. CASE UNCHANGED vars
  BY <1>1 DEF vars, offer, post, Typed, TypeOK, HasLines
<1>2. CASE Next
  <2>1. calm' = calm
    BY <1>2 DEF Next
  <2>2. CASE Report
    BY <2>1, <2>2 DEF Report, Typed, TypeOK, HasLines, offer, Mails
  <2>3. ASSUME NEW p \in Processes, NEW t \in Terms, NEW new \in BOOLEAN, EditRead(p, t, new)
        PROVE  Typed'
    <3>1. made' \in 0..MaxVersions /\ UNCHANGED <<quote, post, projects, told>>
      BY <2>3, Drawn DEF EditRead, Typed, TypeOK
    <3>2. "totals" \in PlainSteps
      BY DEF Steps, PlainSteps
    <3>3. (IF new THEN made' ELSE 0) \in 0..MaxVersions
      BY <3>1, QuoteAssumption
    <3>4. [Load("totals") EXCEPT !.terms = t, !.new = IF new THEN made' ELSE 0] \in Ready
      BY <3>2, <3>3, PlainSessions DEF Typed
    <3> QED BY <2>1, <2>3, <3>1, <3>4, TypedSession DEF EditRead, Typed, TypeOK, post
  <2>4. ASSUME NEW p \in Processes, CompleteRead(p) PROVE Typed'
    <3>1. made' \in Versions /\ made' \in 0..MaxVersions /\ UNCHANGED <<quote, post, projects, told>>
      BY <2>4, Drawn DEF CompleteRead, Typed
    <3> QED BY <2>1, <2>4, <3>1, LineSessions, TypedSession DEF CompleteRead, Typed, TypeOK, post
  <2> QED BY <1>2, <2>1, <2>2, <2>3, <2>4, TypedReads, TypedMail, TypedRows DEF Next, Step
<1> QED BY <1>1, <1>2

\* Every row, session and project a request leaves behind is one the program
\* knows, whatever interleaves.
THEOREM TypeCorrect == Spec => []TypeOK
<1>1. Typed => TypeOK
  BY DEF Typed
<1> QED BY TypedInit, TypedNext, <1>1, PTL DEF Spec

-----------------------------------------------------------------------------
(* What a request knows when it acts on what it read.  The invariant is that *)
(* no other request can make it untrue: a price, an approval and an accepted *)
(* e-mail are never taken back.                                              *)

\* Session s, when the row is q and the customer has the e-mail iff e.
Knows(s, q, e) ==
  /\ s.step \in {"approve", "mark", "insert", "check"} => q.total # NoPrice
  /\ s.step \in {"call", "record"} => s.sweep \/ q.total # NoPrice
  /\ s.step \in {"totals", "complete"} => q.status # "absent"
  /\ s.step = "project" => s.loaded.total # NoPrice /\ q.approvedAt
  /\ s.step = "record" /\ s.answer \in {"sent", "reported"} => e
  /\ s.step \in {"check", "mark"} /\ s.mail \in {"sent", "reported"} => e
  /\ s.step = "mark" => s.mail \in {"none", "sent"}

RowSound(q) ==
  /\ q.status = "absent" => q.total = NoPrice /\ ~q.approvedAt
  /\ q.status \in {"sent", "approved"} => q.total # NoPrice
  /\ q.status = "approved" => q.approvedAt

ProjectsSound ==
  /\ Len(projects) <= 1
  /\ projects # <<>> => quote.approvedAt
  /\ \A i \in DOMAIN projects : projects[i].total # NoPrice

Sound ==
  /\ RowSound(quote)
  /\ ProjectsSound
  /\ mail \in {"sent", "reported"} => emailed
  /\ \A p \in Processes : Knows(sess[p], quote, emailed)

\* What is never taken back.
Keeps ==
  /\ quote.total # NoPrice => quote'.total # NoPrice
  /\ quote.status # "absent" => quote'.status # "absent"
  /\ quote.approvedAt => quote'.approvedAt
  /\ emailed => emailed'

LEMMA SoundInit == Init => Sound
BY RowTypes DEF Init, Sound, RowSound, ProjectsSound, Knows, NoRow, Idle

\* The session a step leaves behind is the one to look at: the others know
\* what they knew.
LEMMA SoundStep ==
  ASSUME Typed, Sound, Keeps, NEW p \in Processes, NEW s \in Session, Become(p, s),
         Knows(s, quote', emailed'), RowSound(quote'), ProjectsSound',
         mail' \in {"sent", "reported"} => emailed'
  PROVE  Sound'
<1>1. \A q \in Processes : Knows(sess[q], quote, emailed) => Knows(sess[q], quote', emailed')
  BY DEF Keeps, Knows
<1>2. \A q \in Processes : Knows(sess'[q], quote', emailed')
  BY <1>1, BecomeIs DEF Typed, TypeOK, Sound
<1> QED BY <1>2 DEF Sound

LEMMA IdleKnows == Idle \in Ready /\ \A q, e : Knows(Idle, q, e)
BY RowTypes DEF Ready, HasLines, Knows, Idle

\* A step that leaves the tables alone has only its new session to answer for.
LEMMA SoundRead ==
  ASSUME Typed, Sound, NEW p \in Processes, NEW s \in Ready, Become(p, s),
         Knows(s, quote, emailed), UNCHANGED <<quote, post, projects>>
  PROVE  Sound'
<1>1. Keeps /\ RowSound(quote') /\ ProjectsSound' /\ (mail' \in {"sent", "reported"} => emailed')
  BY DEF Sound, Keeps, ProjectsSound, post
<1>2. Knows(s, quote', emailed') /\ s \in Session
  BY DEF post, Ready
<1> QED BY <1>1, <1>2, SoundStep

LEMMA SoundFinish ==
  ASSUME Typed, Sound, Keeps, NEW p \in Processes, Finish(p), RowSound(quote'), ProjectsSound',
         mail' \in {"sent", "reported"} => emailed'
  PROVE  Sound'
<1>1. Idle \in Session /\ Knows(Idle, quote', emailed')
  BY IdleKnows DEF Ready
<1> QED BY <1>1, SoundStep DEF Finish

LEMMA SoundTell ==
  ASSUME Typed, Sound, Keeps, NEW p \in Processes, NEW t \in Triggers, Tell(p, t),
         RowSound(quote'), ProjectsSound', UNCHANGED post
  PROVE  Sound'
<1> DEFINE s == [Idle EXCEPT !.step = "tell", !.trigger = t]
<1>1. "tell" \in PlainSteps
  BY DEF Steps, PlainSteps
<1>2. s \in Session
  BY <1>1, PlainSessions DEF Typed, Ready
<1>3. Knows(s, quote', emailed') /\ Become(p, s)
  BY DEF Knows, Idle, Tell
<1>4. mail' \in {"sent", "reported"} => emailed'
  BY DEF Sound, post
<1> QED BY <1>2, <1>3, <1>4, SoundStep

LEMMA SoundDecisions ==
  ASSUME Typed, Sound, NEW p \in Processes,
         ApproveRead(p) \/ MarkRead(p) \/ HandoffRead(p) \/ Dispatch(p) \/ Crash(p)
  PROVE  Sound'
<1>1. TypeOK /\ UNCHANGED <<quote, post, projects>>
  BY DEF Typed, ApproveRead, MarkRead, HandoffRead, Dispatch, Crash, offer
<1>2. {"approve", "mark", "project", "rule"} \subseteq PlainSteps
  BY DEF Steps, PlainSteps
<1>3. CASE ApproveRead(p)
  <2> DEFINE s == [Idle EXCEPT !.step = "approve"]
  <2>1. s \in Ready
    BY <1>1, <1>2, PlainSessions
  <2>2. Knows(s, quote, emailed) /\ Become(p, s)
    BY <1>3 DEF ApproveRead, Offerable, Knows, Idle
  <2> QED BY <1>1, <2>1, <2>2, SoundRead
<1>4. CASE MarkRead(p)
  <2> DEFINE s == [Idle EXCEPT !.step = "mark"]
  <2>1. s \in Ready
    BY <1>1, <1>2, PlainSessions
  <2>2. Knows(s, quote, emailed) /\ Become(p, s)
    BY <1>4 DEF MarkRead, Knows, Idle
  <2> QED BY <1>1, <2>1, <2>2, SoundRead
<1>5. CASE Finish(p)
  <2>1. Idle \in Ready /\ Knows(Idle, quote, emailed)
    BY IdleKnows
  <2> QED BY <1>1, <1>5, <2>1, SoundRead DEF Finish
<1>6. CASE Dispatch(p) /\ ~Finish(p)
  <2> DEFINE s == [Idle EXCEPT !.step = "rule"]
  <2>1. s \in Ready
    BY <1>1, <1>2, PlainSessions
  <2>2. Knows(s, quote, emailed) /\ Become(p, s)
    BY <1>6 DEF Dispatch, Knows, Idle
  <2> QED BY <1>1, <2>1, <2>2, SoundRead
<1>7. CASE HandoffRead(p) /\ ~Finish(p)
  <2> DEFINE s == Load("project")
  <2>1. s \in Ready
    BY <1>1, <1>2, PlainSessions
  <2>2. s.step = "project" /\ s.loaded = quote
    BY DEF Load, Idle
  <2>3. quote.status = "approved" /\ Become(p, s)
    BY <1>7 DEF HandoffRead
  <2>4. Knows(s, quote, emailed)
    BY <2>2, <2>3 DEF Knows, Sound, RowSound
  <2> QED BY <1>1, <2>1, <2>3, <2>4, SoundRead
<1> QED BY <1>3, <1>4, <1>5, <1>6, <1>7 DEF Crash

LEMMA SoundEdits ==
  ASSUME Typed, Sound, NEW p \in Processes,
         CompleteRead(p) \/ \E t \in Terms, new \in BOOLEAN : EditRead(p, t, new)
  PROVE  Sound'
<1>1. UNCHANGED <<quote, post, projects>>
  BY DEF CompleteRead, EditRead
<1>2. made \in 0..MaxVersions
  BY DEF Typed, TypeOK
<1>3. CASE CompleteRead(p)
  <2> DEFINE s == [Load("complete") EXCEPT !.new = made']
  <2>1. made' \in Versions
    BY <1>3, Drawn DEF CompleteRead, Typed
  <2>2. s \in Ready
    BY <2>1, LineSessions
  <2>3. s.step = "complete"
    BY DEF Load, Idle
  <2>4. quote.status = "draft" /\ Become(p, s)
    BY <1>3 DEF CompleteRead
  <2>5. Knows(s, quote, emailed)
    BY <2>3, <2>4 DEF Knows
  <2> QED BY <1>1, <2>2, <2>4, <2>5, SoundRead
<1>4. ASSUME NEW t \in Terms, NEW new \in BOOLEAN, EditRead(p, t, new)
      PROVE  Sound'
  <2> DEFINE n == IF new THEN made' ELSE 0
             s == [Load("totals") EXCEPT !.terms = t, !.new = n]
  <2>1. n \in 0..MaxVersions /\ "totals" \in PlainSteps
    <3>1. made' \in 0..MaxVersions
      BY <1>2, <1>4, Drawn DEF EditRead, Typed
    <3> QED BY <3>1, QuoteAssumption DEF Steps, PlainSteps
  <2>2. s \in Ready
    BY <2>1, PlainSessions DEF Typed
  <2>3. s.step = "totals"
    BY DEF Load, Idle
  <2>4. quote.status = "draft" /\ Become(p, s)
    BY <1>4 DEF EditRead
  <2>5. Knows(s, quote, emailed)
    BY <2>3, <2>4 DEF Knows
  <2> QED BY <1>1, <2>2, <2>4, <2>5, SoundRead
<1> QED BY <1>3, <1>4

LEMMA SoundMailReads ==
  ASSUME Typed, Sound, NEW p \in Processes, MailRead(p) \/ MailCheck(p) \/ SweepRead(p)
  PROVE  Sound'
<1>1. TypeOK /\ mail \in Mails /\ sess[p].mail \in Mails /\ UNCHANGED <<quote, post, projects>>
  BY DEF Typed, TypeOK, Session, MailRead, MailCheck, SweepRead, offer
<1>2. {"insert", "call", "mark"} \subseteq PlainSteps
  BY DEF Steps, PlainSteps
<1>3. ASSUME Become(p, [Idle EXCEPT !.step = "insert"]), quote.total # NoPrice
      PROVE  Sound'
  <2> DEFINE s == [Idle EXCEPT !.step = "insert"]
  <2>1. s \in Ready
    BY <1>1, <1>2, PlainSessions
  <2>2. Knows(s, quote, emailed) /\ Become(p, s)
    BY <1>3 DEF Knows, Idle
  <2> QED BY <1>1, <2>1, <2>2, SoundRead
<1>4. ASSUME Become(p, [Idle EXCEPT !.step = "call", !.mail = mail]), quote.total # NoPrice
      PROVE  Sound'
  <2> DEFINE s == [Idle EXCEPT !.step = "call", !.mail = mail]
  <2>1. s \in Ready
    BY <1>1, <1>2, PlainSessions
  <2>2. Knows(s, quote, emailed) /\ Become(p, s)
    BY <1>4 DEF Knows, Idle
  <2> QED BY <1>1, <2>1, <2>2, SoundRead
<1>5. ASSUME NEW m \in Mails, m = "sent", emailed, quote.total # NoPrice,
             Become(p, [Idle EXCEPT !.step = "mark", !.mail = m])
      PROVE  Sound'
  <2> DEFINE s == [Idle EXCEPT !.step = "mark", !.mail = m]
  <2>1. s \in Ready
    BY <1>1, <1>2, PlainSessions
  <2>2. Knows(s, quote, emailed) /\ Become(p, s)
    BY <1>5 DEF Knows, Idle
  <2> QED BY <1>1, <2>1, <2>2, SoundRead
<1>6. CASE MailRead(p)
  <2>1. quote.total # NoPrice /\ (mail = "sent" => emailed)
    BY <1>6 DEF MailRead, Offerable, Sound
  <2> QED BY <1>1, <1>3, <1>4, <1>5, <1>6, <2>1 DEF MailRead, ShouldMark
<1>7. CASE MailCheck(p)
  <2>1. quote.total # NoPrice /\ (sess[p].mail = "sent" => emailed)
    BY <1>7 DEF MailCheck, At, Sound, Knows
  <2>2. CASE Finish(p)
    <3>1. Idle \in Ready /\ Knows(Idle, quote, emailed)
      BY IdleKnows
    <3> QED BY <1>1, <2>2, <3>1, SoundRead DEF Finish
  <2> QED BY <1>1, <1>5, <1>7, <2>1, <2>2 DEF MailCheck, ShouldMark
<1>8. CASE SweepRead(p)
  <2> DEFINE s == [Idle EXCEPT !.step = "call", !.mail = mail, !.sweep = TRUE]
  <2>1. s \in Ready
    BY <1>1, <1>2, PlainSessions
  <2>2. Knows(s, quote, emailed) /\ Become(p, s)
    BY <1>8 DEF SweepRead, Knows, Idle
  <2> QED BY <1>1, <2>1, <2>2, SoundRead
<1> QED BY <1>6, <1>7, <1>8

LEMMA SoundMailWrites ==
  ASSUME Typed, Sound, NEW p \in Processes, MailInsert(p) \/ MailCall(p) \/ MailRecord(p)
  PROVE  Sound'
<1>1. TypeOK /\ mail \in Mails /\ sess[p] \in Session /\ UNCHANGED <<quote, projects>>
  BY DEF Typed, TypeOK, MailInsert, MailCall, MailRecord, offer
<1>2. Knows(sess[p], quote, emailed) /\ (mail \in {"sent", "reported"} => emailed)
  BY DEF Sound
<1>3. {"call", "record", "check"} \subseteq PlainSteps
  BY DEF Steps, PlainSteps
<1>4. emailed => emailed'
  BY DEF MailInsert, MailCall, MailRecord
<1>5. Keeps /\ RowSound(quote') /\ ProjectsSound'
  BY <1>1, <1>4 DEF Keeps, Sound, ProjectsSound
<1>6. CASE MailInsert(p)
  <2>1. mail' \in Mails /\ (mail' \in {"sent", "reported"} => emailed')
    BY <1>1, <1>2, <1>4, <1>6 DEF MailInsert, Mails
  <2>2. CASE Finish(p)
    BY <1>5, <2>1, <2>2, SoundFinish
  <2>3. CASE mail' = "queued" /\ Become(p, [sess[p] EXCEPT !.step = "call", !.mail = mail'])
    <3> DEFINE s == [sess[p] EXCEPT !.step = "call", !.mail = mail']
    <3>1. s \in Session
      BY <1>1, <1>3, <2>1, PlainSessions DEF Ready
    <3>2. Knows(s, quote', emailed')
      BY <1>1, <1>2, <1>6 DEF MailInsert, At, Knows, Session
    <3> QED BY <1>5, <2>1, <2>3, <3>1, <3>2, SoundStep
  <2> QED BY <1>6, <2>2, <2>3 DEF MailInsert
<1>7. CASE MailCall(p)
  <2>1. PICK answer \in {"sent", "failed", "withheld"}, through \in BOOLEAN :
          /\ answer = "sent" => through
          /\ emailed' = (emailed \/ through)
          /\ Become(p, [sess[p] EXCEPT !.step = "record", !.answer = answer])
    BY <1>7 DEF MailCall
  <2> DEFINE s == [sess[p] EXCEPT !.step = "record", !.answer = answer]
  <2>2. s \in Session
    BY <1>1, <1>3, PlainSessions DEF Ready, Mails
  <2>3. answer = "sent" => emailed'
    BY <2>1
  <2>4. Knows(s, quote', emailed')
    BY <1>1, <1>2, <1>7, <2>3 DEF MailCall, At, Knows, Session
  <2>5. mail' \in {"sent", "reported"} => emailed'
    BY <1>2, <1>4, <1>7 DEF MailCall
  <2> QED BY <1>5, <2>1, <2>2, <2>4, <2>5, SoundStep
<1>8. CASE MailRecord(p)
  <2>1. mail' \in Mails /\ (mail' \in {"sent", "reported"} => emailed')
    BY <1>1, <1>2, <1>4, <1>8 DEF MailRecord, Written, Session, Knows, At
  <2>2. CASE Finish(p)
    BY <1>5, <2>1, <2>2, SoundFinish
  <2>3. CASE ~sess[p].sweep /\ Become(p, [Idle EXCEPT !.step = "check", !.mail = mail'])
    <3> DEFINE s == [Idle EXCEPT !.step = "check", !.mail = mail']
    <3>1. s \in Session
      BY <1>1, <1>3, <2>1, PlainSessions DEF Ready
    <3>2. quote'.total # NoPrice
      BY <1>1, <1>2, <1>8, <2>3 DEF MailRecord, At, Knows
    <3>3. Knows(s, quote', emailed')
      BY <2>1, <3>2 DEF Knows, Idle
    <3> QED BY <1>5, <2>1, <2>3, <3>1, <3>3, SoundStep
  <2> QED BY <1>8, <2>2, <2>3 DEF MailRecord
<1> QED BY <1>6, <1>7, <1>8

LEMMA SoundWrites ==
  ASSUME Typed, Sound, NEW p \in Processes,
         \/ ApproveWrite(p) \/ MarkWrite(p) \/ HandoffCreate(p)
         \/ CreateItems(p) \/ EditItems(p) \/ EditTotals(p)
         \/ \E b \in BOOLEAN : Complete(p, b),
         quote' \in Row
  PROVE  Sound'
<1>1. TypeOK /\ quote \in Row /\ sess[p] \in Session /\ UNCHANGED post
  BY DEF Typed, TypeOK, ApproveWrite, MarkWrite, HandoffCreate, CreateItems, EditItems,
         EditTotals, Complete, ReplaceItems
<1>2. /\ RowSound(quote) /\ ProjectsSound /\ Knows(sess[p], quote, emailed)
      /\ mail' \in {"sent", "reported"} => emailed'
      /\ emailed' = emailed
  BY <1>1 DEF Sound, post
<1>3. {"created", "sent", "approved"} \subseteq Triggers
  BY DEF Triggers
<1>4. CASE ApproveWrite(p)
  <2>1. quote' = [quote EXCEPT !.status = "approved", !.approvedAt = TRUE] /\ UNCHANGED projects
    BY <1>4 DEF ApproveWrite
  <2>2. quote.total # NoPrice
    BY <1>2, <1>4 DEF ApproveWrite, At, Knows
  <2>3. Keeps /\ RowSound(quote') /\ ProjectsSound'
    BY <1>1, <1>2, <2>1, <2>2 DEF Keeps, RowSound, ProjectsSound, Row
  <2> QED BY <1>1, <1>3, <1>4, <2>3, SoundTell DEF ApproveWrite
<1>5. CASE MarkWrite(p)
  <2>1. quote' = [quote EXCEPT !.status = "sent", !.sentAt = TRUE] /\ UNCHANGED projects
    BY <1>5 DEF MarkWrite
  <2>2. quote.total # NoPrice
    BY <1>2, <1>5 DEF MarkWrite, At, Knows
  <2>3. Keeps /\ RowSound(quote') /\ ProjectsSound'
    BY <1>1, <1>2, <2>1, <2>2 DEF Keeps, RowSound, ProjectsSound, Row
  <2> QED BY <1>1, <1>3, <1>5, <2>3, SoundTell DEF MarkWrite
<1>6. CASE HandoffCreate(p)
  <2>1. quote' = quote /\ Finish(p)
    BY <1>6 DEF HandoffCreate, offer
  <2>2. sess[p].loaded.total # NoPrice /\ quote.approvedAt
    BY <1>2, <1>6 DEF HandoffCreate, At, Knows
  <2>3. ProjectsSound'
    BY <1>2, <1>6, <2>1, <2>2 DEF HandoffCreate, ProjectsSound
  <2>4. Keeps
    BY <1>2, <2>1 DEF Keeps
  <2> QED BY <1>2, <2>1, <2>3, <2>4, SoundFinish
<1>7. CASE CreateItems(p) \/ EditItems(p)
  <2>1. /\ quote'.status = quote.status /\ quote'.total = quote.total
        /\ quote'.approvedAt = quote.approvedAt /\ UNCHANGED projects
    BY <1>1, <1>7 DEF CreateItems, EditItems, ReplaceItems, Row
  <2>2. Keeps /\ RowSound(quote') /\ ProjectsSound'
    BY <1>2, <2>1 DEF Keeps, RowSound, ProjectsSound
  <2> QED BY <1>1, <1>2, <1>3, <1>7, <2>2, SoundFinish, SoundTell DEF CreateItems, EditItems
<1>8. CASE EditTotals(p)
  <2>1. Repriced(sess[p]) # NoPrice
    BY <1>1, RowTypes, QuoteAssumption DEF Repriced, Session, Row, Versions
  <2>2. /\ quote'.status = quote.status /\ quote'.approvedAt = quote.approvedAt
        /\ quote'.total = Written(sess[p].loaded.total, Repriced(sess[p]), quote.total)
        /\ UNCHANGED projects
    BY <1>1, <1>8 DEF EditTotals, Row
  <2>3. quote.status # "absent"
    BY <1>2, <1>8 DEF EditTotals, At, Knows
  <2>4. Keeps /\ RowSound(quote') /\ ProjectsSound'
    BY <1>2, <2>1, <2>2, <2>3 DEF Keeps, RowSound, ProjectsSound, Written
  <2>5. CASE Finish(p)
    BY <1>2, <2>4, <2>5, SoundFinish
  <2>6. CASE sess[p].new # 0 /\ Become(p, [sess[p] EXCEPT !.step = "lines", !.loaded = quote'])
    <3> DEFINE s == [sess[p] EXCEPT !.step = "lines", !.loaded = quote']
    <3>1. s \in Session
      BY <1>1, <2>6, EditSessions DEF Ready
    <3>2. Knows(s, quote', emailed')
      BY <1>1 DEF Knows, Session
    <3> QED BY <1>2, <2>4, <2>6, <3>1, <3>2, SoundStep
  <2> QED BY <1>8, <2>5, <2>6 DEF EditTotals
<1>9. ASSUME NEW b \in BOOLEAN, Complete(p, b)
      PROVE  Sound'
  <2>1. PICK missed \in {{}, quote.lines \ sess[p].loaded.lines} :
          quote' = [quote EXCEPT !.lines = missed \cup {sess[p].new},
                                 !.total = Written(NoPrice, StoneTotal(sess[p].new, b), @)]
    BY <1>9 DEF Complete
  <2>2. /\ quote'.status = quote.status /\ quote'.approvedAt = quote.approvedAt
        /\ quote.total # NoPrice => quote'.total # NoPrice
        /\ UNCHANGED projects
    BY <1>1, <1>9, <2>1 DEF Complete, Row, Written
  <2>3. quote.status # "absent"
    BY <1>2, <1>9 DEF Complete, At, Knows
  <2>4. Keeps /\ RowSound(quote') /\ ProjectsSound'
    BY <1>2, <2>2, <2>3 DEF Keeps, RowSound, ProjectsSound
  <2> QED BY <1>1, <1>2, <1>3, <1>9, <2>4, SoundFinish, SoundTell DEF Complete
<1> QED BY <1>4, <1>5, <1>6, <1>7, <1>8, <1>9

LEMMA SoundCreates ==
  ASSUME Typed, Sound, NEW p \in Processes,
         \/ \E t \in Terms : CreateGeneral(p, t)
         \/ \E b \in BOOLEAN : CreateStone(p, b)
  PROVE  Sound'
<1>1. TypeOK /\ sess[p] \in Session /\ quote.status = "absent" /\ UNCHANGED <<post, projects>>
  BY DEF Typed, TypeOK, CreateGeneral, CreateStone
<1>2. projects = <<>> /\ quote.total = NoPrice /\ ~quote.approvedAt
  BY <1>1 DEF Sound, RowSound, ProjectsSound
<1>3. quote'.status = "draft"
  BY DEF CreateGeneral, CreateStone, NoRow
<1>4. Keeps /\ RowSound(quote') /\ ProjectsSound'
  BY <1>1, <1>2, <1>3 DEF Keeps, RowSound, ProjectsSound, post
<1>5. mail' \in {"sent", "reported"} => emailed'
  BY <1>1 DEF Sound, post
<1>6. made' \in Versions
  BY <1>1, Drawn DEF CreateGeneral, CreateStone
<1>7. ASSUME NEW t \in Terms, CreateGeneral(p, t) PROVE Sound'
  <2> DEFINE s == [Idle EXCEPT !.step = "items", !.new = made']
  <2>1. s \in Session
    BY <1>6, LineSessions DEF Ready
  <2>2. Knows(s, quote', emailed') /\ Become(p, s)
    BY <1>7 DEF Knows, Idle, CreateGeneral
  <2> QED BY <1>4, <1>5, <2>1, <2>2, SoundStep
<1>8. ASSUME NEW b \in BOOLEAN, CreateStone(p, b) PROVE Sound'
  <2>1. CASE b
    BY <1>1, <1>4, <1>8, <2>1, SoundTell DEF CreateStone, Triggers
  <2>2. CASE ~b
    <3>1. sess' = sess /\ sess[p].step = "idle"
      BY <1>8, <2>2 DEF CreateStone, Begins
    <3>2. Become(p, sess[p])
      BY <1>1, <3>1 DEF Become, TypeOK
    <3>3. Knows(sess[p], quote', emailed')
      BY <3>1 DEF Knows
    <3> QED BY <1>1, <1>4, <1>5, <3>2, <3>3, SoundStep
  <2> QED BY <2>1, <2>2
<1> QED BY <1>7, <1>8

LEMMA SoundNext == Typed /\ Sound /\ [Next]_vars => Sound'
<1> SUFFICES ASSUME Typed, Sound, [Next]_vars PROVE Sound'
  OBVIOUS
<1>1. CASE UNCHANGED vars
  BY <1>1 DEF vars, offer, post, Sound, ProjectsSound
<1>2. CASE Report
  BY <1>2 DEF Report, offer, Sound, ProjectsSound
<1>3. CASE Next
  <2>1. quote' \in Row
    BY <1>3, TypedNext DEF Typed, TypeOK
  <2>2. ASSUME NEW p \in Processes, Step(p) PROVE Sound'
    BY <2>1, <2>2, SoundDecisions, SoundEdits, SoundMailReads, SoundMailWrites, SoundWrites, SoundCreates
       DEF Step
  <2> QED BY <1>2, <1>3, <2>2 DEF Next
<1> QED BY <1>1, <1>3

LEMMA Soundness == Spec => [](Typed /\ Sound)
BY TypedInit, TypedNext, SoundInit, SoundNext, PTL DEF Spec

\* Whoever completes a stone draft while others decide on it, whatever was
\* offered, agreed or handed over has a price.
THEOREM OffersAreSound == Spec => []OfferIsSound
<1>1. Sound => NoUnpricedOffer
  BY DEF Sound, RowSound, ProjectsSound, NoUnpricedOffer
<1>2. Sound => OneApprovedProject
  BY DEF Sound, ProjectsSound, OneApprovedProject
<1>3. Sound => OfferIsSound
  BY <1>1, <1>2 DEF OfferIsSound
<1> QED BY <1>3, Soundness, PTL

\* Only mark_quote_sent() marks a quote, and whoever calls it knows of a user's
\* word or of an accepted e-mail.
LEMMA EarnedStep ==
  Typed /\ Sound /\ [Next]_vars =>
    (quote.status # "sent" /\ quote'.status = "sent" =>
       emailed \/ \E p \in Processes : At(p, "mark") /\ sess[p].mail = "none")
<1> SUFFICES ASSUME Typed, Sound, [Next]_vars, quote.status # "sent", quote'.status = "sent"
             PROVE  emailed \/ \E p \in Processes : At(p, "mark") /\ sess[p].mail = "none"
  OBVIOUS
<1>1. quote \in Row /\ Next /\ ~Report
  BY DEF Typed, TypeOK, Next, Report, vars, offer
<1>2. PICK p \in Processes : Step(p)
  BY <1>1 DEF Next
<1>3. CASE MarkWrite(p)
  BY <1>3 DEF MarkWrite, At, Sound, Knows
<1>4. CASE quote' = quote
  BY <1>4
<1>5. CASE ReplaceItems(p) \/ EditTotals(p) \/ ApproveWrite(p) \/ \E b \in BOOLEAN : Complete(p, b)
  BY <1>1, <1>5 DEF ReplaceItems, EditTotals, ApproveWrite, Complete, Row
<1>6. CASE (\E t \in Terms : CreateGeneral(p, t)) \/ \E b \in BOOLEAN : CreateStone(p, b)
  BY <1>6 DEF CreateGeneral, CreateStone, NoRow
<1>7. CASE \/ \E t \in Terms, new \in BOOLEAN : EditRead(p, t, new)
           \/ CompleteRead(p) \/ ApproveRead(p) \/ MarkRead(p) \/ Dispatch(p)
           \/ HandoffRead(p) \/ HandoffCreate(p) \/ MailRead(p) \/ MailInsert(p)
           \/ MailCall(p) \/ MailRecord(p) \/ MailCheck(p) \/ SweepRead(p) \/ Crash(p)
  BY <1>4, <1>7 DEF EditRead, CompleteRead, ApproveRead, MarkRead, Dispatch, HandoffRead,
     HandoffCreate, MailRead, MailInsert, MailCall, MailRecord, MailCheck, SweepRead, Crash, offer
<1> QED BY <1>2, <1>3, <1>5, <1>6, <1>7 DEF Step, CreateItems, EditItems

\* A failed attempt never marks a quote as sent, whether its own request, another
\* or the sweep made it, and whatever a webhook has stored since.
THEOREM Earned == Spec => SentIsEarned
BY Soundness, EarnedStep, PTL DEF Spec, SentIsEarned


-----------------------------------------------------------------------------
(* Requests that do not overlap and do not die.  There is one of them at     *)
(* most, and its session says how far the story that quote, project and      *)
(* dispatches tell has come.  In these, q is the row, ps the projects, ts the*)
(* dispatches, s the session.                                                *)

\* What holds of the row whatever a request is doing.
RowIsSane(q) ==
  /\ q.status = "absent" => q = NoRow
  /\ q.status # "absent" /\ q.kind = "general" => q.total # NoPrice
  /\ q.status \in {"sent", "approved"} => q.total # NoPrice
  /\ q.kind = "stone" => q.terms = "standard"
  /\ q.status = "draft" => ~q.sentAt
  /\ q.status = "sent" => q.sentAt
  /\ q.approvedAt <=> q.status = "approved"

\* The total is that of the lines, or of those the request is about to write.
PriceIsDue(s, q) ==
  q.total # NoPrice => q.total = Price(IF s.step \in {"items", "lines"} THEN {s.new} ELSE q.lines, q.terms)

\* What the request read still holds.
ReadIsTrue(s, q, ps) ==
  /\ s.step \in {"items", "totals", "lines"} => q.status = "draft" /\ q.kind = "general"
  /\ s.step = "complete" => q.status = "draft" /\ q.kind = "stone" /\ q.total = NoPrice
  /\ s.step \in {"items", "lines"} => q.lines = s.loaded.lines
  /\ s.step \in {"totals", "complete", "project"} => s.loaded = q
  /\ s.step \in {"approve", "insert", "check"} \/ (s.step \in {"call", "record"} /\ ~s.sweep) =>
       q.total # NoPrice /\ q.status \in {"draft", "sent"}
  /\ s.step = "mark" => q.total # NoPrice /\ q.status = "draft"
  /\ s.step = "project" => q.status = "approved" /\ ps = <<>>

\* The project is that of the approved quote.
ProjectIsTrue(q, ps) ==
  ps # <<>> => q.status = "approved" /\ q.total = ps[1].total /\ q.lines = ps[1].lines

Happened(t, q) == \/ t = "created" /\ q.total # NoPrice
                  \/ t = "sent" /\ q.sentAt
                  \/ t = "approved" /\ q.approvedAt

\* The dispatch that the request has yet to make.
Due(s, t) == (s.step = "items" /\ t = "created") \/ (s.step = "tell" /\ s.trigger = t)

\* Rules were told once of what happened, but for the dispatch to come.
RulesHeard(s, q, ts) ==
  \A t \in Triggers : /\ ts[t] = IF Happened(t, q) /\ ~Due(s, t) THEN 1 ELSE 0
                      /\ Due(s, t) => Happened(t, q)

Story(s, q, ps, ts) ==
  RowIsSane(q) /\ PriceIsDue(s, q) /\ ReadIsTrue(s, q, ps) /\ ProjectIsTrue(q, ps) /\ RulesHeard(s, q, ts)

Alone(p) == \A q \in Processes : q # p => At(q, "idle")

CalmInv ==
  calm => \/ AtRest /\ Story(Idle, quote, projects, told)
          \/ \E p \in Processes : Alone(p) /\ Story(sess[p], quote, projects, told)

LEMMA CalmInit == Init => CalmInv
<1> SUFFICES ASSUME Init PROVE CalmInv
  OBVIOUS
<1>1. AtRest
  BY DEF Init, AtRest, Idle
<1>2. RowIsSane(NoRow) /\ PriceIsDue(Idle, NoRow) /\ ReadIsTrue(Idle, NoRow, <<>>) /\ ProjectIsTrue(NoRow, <<>>)
  BY DEF RowIsSane, PriceIsDue, ReadIsTrue, ProjectIsTrue, NoRow, Idle
<1>3. RulesHeard(Idle, NoRow, told)
  BY DEF Init, RulesHeard, Happened, Due, NoRow, Idle
<1> QED BY <1>1, <1>2, <1>3 DEF CalmInv, Story, Init

\* A session without a step tells the story of none.
LEMMA StoryAtRest ==
  ASSUME NEW s, NEW q, NEW ps, NEW ts, s.step = "idle"
  PROVE  Story(s, q, ps, ts) <=> Story(Idle, q, ps, ts)
<1>1. Idle.step = "idle"
  BY DEF Idle
<1>2. PriceIsDue(s, q) <=> PriceIsDue(Idle, q)
  BY <1>1 DEF PriceIsDue
<1>3. ReadIsTrue(s, q, ps) <=> ReadIsTrue(Idle, q, ps)
  BY <1>1 DEF ReadIsTrue
<1>4. \A t : Due(s, t) <=> Due(Idle, t)
  BY <1>1 DEF Due
<1>5. RulesHeard(s, q, ts) <=> RulesHeard(Idle, q, ts)
  BY <1>4 DEF RulesHeard
<1> QED BY <1>2, <1>3, <1>5 DEF Story

LEMMA BeginsAlone ==
  ASSUME CalmInv, calm, NEW p \in Processes, Begins(p)
  PROVE  Alone(p) /\ Story(Idle, quote, projects, told)
<1>1. AtRest /\ Alone(p)
  BY DEF Begins, AtRest, Alone, At
<1>2. ASSUME NEW q \in Processes, Story(sess[q], quote, projects, told)
      PROVE  Story(Idle, quote, projects, told)
  BY <1>1, <1>2, StoryAtRest DEF AtRest
<1> QED BY <1>1, <1>2 DEF CalmInv

LEMMA ActsAlone ==
  ASSUME CalmInv, calm, NEW p \in Processes, ~At(p, "idle")
  PROVE  Alone(p) /\ Story(sess[p], quote, projects, told)
BY DEF CalmInv, AtRest, Alone, At

\* The session a step leaves behind goes on with the story.
LEMMA CalmStep ==
  ASSUME Typed, NEW p \in Processes, Alone(p), NEW s \in Session, Become(p, s),
         Story(s, quote', projects', told')
  PROVE  CalmInv'
<1>1. sess'[p] = s /\ \A q \in Processes : q # p => sess'[q] = sess[q]
  BY BecomeIs DEF Typed, TypeOK
<1>2. Alone(p)'
  BY <1>1 DEF Alone, At
<1> QED BY <1>1, <1>2 DEF CalmInv

LEMMA CalmFinish ==
  ASSUME Typed, NEW p \in Processes, Alone(p), Finish(p), Story(Idle, quote', projects', told')
  PROVE  CalmInv'
BY CalmStep, RowTypes DEF Finish

\* A step that writes neither quote, project nor dispatch has only what the new
\* session read to answer for.
Reading(s) == s.step \notin {"items", "lines", "tell"}

LEMMA CalmRead ==
  ASSUME Typed, NEW p \in Processes, Alone(p), NEW r, Story(r, quote, projects, told), Reading(r),
         NEW s \in Session, Reading(s), Become(p, s), ReadIsTrue(s, quote, projects),
         UNCHANGED <<quote, projects, told>>
  PROVE  CalmInv'
<1>1. PriceIsDue(s, quote)
  BY DEF Story, Reading, PriceIsDue
<1>2. \A t : ~Due(s, t) /\ ~Due(r, t)
  BY DEF Due, Reading
<1>3. RulesHeard(s, quote, told)
  BY <1>2 DEF Story, RulesHeard
<1>4. Story(s, quote', projects', told')
  BY <1>1, <1>3 DEF Story
<1> QED BY <1>4, CalmStep

LEMMA IdleReads == Idle \in Session /\ Reading(Idle) /\ ReadIsTrue(Idle, quote, projects)
BY RowTypes DEF Reading, ReadIsTrue, Idle

\* Requests that begin by reading.
LEMMA CalmBegins ==
  ASSUME Typed, CalmInv, calm, NEW p \in Processes, Begins(p),
         \/ ApproveRead(p) \/ MarkRead(p) \/ HandoffRead(p) \/ MailRead(p) \/ SweepRead(p)
         \/ CompleteRead(p) \/ \E t \in Terms, new \in BOOLEAN : EditRead(p, t, new)
  PROVE  CalmInv'
<1>0. TypeOK /\ Alone(p) /\ Story(Idle, quote, projects, told) /\ Reading(Idle) /\ mail \in Mails
  BY BeginsAlone, IdleReads DEF Typed, TypeOK
<1>1. UNCHANGED <<quote, projects, told>>
  BY DEF ApproveRead, MarkRead, HandoffRead, MailRead, SweepRead, CompleteRead, EditRead, offer
<1>2. ASSUME NEW s \in Ready, Reading(s), ReadIsTrue(s, quote, projects), Become(p, s)
      PROVE  CalmInv'
  BY <1>0, <1>1, <1>2, CalmRead DEF Ready
<1>3. {"approve", "mark", "project", "insert", "call", "totals"} \subseteq PlainSteps
  BY DEF Steps, PlainSteps
<1>4. CASE ApproveRead(p)
  <2> DEFINE s == [Idle EXCEPT !.step = "approve"]
  <2>1. s \in Ready /\ Become(p, s)
    BY <1>0, <1>3, <1>4, PlainSessions DEF ApproveRead
  <2>2. Reading(s) /\ ReadIsTrue(s, quote, projects)
    BY <1>4 DEF ApproveRead, Offerable, Reading, ReadIsTrue, Idle
  <2> HIDE DEF s
  <2> QED BY <1>2, <2>1, <2>2
<1>5. CASE MarkRead(p)
  <2> DEFINE s == [Idle EXCEPT !.step = "mark"]
  <2>1. s \in Ready /\ Become(p, s)
    BY <1>0, <1>3, <1>5, PlainSessions DEF MarkRead
  <2>2. Reading(s) /\ ReadIsTrue(s, quote, projects)
    BY <1>5 DEF MarkRead, Reading, ReadIsTrue, Idle
  <2> HIDE DEF s
  <2> QED BY <1>2, <2>1, <2>2
<1>6. CASE HandoffRead(p)
  <2> DEFINE s == Load("project")
  <2>1. s \in Ready /\ Reading(s)
    BY <1>0, <1>3, PlainSessions DEF Reading, Load, Idle
  <2>2. CASE Finish(p)
    BY <1>0, <1>1, <2>2, IdleReads, CalmRead DEF Finish
  <2>3. CASE ~Finish(p)
    <3>1. Become(p, s) /\ quote.status = "approved" /\ projects = <<>>
      BY <1>6, <2>3 DEF HandoffRead
    <3>2. ReadIsTrue(s, quote, projects)
      BY <3>1 DEF ReadIsTrue, Load, Idle
    <3> HIDE DEF s
    <3> QED BY <1>2, <2>1, <3>1, <3>2
  <2> QED BY <2>2, <2>3
<1>7. CASE MailRead(p)
  <2>1. quote.total # NoPrice /\ quote.status \in {"draft", "sent"}
    BY <1>7 DEF MailRead, Offerable
  <2>2. \/ Become(p, [Idle EXCEPT !.step = "insert"])
        \/ Become(p, [Idle EXCEPT !.step = "call", !.mail = mail])
        \/ quote.status = "draft" /\ Become(p, [Idle EXCEPT !.step = "mark", !.mail = mail])
    BY <1>7, <2>1 DEF MailRead, ShouldMark
  <2>3. ASSUME NEW s \in Ready, Become(p, s), s.step \in {"insert", "call", "mark"},
               s.step = "mark" => quote.status = "draft"
        PROVE  CalmInv'
    <3>1. Reading(s) /\ ReadIsTrue(s, quote, projects)
      BY <2>1, <2>3 DEF Reading, ReadIsTrue
    <3> QED BY <1>2, <2>3, <3>1
  <2>4. /\ [Idle EXCEPT !.step = "insert"] \in Ready
        /\ \A k \in {"call", "mark"} : [Idle EXCEPT !.step = k, !.mail = mail] \in Ready
    BY <1>0, <1>3, PlainSessions
  <2>5. /\ [Idle EXCEPT !.step = "insert"].step = "insert"
        /\ \A k \in {"call", "mark"} : [Idle EXCEPT !.step = k, !.mail = mail].step = k
    BY DEF Idle
  <2> QED BY <2>2, <2>3, <2>4, <2>5
<1>8. CASE SweepRead(p)
  <2> DEFINE s == [Idle EXCEPT !.step = "call", !.mail = mail, !.sweep = TRUE]
  <2>1. s \in Ready /\ Become(p, s)
    BY <1>0, <1>3, <1>8, PlainSessions DEF SweepRead
  <2>2. Reading(s) /\ ReadIsTrue(s, quote, projects)
    BY DEF Reading, ReadIsTrue, Idle
  <2> HIDE DEF s
  <2> QED BY <1>2, <2>1, <2>2
<1>9. CASE CompleteRead(p)
  <2> DEFINE s == [Load("complete") EXCEPT !.new = made']
  <2>1. s \in Ready /\ Become(p, s)
    BY <1>0, <1>9, Drawn, LineSessions DEF CompleteRead
  <2>2. s.step = "complete" /\ s.loaded = quote
    BY DEF Load, Idle
  <2>3. Reading(s) /\ ReadIsTrue(s, quote, projects)
    BY <1>9, <2>2 DEF CompleteRead, Reading, ReadIsTrue
  <2> HIDE DEF s
  <2> QED BY <1>2, <2>1, <2>3
<1>10. ASSUME NEW t \in Terms, NEW new \in BOOLEAN, EditRead(p, t, new)
       PROVE  CalmInv'
  <2> DEFINE n == IF new THEN made' ELSE 0
             s == [Load("totals") EXCEPT !.terms = t, !.new = n]
  <2>0. made' \in 0..MaxVersions
    BY <1>0, <1>10, Drawn DEF EditRead, TypeOK
  <2>1. n \in 0..MaxVersions
    BY <2>0, QuoteAssumption
  <2>2. s \in Ready /\ Become(p, s)
    BY <1>0, <1>3, <1>10, <2>1, PlainSessions DEF EditRead
  <2>3. s.step = "totals" /\ s.loaded = quote
    BY DEF Load, Idle
  <2>4. Reading(s) /\ ReadIsTrue(s, quote, projects)
    BY <1>10, <2>3 DEF EditRead, Reading, ReadIsTrue
  <2> HIDE DEF s
  <2> QED BY <1>2, <2>2, <2>4
<1> QED BY <1>4, <1>5, <1>6, <1>7, <1>8, <1>9, <1>10

\* Requests that go on without writing quote, project or dispatch.
LEMMA CalmGoesOn ==
  ASSUME Typed, CalmInv, calm, NEW p \in Processes, ~At(p, "idle"),
         HandoffRead(p) \/ MailInsert(p) \/ MailCall(p) \/ MailRecord(p) \/ MailCheck(p)
  PROVE  CalmInv'
<1> DEFINE r == sess[p]
<1>0. /\ TypeOK /\ Alone(p) /\ Story(r, quote, projects, told) /\ ReadIsTrue(r, quote, projects)
      /\ r \in Session /\ Reading(r)
  <2>1. Alone(p) /\ Story(r, quote, projects, told)
    BY ActsAlone
  <2>2. Reading(r)
    BY DEF HandoffRead, MailInsert, MailCall, MailRecord, MailCheck, Begins, At, Reading
  <2> QED BY <2>1, <2>2 DEF Typed, TypeOK, Story
<1>1. UNCHANGED <<quote, projects, told>>
  BY DEF HandoffRead, MailInsert, MailCall, MailRecord, MailCheck, offer
<1>2. ASSUME NEW s \in Session, Reading(s), ReadIsTrue(s, quote, projects), Become(p, s)
      PROVE  CalmInv'
  BY <1>0, <1>1, <1>2, CalmRead
<1>3. Finish(p) => CalmInv'
  BY <1>2, IdleReads DEF Finish
<1>4. {"call", "record", "check", "mark", "project"} \subseteq PlainSteps
  BY DEF Steps, PlainSteps
<1>5. CASE HandoffRead(p)
  <2> DEFINE s == Load("project")
  <2>1. s \in Session /\ Reading(s)
    BY <1>0, <1>4, PlainSessions DEF Reading, Load, Idle, Ready
  <2>2. CASE Finish(p)
    BY <1>3, <2>2
  <2>3. CASE ~Finish(p)
    <3>1. Become(p, s) /\ quote.status = "approved" /\ projects = <<>>
      BY <1>5, <2>3 DEF HandoffRead
    <3>2. ReadIsTrue(s, quote, projects)
      BY <3>1 DEF ReadIsTrue, Load, Idle
    <3> HIDE DEF s
    <3> QED BY <1>2, <2>1, <3>1, <3>2
  <2> QED BY <2>2, <2>3
<1>6. CASE MailInsert(p)
  <2>1. r.step = "insert" /\ quote.total # NoPrice /\ quote.status \in {"draft", "sent"}
    BY <1>0, <1>6 DEF MailInsert, At, ReadIsTrue
  <2>2. CASE Finish(p)
    BY <1>3, <2>2
  <2>3. CASE ~Finish(p)
    <3> DEFINE s == [r EXCEPT !.step = "call", !.mail = "queued"]
    <3>1. Become(p, s)
      BY <1>6, <2>3 DEF MailInsert
    <3>2. s \in Session
      BY <1>0, <1>4, PlainSessions DEF Ready, Mails
    <3>3. s.step = "call"
      BY <1>0 DEF Session
    <3>4. Reading(s) /\ ReadIsTrue(s, quote, projects)
      BY <2>1, <3>3 DEF Reading, ReadIsTrue
    <3> HIDE DEF s
    <3> QED BY <1>2, <3>1, <3>2, <3>4
  <2> QED BY <2>2, <2>3
<1>7. CASE MailCall(p)
  <2>1. PICK answer \in {"sent", "failed", "withheld"} :
          Become(p, [r EXCEPT !.step = "record", !.answer = answer])
    BY <1>7 DEF MailCall
  <2> DEFINE s == [r EXCEPT !.step = "record", !.answer = answer]
  <2>2. s \in Session
    BY <1>0, <1>4, PlainSessions DEF Ready, Mails
  <2>3. s.step = "record" /\ s.sweep = r.sweep /\ r.step = "call"
    BY <1>0, <1>7 DEF Session, MailCall, At
  <2>4. Reading(s) /\ ReadIsTrue(s, quote, projects)
    BY <1>0, <2>3 DEF Reading, ReadIsTrue
  <2> HIDE DEF s
  <2> QED BY <1>2, <2>1, <2>2, <2>4 DEF s
<1>8. CASE MailRecord(p)
  <2>1. CASE r.sweep
    BY <1>3, <1>8, <2>1 DEF MailRecord
  <2>2. CASE ~r.sweep
    <3> DEFINE s == [Idle EXCEPT !.step = "check", !.mail = mail']
    <3>1. Become(p, s) /\ r.step = "record"
      BY <1>8, <2>2 DEF MailRecord, At
    <3>2. mail' \in Mails
      BY <1>0, <1>8 DEF MailRecord, TypeOK, Session, Written
    <3>3. s \in Session /\ s.step = "check"
      BY <1>0, <1>4, <3>2, PlainSessions DEF Ready, Idle
    <3>4. Reading(s) /\ ReadIsTrue(s, quote, projects)
      BY <1>0, <2>2, <3>1, <3>3 DEF Reading, ReadIsTrue
    <3> HIDE DEF s
    <3> QED BY <1>2, <3>1, <3>3, <3>4
  <2> QED BY <2>1, <2>2
<1>9. CASE MailCheck(p)
  <2>1. CASE Finish(p)
    BY <1>3, <2>1
  <2>2. CASE ~Finish(p)
    <3> DEFINE s == [Idle EXCEPT !.step = "mark", !.mail = r.mail]
    <3>1. Become(p, s) /\ quote.status # "sent" /\ r.step = "check"
      BY <1>9, <2>2 DEF MailCheck, ShouldMark, At
    <3>2. s \in Session /\ s.step = "mark"
      BY ZenonT(40), <1>0, <1>4, PlainSessions DEF Ready, Idle, Session
    <3>3. Reading(s) /\ ReadIsTrue(s, quote, projects)
      BY <1>0, <3>1, <3>2 DEF Reading, ReadIsTrue
    <3> HIDE DEF s
    <3> QED BY <1>2, <3>1, <3>2, <3>3
  <2> QED BY <2>1, <2>2
<1> QED BY <1>5, <1>6, <1>7, <1>8, <1>9

\* A request that has told rules, or is about to.
Telling(t) == [Idle EXCEPT !.step = "tell", !.trigger = t]

LEMMA TellingIs ==
  ASSUME TypeOK, NEW p \in Processes, NEW t \in Triggers
  PROVE  /\ Telling(t) \in Session /\ Telling(t).step = "tell" /\ Telling(t).trigger = t
         /\ \A q, ps : ReadIsTrue(Telling(t), q, ps)
         /\ \A k : Due(Telling(t), k) <=> k = t
<1>1. "tell" \in PlainSteps
  BY DEF PlainSteps, Steps
<1>2. Telling(t) \in Session /\ Telling(t).step = "tell" /\ Telling(t).trigger = t
  BY <1>1, PlainSessions DEF Telling, Ready, Idle
<1>3. \A q, ps : ReadIsTrue(Telling(t), q, ps)
  BY <1>2 DEF ReadIsTrue
<1>4. \A k : Due(Telling(t), k) <=> k = t
  BY <1>2 DEF Due
<1> QED BY <1>2, <1>3, <1>4

\* A write that leaves rules to be told of t, which nobody had told them.
LEMMA CalmTells ==
  ASSUME Typed, NEW p \in Processes, Alone(p), NEW t \in Triggers, Tell(p, t),
         RowIsSane(quote'), quote'.total # NoPrice => quote'.total = Price(quote'.lines, quote'.terms),
         ProjectIsTrue(quote', projects'), Happened(t, quote'), told' = told, told[t] = 0,
         \A k \in Triggers : k # t => told[k] = IF Happened(k, quote') THEN 1 ELSE 0
  PROVE  CalmInv'
<1> DEFINE s == Telling(t)
<1>1. /\ s \in Session /\ s.step = "tell" /\ ReadIsTrue(s, quote', projects')
      /\ \A k : Due(s, k) <=> k = t
  BY TellingIs DEF Typed
<1>2. PriceIsDue(s, quote')
  BY <1>1 DEF PriceIsDue
<1>3. RulesHeard(s, quote', told')
  BY <1>1 DEF RulesHeard
<1>4. Become(p, s)
  BY DEF Tell, Telling
<1>5. Story(s, quote', projects', told')
  BY <1>1, <1>2, <1>3 DEF Story
<1> HIDE DEF s
<1> QED BY <1>1, <1>4, <1>5, CalmStep

\* What the story says of the row when the request is not telling rules.
LEMMA StoryOf ==
  ASSUME NEW s, Story(s, quote, projects, told)
  PROVE  /\ RowIsSane(quote) /\ ProjectIsTrue(quote, projects) /\ ReadIsTrue(s, quote, projects)
         /\ s.step \notin {"items", "tell"} =>
              \A t \in Triggers : told[t] = IF Happened(t, quote) THEN 1 ELSE 0
         /\ s.step \notin {"items", "lines"} /\ quote.total # NoPrice =>
              quote.total = Price(quote.lines, quote.terms)
<1>1. s.step \notin {"items", "tell"} => \A t : ~Due(s, t)
  BY DEF Due
<1> QED BY <1>1 DEF Story, RulesHeard, PriceIsDue


LEMMA CalmCreates ==
  ASSUME Typed, CalmInv, calm, NEW p \in Processes,
         (\E t \in Terms : CreateGeneral(p, t)) \/ \E priced \in BOOLEAN : CreateStone(p, priced)
  PROVE  CalmInv'
<1>0. /\ TypeOK /\ Alone(p) /\ Story(Idle, quote, projects, told) /\ AtRest /\ Idle.step = "idle"
      /\ quote.status = "absent" /\ UNCHANGED <<projects, told>> /\ made' \in Versions
  <2>1. Begins(p) /\ quote.status = "absent" /\ UNCHANGED <<projects, told>> /\ Draw
    BY DEF CreateGeneral, CreateStone
  <2>2. AtRest
    BY <2>1 DEF Begins
  <2> QED BY <2>1, <2>2, BeginsAlone, Drawn DEF Typed, Idle
<1>1. /\ quote = NoRow /\ projects = <<>> /\ \A t \in Triggers : told[t] = 0
  <2>1. quote = NoRow /\ projects = <<>>
    BY <1>0, StoryOf DEF RowIsSane, ProjectIsTrue
  <2>2. \A t \in Triggers : ~Happened(t, quote)
    BY <2>1 DEF Happened, NoRow
  <2> QED BY <1>0, <2>1, <2>2, StoryOf
<1>2. ASSUME NEW t \in Terms, CreateGeneral(p, t)
      PROVE  CalmInv'
  <2> DEFINE s == [Idle EXCEPT !.step = "items", !.new = made']
  <2>1. s \in Session /\ Become(p, s)
    BY <1>0, <1>2, LineSessions DEF CreateGeneral, Ready
  <2>2. s.step = "items" /\ s.new = made' /\ s.loaded = NoRow
    BY DEF Idle
  <2>3. /\ quote'.status = "draft" /\ quote'.kind = "general" /\ quote'.terms = t
        /\ quote'.total = Price({made'}, t) /\ quote'.lines = {}
        /\ ~quote'.sentAt /\ ~quote'.approvedAt
    BY <1>2 DEF CreateGeneral, NoRow
  <2>4. quote'.total # NoPrice
    BY <1>0, <2>3, RowTypes
  <2>5. RowIsSane(quote') /\ PriceIsDue(s, quote')
    BY <2>2, <2>3, <2>4 DEF RowIsSane, PriceIsDue
  <2>6. ReadIsTrue(s, quote', projects') /\ ProjectIsTrue(quote', projects')
    BY <1>0, <1>1, <2>2, <2>3 DEF ReadIsTrue, ProjectIsTrue, NoRow
  <2>7. RulesHeard(s, quote', told')
    <3>1. \A k \in Triggers : Due(s, k) <=> k = "created"
      BY <2>2 DEF Due
    <3>2. \A k \in Triggers : Happened(k, quote') <=> k = "created"
      BY <2>3, <2>4 DEF Happened
    <3> QED BY <1>0, <1>1, <3>1, <3>2 DEF RulesHeard
  <2>8. Story(s, quote', projects', told')
    BY <2>5, <2>6, <2>7 DEF Story
  <2> HIDE DEF s
  <2> QED BY <1>0, <2>1, <2>8, CalmStep
<1>3. ASSUME NEW priced \in BOOLEAN, CreateStone(p, priced)
      PROVE  CalmInv'
  <2>1. /\ quote'.status = "draft" /\ quote'.kind = "stone" /\ quote'.terms = "standard"
        /\ quote'.total = StoneTotal(made', priced) /\ quote'.lines = {made'}
        /\ ~quote'.sentAt /\ ~quote'.approvedAt
    BY <1>3 DEF CreateStone, NoRow
  <2>2. RowIsSane(quote') /\ ProjectIsTrue(quote', projects')
    BY <1>0, <1>1, <2>1 DEF RowIsSane, ProjectIsTrue
  <2>3. quote'.total # NoPrice => quote'.total = Price(quote'.lines, quote'.terms)
    BY <2>1 DEF StoneTotal
  <2>4. CASE priced
    <3>1. quote'.total # NoPrice
      BY <1>0, <2>1, <2>4, RowTypes DEF StoneTotal, Terms
    <3>2. \A k \in Triggers : Happened(k, quote') <=> k = "created"
      BY <2>1, <3>1 DEF Happened
    <3>3. Tell(p, "created") /\ "created" \in Triggers
      BY <1>3, <2>4 DEF CreateStone, Triggers
    <3> QED BY <1>0, <1>1, <2>2, <2>3, <3>2, <3>3, CalmTells
  <2>5. CASE ~priced
    <3>1. quote'.total = NoPrice /\ UNCHANGED sess
      BY <1>3, <2>1, <2>5 DEF CreateStone, StoneTotal
    <3>2. PriceIsDue(Idle, quote') /\ ReadIsTrue(Idle, quote', projects')
      BY <1>0, <3>1 DEF PriceIsDue, ReadIsTrue
    <3>3. \A k \in Triggers : ~Happened(k, quote') /\ ~Due(Idle, k)
      BY <1>0, <2>1, <3>1 DEF Happened, Due
    <3>4. RulesHeard(Idle, quote', told')
      BY <1>0, <1>1, <3>3 DEF RulesHeard
    <3>5. AtRest' /\ Story(Idle, quote', projects', told')
      BY <1>0, <2>2, <3>1, <3>2, <3>4 DEF Story, AtRest
    <3> QED BY <3>5 DEF CalmInv
  <2> QED BY <2>4, <2>5
<1> QED BY <1>2, <1>3

\* Lines are replaced by those the total is already that of.
LEMMA CalmLines ==
  ASSUME Typed, CalmInv, calm, NEW p \in Processes, CreateItems(p) \/ EditItems(p)
  PROVE  CalmInv'
<1> DEFINE s == sess[p]
<1>1. /\ TypeOK /\ Alone(p) /\ Story(s, quote, projects, told) /\ s.step \in {"items", "lines"}
      /\ quote \in Row /\ UNCHANGED <<projects, told>>
  <2>1. s.step \in {"items", "lines"} /\ UNCHANGED <<projects, told>>
    BY DEF CreateItems, EditItems, At, ReplaceItems
  <2> QED BY <2>1, ActsAlone DEF Typed, TypeOK, At
<1>2. /\ RowIsSane(quote) /\ ProjectIsTrue(quote, projects) /\ quote.lines = s.loaded.lines
      /\ quote.status = "draft" /\ quote.kind = "general"
      /\ quote.total # NoPrice => quote.total = Price({s.new}, quote.terms)
  BY <1>1 DEF Story, ReadIsTrue, PriceIsDue
<1>3. /\ quote'.lines = {s.new} /\ quote'.terms = quote.terms /\ quote'.total = quote.total
      /\ quote'.status = quote.status /\ quote'.kind = quote.kind
      /\ quote'.sentAt = quote.sentAt /\ quote'.approvedAt = quote.approvedAt
  BY <1>1, <1>2 DEF CreateItems, EditItems, ReplaceItems, Row
<1>4. RowIsSane(quote') /\ ProjectIsTrue(quote', projects')
  BY <1>1, <1>2, <1>3 DEF RowIsSane, ProjectIsTrue
<1>5. quote'.total # NoPrice => quote'.total = Price(quote'.lines, quote'.terms)
  BY <1>2, <1>3
<1>6. \A k \in Triggers : Happened(k, quote') <=> Happened(k, quote)
  BY <1>3 DEF Happened
<1>7. CASE CreateItems(p)
  <2>1. s.step = "items" /\ Tell(p, "created") /\ "created" \in Triggers
    BY <1>7 DEF CreateItems, At, Triggers
  <2>2. \A k \in Triggers : Due(s, k) <=> k = "created"
    BY <2>1 DEF Due
  <2>3. \A k \in Triggers : /\ told[k] = IF Happened(k, quote) /\ k # "created" THEN 1 ELSE 0
                            /\ k = "created" => Happened(k, quote)
    BY <1>1, <2>2 DEF Story, RulesHeard
  <2>4. told["created"] = 0 /\ Happened("created", quote') /\ told' = told
    BY <1>1, <1>6, <2>1, <2>3
  <2>5. \A k \in Triggers : k # "created" => told[k] = IF Happened(k, quote') THEN 1 ELSE 0
    BY <1>6, <2>3
  <2> HIDE DEF s
  <2> QED BY <1>1, <1>4, <1>5, <2>1, <2>4, <2>5, CalmTells
<1>8. CASE EditItems(p)
  <2>1. s.step = "lines" /\ Finish(p)
    BY <1>8 DEF EditItems, At
  <2>2. \A k \in Triggers : ~Due(s, k) /\ ~Due(Idle, k)
    BY <2>1 DEF Due, Idle
  <2>3. RulesHeard(Idle, quote', told')
    BY <1>1, <1>6, <2>2 DEF Story, RulesHeard
  <2>4. PriceIsDue(Idle, quote') /\ ReadIsTrue(Idle, quote', projects')
    BY <1>5 DEF PriceIsDue, ReadIsTrue, Idle
  <2>5. Story(Idle, quote', projects', told')
    BY <1>4, <2>3, <2>4 DEF Story
  <2> QED BY <1>1, <2>1, <2>5, CalmFinish
<1> QED BY <1>7, <1>8

\* An edit prices the lines that are there or to come, at the terms to come.
LEMMA CalmTotals ==
  ASSUME Typed, CalmInv, calm, NEW p \in Processes, EditTotals(p)
  PROVE  CalmInv'
<1> DEFINE s == sess[p]
           n == [s EXCEPT !.step = "lines", !.loaded = quote']
<1>1. /\ TypeOK /\ Alone(p) /\ Story(s, quote, projects, told) /\ s.step = "totals"
      /\ quote \in Row /\ quote' \in Row /\ s \in Session /\ UNCHANGED <<projects, told>>
  <2>1. s.step = "totals" /\ UNCHANGED <<projects, told>>
    BY DEF EditTotals, At
  <2>2. TypeOK /\ quote \in Row /\ s \in Session
    BY DEF Typed, TypeOK
  <2>3. Repriced(s) \in Totals
    BY <2>2, RowTypes, QuoteAssumption DEF Repriced, Session, Row, Versions
  <2>4. quote' \in Row
    BY <2>2, <2>3 DEF EditTotals, Row, Session, Written
  <2> QED BY <2>1, <2>2, <2>4, ActsAlone DEF At
<1>2. /\ RowIsSane(quote) /\ ProjectIsTrue(quote, projects) /\ s.loaded = quote
      /\ quote.status = "draft" /\ quote.kind = "general"
      /\ \A k \in Triggers : told[k] = IF Happened(k, quote) THEN 1 ELSE 0
  BY <1>1, StoryOf DEF ReadIsTrue
<1>3. /\ quote'.lines = quote.lines /\ quote'.terms = s.terms /\ quote'.total = Repriced(s)
      /\ quote'.status = quote.status /\ quote'.kind = quote.kind
      /\ quote'.sentAt = quote.sentAt /\ quote'.approvedAt = quote.approvedAt
  BY <1>1, <1>2 DEF EditTotals, Written, Row
<1>4. /\ quote'.total # NoPrice /\ quote.total # NoPrice
      /\ s.new = 0 => quote'.total = Price(quote'.lines, quote'.terms)
      /\ s.new # 0 => quote'.total = Price({s.new}, quote'.terms)
  <2>1. s.terms \in Terms /\ s.new \in 0..MaxVersions /\ s.loaded.lines \in SUBSET Versions
    BY <1>1 DEF Session, Row
  <2>2. (IF s.new = 0 THEN s.loaded.lines ELSE {s.new}) \in SUBSET Versions
    BY <2>1, QuoteAssumption DEF Versions
  <2>3. Repriced(s) # NoPrice
    BY <2>1, <2>2, RowTypes DEF Repriced
  <2>4. quote.total # NoPrice
    BY <1>2 DEF RowIsSane
  <2> QED BY <1>2, <1>3, <2>3, <2>4 DEF Repriced
<1>5. RowIsSane(quote') /\ ProjectIsTrue(quote', projects')
  BY <1>1, <1>2, <1>3, <1>4 DEF RowIsSane, ProjectIsTrue
<1>6. \A k \in Triggers : Happened(k, quote') <=> Happened(k, quote)
  BY <1>3, <1>4 DEF Happened
<1>7. ASSUME NEW t \in Session, t.step \in {"idle", "lines"}
      PROVE  RulesHeard(t, quote', told')
  <2>1. \A k \in Triggers : ~Due(t, k)
    BY <1>7 DEF Due
  <2> QED BY <1>1, <1>2, <1>6, <2>1 DEF RulesHeard
<1>8. CASE s.new = 0
  <2>1. Finish(p) /\ Idle.step = "idle" /\ Idle \in Session
    BY <1>8, RowTypes DEF EditTotals, Idle
  <2>2. PriceIsDue(Idle, quote') /\ ReadIsTrue(Idle, quote', projects')
    BY <1>4, <1>8, <2>1 DEF PriceIsDue, ReadIsTrue
  <2>3. Story(Idle, quote', projects', told')
    BY <1>5, <1>7, <2>1, <2>2 DEF Story
  <2> QED BY <1>1, <2>1, <2>3, CalmFinish
<1>9. CASE s.new # 0
  <2>1. Become(p, n)
    BY <1>9 DEF EditTotals
  <2>2. n \in Session /\ n.step = "lines" /\ n.loaded = quote' /\ n.new = s.new
    BY <1>1, <1>9, EditSessions DEF Ready, Session
  <2>3. PriceIsDue(n, quote') /\ ReadIsTrue(n, quote', projects')
    BY <1>2, <1>3, <1>4, <1>9, <2>2 DEF PriceIsDue, ReadIsTrue
  <2>4. Story(n, quote', projects', told')
    BY <1>5, <1>7, <2>2, <2>3 DEF Story
  <2> HIDE DEF n, s
  <2> QED BY <1>1, <2>1, <2>2, <2>4, CalmStep
<1> QED BY <1>8, <1>9

\* A completion writes the lines of a stone draft, and its total if it has one.
LEMMA CalmCompletes ==
  ASSUME Typed, CalmInv, calm, NEW p \in Processes, NEW priced \in BOOLEAN, Complete(p, priced)
  PROVE  CalmInv'
<1> DEFINE s == sess[p]
<1>1. /\ TypeOK /\ Alone(p) /\ Story(s, quote, projects, told) /\ s.step = "complete"
      /\ quote \in Row /\ s.new \in Versions /\ UNCHANGED <<projects, told>>
  <2>1. s.step = "complete" /\ UNCHANGED <<projects, told>>
    BY DEF Complete, At
  <2> QED BY <2>1, ActsAlone DEF Typed, TypeOK, At, HasLines
<1>2. /\ RowIsSane(quote) /\ ProjectIsTrue(quote, projects) /\ s.loaded = quote
      /\ quote.status = "draft" /\ quote.kind = "stone" /\ quote.total = NoPrice
      /\ \A k \in Triggers : told[k] = IF Happened(k, quote) THEN 1 ELSE 0
  BY <1>1, StoryOf DEF ReadIsTrue
<1>3. /\ quote'.lines = {s.new} /\ quote'.terms = quote.terms /\ quote'.total = StoneTotal(s.new, priced)
      /\ quote'.status = quote.status /\ quote'.kind = quote.kind
      /\ quote'.sentAt = quote.sentAt /\ quote'.approvedAt = quote.approvedAt
  <2>1. quote' = [quote EXCEPT !.lines = {s.new}, !.total = Written(NoPrice, StoneTotal(s.new, priced), @)]
    <3>1. PICK missed \in {{}, quote.lines \ s.loaded.lines} :
            quote' = [quote EXCEPT !.lines = missed \cup {s.new},
                                   !.total = Written(NoPrice, StoneTotal(s.new, priced), @)]
      BY DEF Complete
    <3>2. missed \cup {s.new} = {s.new}
      BY <1>2
    <3> QED BY <3>1, <3>2
  <2>2. Written(NoPrice, StoneTotal(s.new, priced), quote.total) = StoneTotal(s.new, priced)
    BY <1>2 DEF Written
  <2> QED BY <1>1, <2>1, <2>2 DEF Row
<1>4. RowIsSane(quote') /\ ProjectIsTrue(quote', projects')
  BY <1>1, <1>2, <1>3 DEF RowIsSane, ProjectIsTrue
<1>5. quote'.total # NoPrice => quote'.total = Price(quote'.lines, quote'.terms)
  BY <1>2, <1>3 DEF StoneTotal, RowIsSane
<1>6. \A k \in Triggers : k # "created" => (Happened(k, quote') <=> Happened(k, quote))
  BY <1>3 DEF Happened
<1>7. CASE priced
  <2>1. Tell(p, "created") /\ "created" \in Triggers
    BY <1>7 DEF Complete, Triggers
  <2>2. quote'.total # NoPrice
    BY <1>1, <1>3, <1>7, RowTypes DEF StoneTotal, Terms
  <2>3. Happened("created", quote') /\ ~Happened("created", quote)
    BY <1>2, <2>2 DEF Happened
  <2>4. told["created"] = 0 /\ told' = told
    BY <1>1, <1>2, <2>1, <2>3
  <2>5. \A k \in Triggers : k # "created" => told[k] = IF Happened(k, quote') THEN 1 ELSE 0
    BY <1>2, <1>6
  <2> QED BY <1>1, <1>4, <1>5, <2>1, <2>3, <2>4, <2>5, CalmTells
<1>8. CASE ~priced
  <2>1. Finish(p) /\ quote'.total = NoPrice /\ Idle.step = "idle"
    BY <1>3, <1>8 DEF Complete, StoneTotal, Idle
  <2>2. \A k \in Triggers : /\ ~Due(Idle, k)
                            /\ Happened(k, quote') <=> Happened(k, quote)
    BY <1>2, <1>6, <2>1 DEF Due, Happened
  <2>3. RulesHeard(Idle, quote', told')
    BY <1>1, <1>2, <2>2 DEF RulesHeard
  <2>4. PriceIsDue(Idle, quote') /\ ReadIsTrue(Idle, quote', projects')
    BY <2>1 DEF PriceIsDue, ReadIsTrue
  <2>5. Story(Idle, quote', projects', told')
    BY <1>4, <2>3, <2>4 DEF Story
  <2> QED BY <1>1, <2>1, <2>5, CalmFinish
<1> QED BY <1>7, <1>8

\* Nothing but its status and its date changes of a quote that is decided on.
LEMMA CalmDecides ==
  ASSUME Typed, CalmInv, calm, NEW p \in Processes, ApproveWrite(p) \/ MarkWrite(p)
  PROVE  CalmInv'
<1> DEFINE s == sess[p]
<1>1. /\ TypeOK /\ Alone(p) /\ Story(s, quote, projects, told) /\ s.step \in {"approve", "mark"}
      /\ quote \in Row /\ UNCHANGED <<projects, told>>
  <2>1. s.step \in {"approve", "mark"} /\ UNCHANGED <<projects, told>>
    BY DEF ApproveWrite, MarkWrite, At
  <2> QED BY <2>1, ActsAlone DEF Typed, TypeOK, At
<1>2. /\ RowIsSane(quote) /\ ProjectIsTrue(quote, projects) /\ ReadIsTrue(s, quote, projects)
      /\ \A k \in Triggers : told[k] = IF Happened(k, quote) THEN 1 ELSE 0
      /\ quote.total # NoPrice => quote.total = Price(quote.lines, quote.terms)
  BY <1>1, StoryOf
<1>3. /\ quote.total # NoPrice /\ projects = <<>> /\ ~quote.approvedAt /\ quote.status \in {"draft", "sent"}
      /\ s.step = "mark" => ~quote.sentAt
  BY <1>1, <1>2 DEF ReadIsTrue, RowIsSane, ProjectIsTrue
<1>4. CASE ApproveWrite(p)
  <2>1. quote' = [quote EXCEPT !.status = "approved", !.approvedAt = TRUE] /\ Tell(p, "approved")
    BY <1>4 DEF ApproveWrite
  <2>2. /\ quote'.lines = quote.lines /\ quote'.terms = quote.terms /\ quote'.total = quote.total
        /\ quote'.status = "approved" /\ quote'.kind = quote.kind
        /\ quote'.sentAt = quote.sentAt /\ quote'.approvedAt
    BY <1>1, <2>1 DEF Row
  <2>3. RowIsSane(quote') /\ ProjectIsTrue(quote', projects')
    BY <1>1, <1>2, <1>3, <2>2 DEF RowIsSane, ProjectIsTrue
  <2>4. /\ Happened("approved", quote') /\ ~Happened("approved", quote) /\ "approved" \in Triggers
        /\ \A k \in Triggers : k # "approved" => (Happened(k, quote') <=> Happened(k, quote))
    BY <1>3, <2>2 DEF Happened, Triggers
  <2>5. told["approved"] = 0 /\ told' = told
    BY <1>1, <1>2, <2>4
  <2>6. \A k \in Triggers : k # "approved" => told[k] = IF Happened(k, quote') THEN 1 ELSE 0
    BY <1>2, <2>4
  <2> QED BY <1>1, <1>2, <2>1, <2>2, <2>3, <2>4, <2>5, <2>6, CalmTells
<1>5. CASE MarkWrite(p)
  <2>1. /\ quote' = [quote EXCEPT !.status = "sent", !.sentAt = TRUE] /\ Tell(p, "sent")
        /\ s.step = "mark"
    BY <1>5 DEF MarkWrite, At
  <2>2. /\ quote'.lines = quote.lines /\ quote'.terms = quote.terms /\ quote'.total = quote.total
        /\ quote'.status = "sent" /\ quote'.kind = quote.kind
        /\ quote'.approvedAt = quote.approvedAt /\ quote'.sentAt
    BY <1>1, <2>1 DEF Row
  <2>3. RowIsSane(quote') /\ ProjectIsTrue(quote', projects')
    BY <1>1, <1>2, <1>3, <2>2 DEF RowIsSane, ProjectIsTrue
  <2>4. /\ Happened("sent", quote') /\ ~Happened("sent", quote) /\ "sent" \in Triggers
        /\ \A k \in Triggers : k # "sent" => (Happened(k, quote') <=> Happened(k, quote))
    BY <1>3, <2>1, <2>2 DEF Happened, Triggers
  <2>5. told["sent"] = 0 /\ told' = told
    BY <1>1, <1>2, <2>4
  <2>6. \A k \in Triggers : k # "sent" => told[k] = IF Happened(k, quote') THEN 1 ELSE 0
    BY <1>2, <2>4
  <2> QED BY <1>1, <1>2, <2>1, <2>2, <2>3, <2>4, <2>5, <2>6, CalmTells
<1> QED BY <1>4, <1>5

\* A dispatch tells rules what they had not heard.
LEMMA CalmDispatch ==
  ASSUME Typed, CalmInv, calm, NEW p \in Processes, Dispatch(p)
  PROVE  CalmInv'
<1> DEFINE s == sess[p]
           t == s.trigger
<1>1. /\ TypeOK /\ Alone(p) /\ Story(s, quote, projects, told) /\ s.step = "tell" /\ t \in Triggers
      /\ UNCHANGED <<quote, projects>>
  <2>1. s.step = "tell" /\ UNCHANGED <<quote, projects>>
    BY DEF Dispatch, At, offer
  <2> QED BY <2>1, ActsAlone DEF Typed, TypeOK, At, Session
<1>2. \A k \in Triggers : Due(s, k) <=> k = t
  BY <1>1 DEF Due
<1>3. \A k \in Triggers : /\ told[k] = IF Happened(k, quote) /\ k # t THEN 1 ELSE 0
                          /\ k = t => Happened(k, quote)
  BY <1>1, <1>2 DEF Story, RulesHeard
<1>4. told' = [told EXCEPT ![t] = 1]
  <2>1. told[t] = 0
    BY <1>1, <1>3
  <2>2. told' = [told EXCEPT ![t] = IF calm /\ @ < 2 THEN @ + 1 ELSE @]
    BY DEF Dispatch
  <2> QED BY <2>1, <2>2
<1>5. \A k \in Triggers : told'[k] = IF Happened(k, quote') THEN 1 ELSE 0
  <2>1. told \in [Triggers -> 0..2]
    BY <1>1 DEF TypeOK
  <2> HIDE DEF t
  <2> QED BY <1>1, <1>3, <1>4, <2>1
<1>6. ASSUME NEW r \in Session, r.step \in {"idle", "rule"}, Become(p, r)
      PROVE  CalmInv'
  <2>1. \A k \in Triggers : ~Due(r, k)
    BY <1>6 DEF Due
  <2>2. RulesHeard(r, quote', told')
    BY <1>5, <2>1 DEF RulesHeard
  <2>3. PriceIsDue(r, quote') /\ ReadIsTrue(r, quote', projects')
    BY <1>1, <1>6 DEF Story, PriceIsDue, ReadIsTrue
  <2>4. Story(r, quote', projects', told')
    BY <1>1, <2>2, <2>3 DEF Story
  <2> QED BY <1>1, <1>6, <2>4, CalmStep
<1>7. Idle \in Session /\ Idle.step = "idle"
  BY RowTypes DEF Idle
<1>8. [Idle EXCEPT !.step = "rule"] \in Session /\ [Idle EXCEPT !.step = "rule"].step = "rule"
  <2>1. "rule" \in PlainSteps
    BY DEF PlainSteps, Steps
  <2> QED BY <1>1, <2>1, PlainSessions DEF Ready, Idle
<1>9. Become(p, Idle) \/ Become(p, [Idle EXCEPT !.step = "rule"])
  BY DEF Dispatch, Finish
<1> QED BY <1>6, <1>7, <1>8, <1>9

LEMMA CalmHandoff ==
  ASSUME Typed, CalmInv, calm, NEW p \in Processes, HandoffCreate(p)
  PROVE  CalmInv'
<1> DEFINE s == sess[p]
<1>1. Alone(p) /\ Story(s, quote, projects, told) /\ s.step = "project"
  <2>1. s.step = "project"
    BY DEF HandoffCreate, At
  <2> QED BY <2>1, ActsAlone DEF At
<1>2. /\ RowIsSane(quote) /\ s.loaded = quote /\ quote.status = "approved" /\ projects = <<>>
      /\ \A k \in Triggers : told[k] = IF Happened(k, quote) THEN 1 ELSE 0
      /\ quote.total # NoPrice => quote.total = Price(quote.lines, quote.terms)
  BY <1>1, StoryOf DEF ReadIsTrue
<1>3. /\ projects' = <<[lines |-> quote.lines, total |-> quote.total]>> /\ Finish(p)
      /\ quote' = quote /\ told' = told
  BY <1>2 DEF HandoffCreate, offer
<1>4. ProjectIsTrue(quote', projects')
  BY <1>2, <1>3 DEF ProjectIsTrue
<1>5. PriceIsDue(Idle, quote') /\ ReadIsTrue(Idle, quote', projects') /\ RulesHeard(Idle, quote', told')
  BY <1>2, <1>3 DEF PriceIsDue, ReadIsTrue, RulesHeard, Due, Idle
<1>6. Story(Idle, quote', projects', told')
  BY <1>2, <1>3, <1>4, <1>5 DEF Story
<1> QED BY <1>1, <1>3, <1>6, CalmFinish

LEMMA CalmNext == Typed /\ CalmInv /\ [Next]_vars => CalmInv'
<1> SUFFICES ASSUME Typed, CalmInv, [Next]_vars PROVE CalmInv'
  OBVIOUS
<1>1. CASE UNCHANGED <<quote, projects, told, sess, calm>>
  BY <1>1 DEF CalmInv, AtRest, Alone, At
<1>2. CASE UNCHANGED vars \/ Report
  BY <1>1, <1>2 DEF vars, Report, offer, Next
<1>3. ASSUME NEW p \in Processes, Step(p), calm' = calm
      PROVE  CalmInv'
  <2>1. CASE ~calm
    BY <1>3, <2>1 DEF CalmInv
  <2>2. CASE calm
    <3>1. ~Crash(p)
      BY <2>2 DEF Crash
    <3>2. CASE Begins(p) /\ \/ ApproveRead(p) \/ MarkRead(p) \/ HandoffRead(p) \/ MailRead(p) \/ SweepRead(p)
                            \/ CompleteRead(p) \/ \E t \in Terms, new \in BOOLEAN : EditRead(p, t, new)
      BY <2>2, <3>2, CalmBegins
    <3>3. CASE ~At(p, "idle") /\ \/ HandoffRead(p) \/ MailInsert(p) \/ MailCall(p)
                                 \/ MailRecord(p) \/ MailCheck(p)
      BY <2>2, <3>3, CalmGoesOn
    <3>4. CASE \/ (\E t \in Terms : CreateGeneral(p, t)) \/ \E priced \in BOOLEAN : CreateStone(p, priced)
               \/ CreateItems(p) \/ EditItems(p) \/ EditTotals(p) \/ \E b \in BOOLEAN : Complete(p, b)
      BY <2>2, <3>4, CalmCreates, CalmLines, CalmTotals, CalmCompletes
    <3>5. CASE ApproveWrite(p) \/ MarkWrite(p) \/ Dispatch(p) \/ HandoffCreate(p)
      BY <2>2, <3>5, CalmDecides, CalmDispatch, CalmHandoff
    <3>6. ApproveRead(p) \/ MarkRead(p) \/ MailRead(p) \/ SweepRead(p) \/ CompleteRead(p) => Begins(p)
      BY DEF ApproveRead, MarkRead, MailRead, SweepRead, CompleteRead
    <3>7. \A t \in Terms, new \in BOOLEAN : EditRead(p, t, new) => Begins(p)
      BY DEF EditRead
    <3>8. HandoffRead(p) => Begins(p) \/ ~At(p, "idle")
      BY DEF HandoffRead, At
    <3>9. MailInsert(p) \/ MailCall(p) \/ MailRecord(p) \/ MailCheck(p) => ~At(p, "idle")
      BY DEF MailInsert, MailCall, MailRecord, MailCheck, At
    <3> QED BY <1>3, <3>1, <3>2, <3>3, <3>4, <3>5, <3>6, <3>7, <3>8, <3>9 DEF Step
  <2> QED BY <2>1, <2>2
<1> QED BY <1>1, <1>2, <1>3 DEF Next

LEMMA Calmness == Spec => [](Typed /\ CalmInv)
BY TypedInit, TypedNext, CalmInit, CalmNext, PTL DEF Spec

LEMMA StoryAgrees ==
  ASSUME CalmInv
  PROVE  RecordsAgree
<1> SUFFICES ASSUME calm PROVE RecordsAgree
  BY DEF RecordsAgree, TotalMatchesLines, BaseContractIsFixed, TriggersMatchHistory
<1>1. PICK s : Story(s, quote, projects, told) /\ (AtRest => s.step = "idle")
  BY DEF CalmInv, AtRest, Idle
<1>2. ProjectIsTrue(quote, projects)
  BY <1>1, StoryOf
<1>3. AtRest => /\ quote.total # NoPrice => quote.total = Price(quote.lines, quote.terms)
                /\ \A t \in Triggers : told[t] = IF Happened(t, quote) THEN 1 ELSE 0
  BY <1>1, StoryOf
<1>4. AtRest => /\ told["created"] = IF quote.total # NoPrice THEN 1 ELSE 0
                /\ told["sent"] = IF quote.sentAt THEN 1 ELSE 0
                /\ told["approved"] = IF quote.approvedAt THEN 1 ELSE 0
  BY <1>3 DEF Triggers, Happened
<1> QED BY <1>2, <1>3, <1>4 DEF RecordsAgree, TotalMatchesLines, BaseContractIsFixed,
           TriggersMatchHistory, ProjectIsTrue

\* When requests neither overlap nor die, the total is that of the lines, a
\* project's base contract is the approved quote's, and rules hear of each
\* event of a quote's life once.
THEOREM OneStory == Spec => []RecordsAgree
<1>1. CalmInv => RecordsAgree
  BY StoryAgrees
<1> QED BY <1>1, Calmness, PTL

\* Only a draft is edited or completed, and only a draft or a sent quote decided
\* on: what is offered stays as it is.
LEMMA FrozenStep ==
  Typed /\ CalmInv /\ [Next]_vars =>
    (calm /\ quote.status \in {"sent", "approved"} =>
       /\ quote'.lines = quote.lines /\ quote'.terms = quote.terms /\ quote'.total = quote.total
       /\ quote.status = "approved" => quote'.status = "approved")
<1> SUFFICES ASSUME Typed, CalmInv, Next, calm, quote.status \in {"sent", "approved"}, quote' # quote
             PROVE  /\ quote'.lines = quote.lines /\ quote'.terms = quote.terms /\ quote'.total = quote.total
                    /\ quote.status = "approved" => quote'.status = "approved"
  BY DEF vars, offer
<1>1. quote \in Row /\ ~Report
  BY DEF Typed, TypeOK, Report, offer
<1>2. PICK p \in Processes : Step(p)
  BY <1>1 DEF Next
<1>3. CASE ~At(p, "idle")
  <2>1. ReadIsTrue(sess[p], quote, projects)
    BY <1>3, ActsAlone DEF Story
  <2>2. sess[p].step \notin {"items", "totals", "lines", "complete", "mark"}
    BY <2>1 DEF ReadIsTrue
  <2>3. sess[p].step = "approve" => quote.status = "sent"
    BY <2>1 DEF ReadIsTrue
  <2>4. ApproveWrite(p)
    BY <1>2, <1>3, <2>2 DEF Step, CreateGeneral, CreateItems, EditRead, EditTotals, EditItems, CreateStone,
       CompleteRead, Complete, ApproveRead, MarkRead, MarkWrite, Dispatch, HandoffRead, HandoffCreate,
       MailRead, MailInsert, MailCall, MailRecord, MailCheck, SweepRead, Crash, Begins, At, offer
  <2> QED BY <1>1, <2>3, <2>4 DEF ApproveWrite, At, Row
<1>4. CASE At(p, "idle")
  BY <1>2, <1>4 DEF Step, CreateGeneral, CreateItems, EditRead, EditTotals, EditItems, CreateStone,
     CompleteRead, Complete, ApproveRead, ApproveWrite, MarkRead, MarkWrite, Dispatch, HandoffRead,
     HandoffCreate, MailRead, MailInsert, MailCall, MailRecord, MailCheck, SweepRead, Crash, At, offer
<1> QED BY <1>3, <1>4

\* When requests neither overlap nor die, what a customer was offered keeps its
\* lines, terms and total, and an approval stands.
THEOREM OffersStay == Spec => OfferIsFrozen
BY Calmness, FrozenStep, PTL DEF Spec, OfferIsFrozen
=============================================================================
