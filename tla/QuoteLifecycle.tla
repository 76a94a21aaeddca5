---------------------------- MODULE QuoteLifecycle ----------------------------
(***************************************************************************)
(* One quote, from its first draft to the project it becomes: QuoteService *)
(* (app/quotes/service.py), the row of communications its e-mail has (whose*)
(* own life Delivery models), and the automation rule that hands approved  *)
(* quotes over.                                                            *)
(*                                                                         *)
(* Requests interleave between their commits.  What a request read decides *)
(* what it writes, however long ago it read it; an UPDATE holds the columns*)
(* that differ from the row as loaded.                                     *)
(***************************************************************************)
EXTENDS Integers, Sequences, FiniteSets

CONSTANTS
  Processes,    \* requests, and the retry sweep
  MaxVersions   \* bound: sets of lines written for the quote

ASSUME QuoteAssumption == MaxVersions \in Nat \ {0}

VARIABLES
  quote,     \* its row of quotes, with the line sets its quote_items come from
  made,      \* line sets written so far
  mail,      \* status of the communications row "quote_sent:<id>"
  emailed,   \* the provider accepted the e-mail: the customer holds the offer
  projects,  \* projects whose quote_id is this quote's, with what they copied
  told,      \* how often each trigger was dispatched, up to 2, counted when calm
  sess,      \* requests
  calm       \* requests do not overlap and nothing dies

offer == <<quote, made>>
post  == <<mail, emailed>>
vars  == <<offer, post, projects, told, sess, calm>>

-----------------------------------------------------------------------------
Versions == 1..MaxVersions
Terms    == {"standard", "discounted"}     \* VAT rate and discount
Triggers == {"created", "sent", "approved"}
Mails    == {"none", "queued", "failed", "withheld", "sent", "reported"}

\* A total is known by what it was computed from; NoPrice is NULL.
Price(lines, terms) == [lines |-> lines, terms |-> terms]
NoPrice == Price({}, "null")
Totals  == {Price(ls, t) : ls \in SUBSET Versions, t \in Terms} \cup {NoPrice}

Row == [status : {"absent", "draft", "sent", "approved"}, kind : {"general", "stone"},
        lines : SUBSET Versions, terms : Terms, total : Totals,
        sentAt : BOOLEAN, approvedAt : BOOLEAN]

NoRow == [status |-> "absent", kind |-> "general", lines |-> {}, terms |-> "standard",
          total |-> NoPrice, sentAt |-> FALSE, approvedAt |-> FALSE]

Steps == {"idle", "items", "totals", "lines", "complete", "approve", "mark", "insert",
          "call", "record", "check", "tell", "rule", "project"}

\* `new' is the line set to write (0: none), `mail' the message as loaded,
\* `answer' the provider's, `sweep' tells the sweep from a user.
Session == [step : Steps, loaded : Row, new : 0..MaxVersions, terms : Terms,
            mail : Mails, answer : Mails, sweep : BOOLEAN, trigger : Triggers]

Idle == [step |-> "idle", loaded |-> NoRow, new |-> 0, terms |-> "standard",
         mail |-> "none", answer |-> "none", sweep |-> FALSE, trigger |-> "created"]

TypeOK ==
  /\ quote \in Row /\ made \in 0..MaxVersions
  /\ mail \in Mails /\ emailed \in BOOLEAN
  /\ projects \in Seq([lines : SUBSET Versions, total : Totals])
  /\ told \in [Triggers -> 0..2]
  /\ sess \in [Processes -> Session]
  /\ calm \in BOOLEAN

Init ==
  /\ quote = NoRow /\ made = 0
  /\ mail = "none" /\ emailed = FALSE
  /\ projects = <<>>
  /\ told = [t \in Triggers |-> 0]
  /\ sess = [p \in Processes |-> Idle]
  /\ calm \in BOOLEAN

AtRest == \A p \in Processes : sess[p].step = "idle"

Begins(p) == sess[p].step = "idle" /\ (calm => AtRest)
At(p, step) == sess[p].step = step

Become(p, s) == sess' = [sess EXCEPT ![p] = s]
Finish(p)    == Become(p, Idle)
Tell(p, t)   == Become(p, [Idle EXCEPT !.step = "tell", !.trigger = t])
Load(step)   == [Idle EXCEPT !.step = step, !.loaded = quote]

\* The next line set of the quote.
Draw == made < MaxVersions /\ made' = made + 1

-----------------------------------------------------------------------------
(* A general quote: the row and its totals, then its lines.                *)
CreateGeneral(p, terms) ==
  /\ Begins(p) /\ quote.status = "absent"
  /\ Draw
  /\ quote' = [NoRow EXCEPT !.status = "draft", !.terms = terms, !.total = Price({made'}, terms)]
  /\ Become(p, [Idle EXCEPT !.step = "items", !.new = made'])
  /\ UNCHANGED <<post, projects, told>>

\* replace_quote_items() deletes the lines it loaded, and adds its own.
ReplaceItems(p) ==
  /\ quote' = [quote EXCEPT !.lines = (@ \ sess[p].loaded.lines) \cup {sess[p].new}]
  /\ UNCHANGED <<made, post, projects, told>>

CreateItems(p) == At(p, "items") /\ ReplaceItems(p) /\ Tell(p, "created")

\* Mutant: any quote that is not approved may be edited.
EditReadSent(p, terms, new) ==
  /\ Begins(p) /\ quote.kind = "general" /\ quote.status \in {"draft", "sent"}
  /\ IF new THEN Draw ELSE UNCHANGED made
  /\ Become(p, [Load("totals") EXCEPT !.terms = terms, !.new = IF new THEN made' ELSE 0])
  /\ UNCHANGED <<quote, post, projects, told>>

\* An edit may change the terms, and may replace the lines.
EditRead(p, terms, new) ==
  /\ Begins(p) /\ quote.kind = "general" /\ quote.status = "draft"
  /\ IF new THEN Draw ELSE UNCHANGED made
  /\ Become(p, [Load("totals") EXCEPT !.terms = terms, !.new = IF new THEN made' ELSE 0])
  /\ UNCHANGED <<quote, post, projects, told>>

Written(old, new, now) == IF new # old THEN new ELSE now

\* Mutant: an edit prices the lines the quote had.
RepricedOld(s) == Price(s.loaded.lines, s.terms)

\* The lines to come, or those already there, at the terms to come.
Repriced(s) == Price(IF s.new = 0 THEN s.loaded.lines ELSE {s.new}, s.terms)

EditTotals(p) ==
  LET s == sess[p] IN
  /\ At(p, "totals")
  /\ quote' = [quote EXCEPT !.terms = Written(s.loaded.terms, s.terms, @),
                            !.total = Written(s.loaded.total, Repriced(s), @)]
  /\ IF s.new = 0 THEN Finish(p) ELSE Become(p, [s EXCEPT !.step = "lines", !.loaded = quote'])
  /\ UNCHANGED <<made, post, projects, told>>

EditItems(p) == At(p, "lines") /\ ReplaceItems(p) /\ Finish(p)

-----------------------------------------------------------------------------
(* A stone quote: row, totals and lines in one commit.  A material without  *)
(* a price leaves the total open, and the draft to be completed later.      *)
StoneTotal(v, priced) == IF priced THEN Price({v}, "standard") ELSE NoPrice

CreateStone(p, priced) ==
  /\ Begins(p) /\ quote.status = "absent"
  /\ Draw
  /\ quote' = [NoRow EXCEPT !.status = "draft", !.kind = "stone", !.lines = {made'},
                            !.total = StoneTotal(made', priced)]
  /\ IF priced THEN Tell(p, "created") ELSE UNCHANGED sess
  /\ UNCHANGED <<post, projects, told>>

CompleteRead(p) ==
  /\ Begins(p) /\ quote.kind = "stone" /\ quote.status = "draft" /\ quote.total = NoPrice
  /\ Draw
  /\ Become(p, [Load("complete") EXCEPT !.new = made'])
  /\ UNCHANGED <<quote, post, projects, told>>

\* The deletion misses lines that another completion is inserting meanwhile.
Complete(p, priced) ==
  LET s == sess[p] IN
  /\ At(p, "complete")
  /\ \E missed \in {{}, quote.lines \ s.loaded.lines} :
       quote' = [quote EXCEPT !.lines = missed \cup {s.new},
                              !.total = Written(NoPrice, StoneTotal(s.new, priced), @)]
  /\ IF priced THEN Tell(p, "created") ELSE Finish(p)
  /\ UNCHANGED <<made, post, projects, told>>

-----------------------------------------------------------------------------
(* Decisions.                                                              *)
Offerable == quote.total # NoPrice /\ quote.status \in {"draft", "sent"}

\* Mutant: nobody asks whether the quote has a price.
ApproveReadUnpriced(p) ==
  /\ Begins(p) /\ quote.status \in {"draft", "sent"}
  /\ Become(p, [Idle EXCEPT !.step = "approve"])
  /\ UNCHANGED <<offer, post, projects, told>>

ApproveRead(p) ==
  /\ Begins(p) /\ Offerable
  /\ Become(p, [Idle EXCEPT !.step = "approve"])
  /\ UNCHANGED <<offer, post, projects, told>>

ApproveWrite(p) ==
  /\ At(p, "approve")
  /\ quote' = [quote EXCEPT !.status = "approved", !.approvedAt = TRUE]
  /\ Tell(p, "approved")
  /\ UNCHANGED <<made, post, projects, told>>

\* mark_sent(): a sent quote stays as it is.
MarkRead(p) ==
  /\ Begins(p) /\ quote.total # NoPrice /\ quote.status = "draft"
  /\ Become(p, [Idle EXCEPT !.step = "mark"])
  /\ UNCHANGED <<offer, post, projects, told>>

\* mark_quote_sent(), for mark_sent() and for an accepted e-mail.
MarkWrite(p) ==
  /\ At(p, "mark")
  /\ quote' = [quote EXCEPT !.status = "sent", !.sentAt = TRUE]
  /\ Tell(p, "sent")
  /\ UNCHANGED <<made, post, projects, told>>

\* A dispatch; a rule on approved quotes may hand the quote over at once.
Dispatch(p) ==
  LET t == sess[p].trigger IN
  /\ At(p, "tell")
  /\ told' = [told EXCEPT ![t] = IF calm /\ @ < 2 THEN @ + 1 ELSE @]
  /\ Finish(p) \/ (t = "approved" /\ Become(p, [Idle EXCEPT !.step = "rule"]))
  /\ UNCHANGED <<offer, post, projects>>

\* Mutant: a sent quote may be handed over.
HandoffReadSent(p) ==
  /\ Begins(p) \/ At(p, "rule")
  /\ IF quote.status \in {"sent", "approved"} /\ projects = <<>>
     THEN Become(p, Load("project")) ELSE Finish(p)
  /\ UNCHANGED <<offer, post, projects, told>>

\* handoff(): a project that is there already is the answer.
HandoffRead(p) ==
  /\ Begins(p) \/ At(p, "rule")
  /\ IF quote.status = "approved" /\ projects = <<>>
     THEN Become(p, Load("project")) ELSE Finish(p)
  /\ UNCHANGED <<offer, post, projects, told>>

\* Mutant: projects.quote_id is not unique.
HandoffCreateAgain(p) ==
  LET q == sess[p].loaded IN
  /\ At(p, "project")
  /\ projects' = Append(projects, [lines |-> q.lines, total |-> q.total])
  /\ Finish(p)
  /\ UNCHANGED <<offer, post, told>>

\* projects.quote_id is unique: of two requests one fails.
HandoffCreate(p) ==
  LET q == sess[p].loaded IN
  /\ At(p, "project")
  /\ projects' = IF projects = <<>> THEN <<[lines |-> q.lines, total |-> q.total]>> ELSE projects
  /\ Finish(p)
  /\ UNCHANGED <<offer, post, told>>

-----------------------------------------------------------------------------
(* send_and_mark_sent(): the message of the quote is sent, or tried again  *)
(* if it failed; the quote is marked when the message is known to be sent. *)

\* Mutant: the quote is marked whatever became of the message.
MarksAnyway(m, status) == m \in {"sent", "failed"} /\ status # "sent"

\* Mutant: a quote that is marked is marked again.
MarksAgain(m, status) == m = "sent"

ShouldMark(m, status) == m = "sent" /\ status # "sent"

MailRead(p) ==
  /\ Begins(p) /\ Offerable
  /\ \/ mail = "none" /\ Become(p, [Idle EXCEPT !.step = "insert"])
     \/ mail = "failed" /\ Become(p, [Idle EXCEPT !.step = "call", !.mail = mail])
     \/ mail \notin {"none", "failed"} /\ ShouldMark(mail, quote.status)
          /\ Become(p, [Idle EXCEPT !.step = "mark", !.mail = mail])
  /\ UNCHANGED <<offer, post, projects, told>>

\* The dedupe key is unique; a suppressed address withholds the message.
MailInsert(p) ==
  /\ At(p, "insert")
  /\ \/ mail # "none" /\ UNCHANGED mail /\ Finish(p)
     \/ mail = "none" /\ mail' = "withheld" /\ Finish(p)
     \/ mail = "none" /\ mail' = "queued" /\ Become(p, [sess[p] EXCEPT !.step = "call", !.mail = mail'])
  /\ UNCHANGED <<offer, emailed, projects, told>>

\* The provider answers; an attempt that seems to fail may have got through.
\* The answer is recorded as Delivery!Flush does, and read back.
MailCall(p) ==
  LET s == sess[p] IN
  /\ At(p, "call")
  /\ \E answer \in {"sent", "failed", "withheld"}, through \in BOOLEAN :
       /\ answer = "sent" => through
       /\ answer = "withheld" => ~through
       /\ emailed' = (emailed \/ through)
       /\ Become(p, [s EXCEPT !.step = "record", !.answer = answer])
  /\ UNCHANGED <<offer, mail, projects, told>>

MailRecord(p) ==
  LET s == sess[p] IN
  /\ At(p, "record")
  /\ mail' = Written(s.mail, s.answer, mail)
  /\ IF s.sweep THEN Finish(p) ELSE Become(p, [Idle EXCEPT !.step = "check", !.mail = mail'])
  /\ UNCHANGED <<offer, emailed, projects, told>>

\* The commits of the attempt expired the quote: its status is read again.
MailCheck(p) ==
  LET s == sess[p] IN
  /\ At(p, "check")
  /\ IF ShouldMark(s.mail, quote.status)
     THEN Become(p, [Idle EXCEPT !.step = "mark", !.mail = s.mail]) ELSE Finish(p)
  /\ UNCHANGED <<offer, post, projects, told>>

\* retry_pending() retries the message and knows nothing of the quote.
SweepRead(p) ==
  /\ Begins(p) /\ mail = "failed"
  /\ Become(p, [Idle EXCEPT !.step = "call", !.mail = mail, !.sweep = TRUE])
  /\ UNCHANGED <<offer, post, projects, told>>

\* Mutant: the provider's name of the event is stored.
ReportRaw ==
  /\ mail = "sent"
  /\ mail' = "email.delivered"
  /\ UNCHANGED <<offer, emailed, projects, told, sess>>

\* A webhook: the message was delivered, bounced or complained about.
Report ==
  /\ mail = "sent"
  /\ mail' = "reported"
  /\ UNCHANGED <<offer, emailed, projects, told, sess>>

Crash(p) ==
  /\ ~calm /\ ~At(p, "idle")
  /\ Finish(p)
  /\ UNCHANGED <<offer, post, projects, told>>

Step(p) ==
  \/ \E t \in Terms : CreateGeneral(p, t) \/ \E new \in BOOLEAN : EditRead(p, t, new)
  \/ CreateItems(p) \/ EditTotals(p) \/ EditItems(p)
  \/ \E priced \in BOOLEAN : CreateStone(p, priced) \/ Complete(p, priced)
  \/ CompleteRead(p)
  \/ ApproveRead(p) \/ ApproveWrite(p) \/ MarkRead(p) \/ MarkWrite(p) \/ Dispatch(p)
  \/ HandoffRead(p) \/ HandoffCreate(p)
  \/ MailRead(p) \/ MailInsert(p) \/ MailCall(p) \/ MailRecord(p) \/ MailCheck(p)
  \/ SweepRead(p)
  \/ Crash(p)

Next == (Report \/ \E p \in Processes : Step(p)) /\ UNCHANGED calm

Spec == Init /\ [][Next]_vars

-----------------------------------------------------------------------------
(* However requests interleave and wherever they die:                      *)

\* A quote is marked as sent because its e-mail was accepted or because a user
\* said so, never on an attempt that failed, whoever made that attempt.
SentIsEarned ==
  [][quote.status # "sent" /\ quote'.status = "sent" =>
       emailed \/ \E p \in Processes : At(p, "mark") /\ sess[p].mail = "none"]_vars

\* What was offered, agreed or handed over has a price, though stone drafts
\* without one are completed while others decide on them.
NoUnpricedOffer ==
  /\ quote.status \in {"sent", "approved"} => quote.total # NoPrice
  /\ \A i \in DOMAIN projects : projects[i].total # NoPrice

\* A quote becomes one project at most, and only once it was approved, even
\* when a user and a rule hand it over together.
OneApprovedProject == Len(projects) <= 1 /\ (projects # <<>> => quote.approvedAt)

\* What was offered was priced, and what was agreed became one project.
OfferIsSound == NoUnpricedOffer /\ OneApprovedProject

(* When requests neither overlap nor die:                                  *)

\* A quote that was sent or approved keeps its lines, terms and total, and an
\* approved one its approval.
OfferIsFrozen ==
  [][calm /\ quote.status \in {"sent", "approved"} =>
       /\ quote'.lines = quote.lines /\ quote'.terms = quote.terms /\ quote'.total = quote.total
       /\ quote.status = "approved" => quote'.status = "approved"]_vars

\* The stored total is the price of the stored lines at the stored terms.
TotalMatchesLines ==
  calm /\ AtRest /\ quote.total # NoPrice => quote.total = Price(quote.lines, quote.terms)

\* DECISIONS.md, ADR-047: the quote a project is linked to is an approved one
\* and its total, the base contract, is the one that was handed over.
BaseContractIsFixed ==
  calm /\ projects # <<>> =>
    quote.status = "approved" /\ quote.total = projects[1].total /\ quote.lines = projects[1].lines

\* Rules hear of a quote once when it first has a price, once when it is sent
\* and once when it is approved, by whichever route each of these came.
TriggersMatchHistory ==
  calm /\ AtRest =>
    /\ told["created"] = IF quote.total # NoPrice THEN 1 ELSE 0
    /\ told["sent"] = IF quote.sentAt THEN 1 ELSE 0
    /\ told["approved"] = IF quote.approvedAt THEN 1 ELSE 0

\* A quote, its lines, its project and what rules heard of it tell one story.
RecordsAgree == TotalMatchesLines /\ BaseContractIsFixed /\ TriggersMatchHistory

(* What a comment says and the code does not keep:                         *)

\* QuoteEditStateError: a quote that has been sent to a customer is "a document
\* someone else is holding a copy of; changing its prices underneath them is a
\* substitution".  The sweep sends the e-mail and leaves the quote a draft.
CustomerCopyIsFinal ==
  [][calm /\ mail \in {"sent", "reported"} => quote'.total = quote.total /\ quote'.lines = quote.lines]_vars
=============================================================================
