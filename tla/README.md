# TLA+ models of the GeoCore API

GeoCore is a multi-tenant back office for stone and construction workshops: a
FastAPI service (`src/app`) over one PostgreSQL database, a web client and a
marketing site. These modules model the parts of the service whose correctness
depends on the order of steps: what is committed when, what a request read before
another one wrote, what a crash leaves behind, which event arrives first, what a
release that is still running writes while the next one migrates the database.

## How the service runs, and what an action is

Every request has a database session of its own (`app/database/database.py`:
`autocommit=False, autoflush=False`, objects expire on commit), PostgreSQL runs it
at READ COMMITTED, and almost every function of `app/database/crud.py` commits
before it returns. No row is locked: only unique constraints serialise anything.
Three consequences shape all models.

* **An action is one commit** (or one call to an outside service, or one file
  operation), together with the reads since the previous one that its decision rests
  on, where splitting them further changes nothing the properties see. A request is a
  process: its program counter and the values it still holds are its *session*.
* **A check and the write it guards are separate actions** whenever another
  commit, or a call, can come in between. The write is then unconditional: it is
  an `UPDATE ... WHERE id`, not a compare-and-set. SQLAlchemy writes the columns
  whose value changed against the values *loaded*, so a request that "sets" what it
  found leaves the column to whoever changed it meanwhile. `Delivery!Flush`,
  `Billing!ChangeWrite`, `ProjectFlow!Moved`, `Variations!EditWrite` and
  `Diary!WriteTask` model this column by column; several properties turn on it.
  What a request has loaded it goes on seeing until it commits, rolls back or refreshes:
  a second query for the row returns the copy it holds (`Automations!Recheck`).
* **A crash** (`Crash`, `Die`, `Stop`, `Kill`, `GiveUp`) loses a session and nothing
  else: what it committed stays.

One server process runs (`Dockerfile:33` starts uvicorn without `--workers`).
Ordinary routes are `def` functions, run in a thread pool, so they interleave
anywhere. The two webhook routes are `async def` with a body that does not await
after reading the request, so in one process webhook handlers run one at a time.
`Billing` relies on that; `Delivery` does not (two replicas during a deployment may
handle webhooks side by side), and what it shows holds in either case.

Some properties hold only as long as requests do not overlap, because the code does
not lock. The modules keep that apart in one of two ways: a Boolean `calm`, fixed by
the initial state, under which requests do not overlap and nothing dies (`Procurement`,
`Billing`, `QuoteLifecycle`), or a history variable that remembers an overlap or a
death that did happen (`overlap`, `trouble`, `writes.overlapped`, `blots`, `toll`,
`faults`). Either way the comment of each property says which it is.

## Inventory

State, operations and hard behaviours of each part; `PROJECT.json` lists all of
them with their status, and the hazards with their lines.

| part | state it keeps | operations | what is hard | correct when |
|---|---|---|---|---|
| e-mail delivery (`communications`) | one row per message, suppression list, processed events, preferences | send, retry, sweep, webhook, suppress, unsubscribe | provider call between two commits, webhooks in any order, duplicate sends, retries | no status is invented, what was handed over stays so and can be traced, nothing withheld is sent |
| procurement | orders, lines, cost entries, receipts, requirements | create, edit, approve, order, cancel, receive, allocate | status, costs, receipts and requirements are separate commits | costs match the order, statuses follow deliveries, final states are final |
| automations | rules, runs keyed by dedupe keys | event dispatch, daily scan, five actions | failed runs, keys that outlive the event, overlapping evaluations | an action happens once per occasion, a success has done its work |
| quotes | quote, lines, totals, status | create, edit, price, send, approve, hand off | e-mail outcome against approval, edits against decisions | a sent or approved quote is what the customer saw; one project per quote |
| billing | subscription, processed Stripe events | checkout, six webhook events, trial | unordered and lost events | access follows the latest state at Stripe |
| workflows and projects | stage, previous stage, legacy status, history | transition, hold, resume, legacy status, conversion | gates read before the write, two endpoints that move one project | the two positions agree, history is a path of the template |
| variations, financials | change orders, cost ledger | send, approve, reject, void; costs | repeated and racing decisions | totals are those of the lines, an approved variation counts once, risk is reported |
| authentication | token version, reset and verification links, attempt windows | login, logout, reset, change, verify | links used twice, versions incremented from a loaded value | a session was opened with the current password, attempts are bounded |
| invitations, users, tenants | users, invitations, seats | sign up, invite, accept, revoke, deactivate, purge | seats at the limit, acceptance in two commits | members were invited, a workspace keeps an owner |
| privacy, portal, documents, messages | deletion request, export, link, files and rows | purge, export, upload, delete, logo, post | a file and its row change apart, purge against upload | rows have their bytes, nothing is left unnamed, a purge is complete |
| appointments, tasks, notifications | visit, task, follow-ups, reminders | schedule, complete, cancel, set, the two jobs | two requests on one row, two runs of a job | what ended is logged once, an enquiry is followed up once |
| migrations | schema, rows the revisions change, advisory lock | upgrade, downgrade, deploy | old releases that write meanwhile, a job that takes no lock, half-way failures | a serving release finds its schema, backfills cover every row |
| recovery scripts | upload directory, archive, manifest | bundle, restore | a source that changes, two operators, kills | a manifest is a snapshot, a restore is all or nothing |
| catalogue, calendar, activity, dashboard | rows edited one at a time | create, edit, list | little: single commits | plain validation |
| AI, web | configuration; none | | external services | out of scope |

The parts call each other inside one request (a status change dispatches an
automation, which may send an e-mail or create a project) and share the database;
the only asynchronous inputs are provider webhooks, Stripe webhooks and the
scheduled jobs.

## Modules

| module | models |
|---|---|
| `Delivery` | `DeliveryService`, the webhook route, suppression and consent: several requests on several messages |
| `MailLedger` | what the e-mail service promises of each message; `Delivery` implements it |
| `RetrySweep` | which rows a sweep of failed messages retries |
| `Procurement` | one purchase order with its costs, receipts and requirements |
| `OrderBook` | what the project can rely on in an order, as a book of entries; `Procurement` implements it |
| `Billing` | the subscription of one workspace, its trial, Stripe and Stripe's events |
| `QuoteLifecycle` | one quote from draft to project, with its e-mail and its triggers |
| `Automations` | one rule evaluated against one subject by requests and by the scan |
| `Sessions` | one account: sessions, token version, reset and verification links, throttles |
| `Membership` | workspaces, users, invitations, seats, deletion of a workspace |
| `ProjectFlow` | one project's stage, status, history and customer |
| `Variations` | one change order and the cost entries of its project |
| `Schema` | every revision of `alembic/versions`: tables, added columns and keys, up and down |
| `Migrations` | what the revisions do to rows, and the rollout of releases |
| `TradeWorkflows` | the workflow template of every trade, as the migration seeds it |
| `FrontDesk` | documents, logo, portal link and messages, export and purge |
| `Diary` | a visit, a task, follow-ups of enquiries, trial reminders |
| `RecoveryBundle` | bundles of the upload volume and their restore |
| `MCDelivery`, `MCDeliveryLive`, `MCProcurement`, `MCBilling`, `MCQuoteLifecycle`, `MCAutomations`, `MCPeople`, `MCWorks`, `MCOffice` | instances for TLC |
| `DeliveryProofs` | theorems about `Delivery`, `MailLedger` and `RetrySweep` |
| `ProcurementProofs`, `BillingProofs`, `QuoteLifecycleProofs`, `AutomationsProofs` | theorems about the module of that name |
| `PeopleProofs` | theorems about `Sessions` and `Membership` |
| `WorksProofs` | theorems about `ProjectFlow` and `Variations` |
| `OfficeProofs` | theorems about `FrontDesk`, `Diary`, `RecoveryBundle` and the gate of `Migrations` |

`QuoteLifecycle` keeps one message of `Delivery`, reduced to the status its decisions
read, and `RetrySweep` the order of many; `Delivery` has the columns. `Migrations`
replays the chain of `Schema`, and `TradeWorkflows` shows of every template what
`ProjectFlow` assumes of stages (a line of positions with two side stages). Otherwise
the modules share no state: a quote, an order and a subscription meet only in tables
that none of their operations read. An instance that checks several such modules at
once (`MCPeople`, `MCWorks`, `MCOffice`, `MCDeliveryLive`) lets each behaviour follow
one of them, named by `focus`: interleaving them would only multiply states that no
property relates.

### Delivery and MailLedger

`row[m]` is the `communications` row of message `m` (status, failure category,
`provider_message_id`, `attempt_count`) or absent; `suppressed`, `processed`,
`consent` and `tokens` are the tables of those names, reduced to the addresses,
events and messages in play. A request is `pc[p]` and `work[p]`: a `send()`, a
`retry()` or a webhook handler. `accepted` is the provider's own record, `calls` the
requests it received and `emitted` the events it may deliver, once or more; they are
modelled from how the code uses them: the idempotency key makes one message one
provider id, an accepted answer carries that id. An answer the code cannot parse
behaves like a crash at that point.

`send()` is `SendRead` (the duplicate lookup, the consent and suppression checks),
`SendInsert` or `SendRefused` (the unique dedupe key), `SendWithhold` (a row that is
never attempted), `ProviderCall`, `RecordResult`. `retry()` is `RetryRead`, the same
call and the same recording. A webhook is `WebhookClaim` (the event is committed as
processed), `WebhookUnknown` or `WebhookFound`, `WebhookPost`, `WebhookSuppress`,
each a commit. `SendRead` merges the reads of one transaction that nothing separates
but other requests' commits: a suppression committed between two of them is a
suppression committed after.

`MailLedger` knows only a phase per message (absent, pending, blocked, failed, handed)
and which messages have left, and says: a message is opened once, blocked before it is
ever handed over, may fail and be tried again, and once handed over stays so. It lets an
entry be pending before it is blocked, because `send()` commits the row as queued and
suppresses it in the next commit; the docstring says otherwise (see *Disagreements*).

### RetrySweep

`list_retryable_communications(limit)` orders failed rows by `last_attempted_at`;
`failed` is that order. A sweep walks the list it made; users retry rows meanwhile.

### Procurement

`po`, `items`, `costs`, `received` and `req` are the tables; cost entries of a line
are numbered so that two of them can be told apart. One order is enough: orders
share no row but requirements. Quantities are small naturals and prices are not
modelled: `priced` says which lines the stored subtotal was computed from, and `taxed`
whether VAT and total are known to be those of the rate on record. An edit with items
replaces the lines and computes the totals anew (`EditRead`, `EditItems`, `EditTotals`);
one without writes the fields it was given and may leave VAT and total behind the rate
(`FieldsRead`, `EditFields`). An order
without a project has no costs and is not modelled. A user's manual edits of the cost
ledger (`financials`) are left out. A foreign key refuses the deletion of a line that
a cost or a receipt refers to. The writing of an entry's state and the read before it
are one action: if the entry is deleted in between, the update finds no row and the
request fails, which is `Crash` at that point.

`OrderBook` has no requests: an order is a book in which one entry at a time is made,
each under a condition on what the book says at that moment. In `Procurement` a
request checks that condition when it reads and writes later, so the refinement says
which conditions survive the steps of others (lines that are charged or delivered stay,
what is settled or received was delivered) and which hold only while requests neither
overlap nor die (`alone`, which is `calm`: the status moves on, a line is charged once
and never over-received, no requirement goes back). An edit of the rate alone is an entry of
its own (`Retax`), after which the book vouches for its subtotal only. Every read, and
every write the project does not see (`approved_at`), is a stutter.

### Billing

`sub` is the workspace's row of `subscriptions` (status, Stripe id, whether it has a
trial end, the cancel flag, the grandfathered flag), `done` the table
`processed_stripe_events`, `hand` the event a webhook has recorded and not yet
applied, `reqs` the cancel and resume requests. `stripe` and `log` are Stripe's side,
external: what a subscription is there, and the events emitted about it, each with a
copy of the subscription at that moment. `clock` says whether the 48 hours that
Stripe needs, or anything, is left of the trial.

Each handler is an operator from an event to the new row (`Completed`, `Upserted`,
`Deleted`, `Failed`, `Paid`); `RecordEvent` and `Handle` are the two commits.
`set_cancel_at_period_end()` is `ChangeRequest`, `ChangeCall`, `ChangeWrite`.
When `calm`, events arrive in the order Stripe emitted them. `current_period_end`,
plans and prices are left out: no decision modelled here reads them. Stripe's
status `unpaid`, which the handlers and the access gate treat like `past_due`, and the
statuses of a checkout that never completes are left out of what Stripe may do.

### QuoteLifecycle

`quote` is the row with the line sets its items come from; a total is known by the
lines and terms it was computed from, so that "the total is the price of the lines"
can be stated without arithmetic. `mail` is the status of the row with the dedupe
key `quote_sent:<id>`, `emailed` whether the provider took the message, `projects`
the projects linked to the quote with what they copied, `told` the dispatches.

`create_general()` is `CreateGeneral`, `CreateItems`, `Dispatch`; `update_general()`
is `EditRead`, `EditTotals`, `EditItems`; a stone quote is `CreateStone` and
`CompleteRead`, `Complete`; `approve()`, `mark_sent()` and `handoff()` are a read and
a write each; `send_and_mark_sent()` is `MailRead` to `MailCheck` and `MarkWrite`.
An automation rule that creates the project runs in the approving request (`rule`).
Which customer, which trade and the text of the quote are left out.

### Automations

An *occasion* is the discriminator of a dedupe key: the status a project reached, the
expiry date of a quote. `runs` is `automation_runs` (a failed or skipped run is
recorded without a key, so nothing finds it again), `made` the rows the actions leave,
each under the key of its occasion and its index in the rule, in the table of its
kind. An evaluation is handed the subject (`Change`, `Dispatch`, or `Scan`), looks for
a run that succeeded (`Found`), tests the conditions (`Skip`), performs the actions the
rule has then one commit at a time (`PerformTask`; `Recheck` and `PerformMail` for a
message), and records the run (`Record`, `Fail`). The rule may be edited, the quote
answered and its date moved in between.
Keys are unique in their tables, which is all that keeps evaluations apart.

`copy` is the quote in the evaluation's session. `send_quote_follow_up` asks for the row
again before it writes, and is given the copy that the scan or the request loaded, unless
a commit of the evaluation has expired it: an answer given since then is not seen. A quote
without a customer, or whose customer has no e-mail address, ends the action normally,
so the run succeeds without a message; `said`, the detail of the run, keeps what became of
each action (done, answered, unreachable).

### Sessions and Membership

`account` is the row of `users`; passwords are numbers, so that a session can be
compared with the password it was opened with. Every password write stores
`token_version + 1` counted from the version the request *loaded*
(`SetPassword(p, seen)`). `window` counts the failed attempts of a limiter: `check()`
and the recording of the failure are apart, and in-process, so `Restart` clears it.

`Membership` starts with no workspace. Sign-up is workspace, user, trial; an
invitation is admitted by the seat count and inserted later; accepting inserts the
user, grants and marks the row, in three commits. `users.email` is unique: a request
that clashes ends with an error and leaves what it has committed.

### ProjectFlow, Variations and TradeWorkflows

Stages are positions, with `OnHold` and `Cancelled` behind the last; a project of the
first workflow (`legacy`) has stages that are its statuses. `MoveRead` is everything
`transition_project_workflow()` decides by, gates included, `MoveWrite` its one
commit; `StatusRead` and `StatusWrite` are the older endpoint. The move reads the
project anew before it writes a legacy project's status, so whichever endpoint writes last
sets stage and status, and the two agree in every interleaving. `TradeWorkflows` has
the stages of all trades in full and says why positions will do.

A variation's `amount` stands for its lines and `at` for the rate its totals were
computed with. Decisions are read, written and told (log and triggers) apart. A cost
entry that a user records is committed, then the margin checked (`CostWrite`,
`CheckRisk`). The committed costs of an approved order are inserted without a check
(`OrderCost`); `unseen` holds them until the next check comes across them.

### Schema and Migrations

A revision of `Schema` is what `upgrade()` creates, adds, links and requires, and what
`downgrade()` drops, in its order. `SchemaAt[n]` replays the chain. `Migrations` keeps
of each table only what some revision changes in its rows: whose subscription is free,
which quote has how many lines, where a project is. A quote remembers how many parts it
was given (`parts`): a release before `quote_items` (20) keeps a worktop and flags
(`extras`), one since then lines, with the flags unset. So what the backfill of revision
20 makes of a quote whose lines a downgrade has dropped (`dropped`) is all the lines of
the old form, and a single one of the new. `trade` marks a line that is not stone, for
which the downgrade of revision 24 refuses. A container deploys, waits for
the advisory lock, applies all missing revisions in one transaction and serves; the
release job does the same without the lock; `Serve` is a request of any release that
runs, which may insert only what the database lets a release of that age insert.

### FrontDesk, Diary and RecoveryBundle

`FrontDesk` keeps files and rows in two variables and every route as the sequence in
which it touches them; `toll` holds what deaths, refused deletions and overlaps
account for, and nothing else may be missing or left over. `Diary` has a visit and a
task that requests change, and the two jobs that walk a list they made earlier. In
`RecoveryBundle` contents are
versions: `Walk`, `Pin`, `Discovered` and `Pack` are the passes of the bundle
(a file that differs from what was pinned fails it), `Load` to `RestoreEnds` the
restore, and `Damage`, `Intrude`, `ChangeSource` and `Kill` what may go wrong.

## Runs

| run | shows | bounds |
|---|---|---|
| `delivery` | the ledger is honest, sends and handlers are alone, what was handed over stays so, and `MailLedger` is implemented | one message, three requests, three attempts, crashes |
| `delivery_live` | a queued row is resolved, a complaint suppresses; every failed row is retried until resolved or exhausted, once per sweep | two requests, no crash; three rows, a sweep holds all of them |
| `procurement` | what holds of an order under interleaving and crashes, and what holds when requests do not overlap; `OrderBook` is implemented | two requests, two lines of which an edit with items drops one, two cost entries for the one line and one for the other (the constraint `FewEntries`), two deliveries |
| `billing` | one trial ever, access ends only for a reason; in order, access and flags follow Stripe | two subscriptions, one request, seven events in order or four in any order |
| `quotes` | offers are priced, marked for a reason, handed over once; without overlap contents, triggers and project agree | two requests, three line sets |
| `people` | a session follows the password unless two password writes overlap; limits are passed by requests in flight only; members were invited; an owner remains | two requests, one link of each kind, three password writes; one workspace, three addresses, three invitations, two seats |
| `automations` | one row per action and occasion, a recorded success is right about what became of each action, no chaser after the answer but from a copy loaded before it, no silent attempt before the success; a due occasion is tried until it succeeds | two evaluations, two actions, two occasions, one failure |
| `works` | the two positions of a legacy project agree, stages come in order, holds remember; totals are those of the lines, decisions and finished trade projects are final, risk is told of all costs a check has come across | two requests, four stages with one gate, four moves; two clerks, two entries |
| `office` | the chain replays and templates are flows; a serving release finds its schema, backfills cover every row (lines that a downgrade dropped aside); files and rows agree, visits, tasks, follow-ups and reminders are true; bundles and restores are exact; nothing granted is taken back but by a downgrade | three deployments of five releases, a job, three writes, a downgrade; two requests, three files, a death; two actors; two operators, one change, one kill |

Three runs each show one statement of a comment or document that the code does
not keep; `PROJECT.json` quotes the statement. None needs an unusual interleaving:

* `over_receipt`: a delivery that names a line twice passes the check on each, without
  any concurrency, and receives more than was ordered.
* `cancelled_revived`: the older status endpoint moves a cancelled project of the first
  workflow on, with one request.
* `rollback_blocked`: an earlier image deployed behind a newer database is kept from
  serving by its own migration gate, although it fills every column the database
  insists on.

### Disagreements

Other statements of comments and docstrings that the code does not keep have no run. The
modules follow the code, so what passes must not be read as confirming the statement:

* `app/communications/service.py:14-16` has suppression checked "before any row is even
  created with a "queued" status", and a suppressed recipient never shown as queued. The
  queued row is committed first and marked in the next commit; a crash in between leaves it
  queued. `MailLedger` opens the entry and then blocks it, and promises that a blocked
  message never leaves.
* `app/automations/actions.py:260-265` says that a follow-up rechecks "against the live
  row". It rechecks the copy its session holds. `NoFollowUpAfterAnswer` claims only that a
  message after the answer comes from a copy loaded before it.
* `app/automations/engine.py:15` calls every attempt visible, and
  `dispatcher.py:147-149` has a project that re-enters a status not "silently no-op". Where
  a run is found under the occasion's key (`engine.py:102-104`) the evaluation ends
  without a row; `AttemptIsVisible` exempts occasions that have succeeded, and no others.
* A follow-up that finds no customer or no address (`actions.py:271-276`) is recorded as a
  success. `SucceededIsDone` takes what became of each action from the run's detail.
* An order edited without items takes a VAT rate and keeps the VAT and total of the old
  one (`app/procurement/service.py:231-232, 255-256`). `OrderIsSound` claims the subtotal;
  `OrderBook!Retax` says when VAT and total may be stale.
* An approved order adds committed costs without a look at the margin
  (`app/procurement/service.py:344-363`). `RiskIsTold` claims the costs that users
  recorded or that a later check came across.
* A downgrade below `quote_items` and a second upgrade leave one line of a quote that had
  several (`app/quotes/service.py:263-271` writes the old flags as unset).
  `RowsAreWhole` names this as its one exception.

Further limits of the code, met while modelling and not the subject of a run. Some are
written down as properties that no run checks (in parentheses), to be looked at when
the code changes:

* e-mail: a retry repeats neither the suppression check
  (`EveryAttemptChecksSuppression`; `app/database/models.py:1184` promises it) nor the
  consent check and the footer of a marketing message; exhausted rows stay in the
  sweep's query and, `Limit` of them, starve all others; two retries that overlap count
  one attempt; a `send()` that loses the race for its dedupe key raises; a bounce that
  arrives before the provider id is committed is marked processed and dropped.
* procurement: a cancellation deletes actual cost entries as well as committed ones
  (`ActualCostsStay`; `docs/SPRINTS/sprint-044.md:118` says never actual ones); one that
  dies half-way cannot be completed and leaves its costs (`NoPhantomCost`); two
  approvals that overlap create each cost twice; a delivery recorded before the order
  is placed leaves it at `ordered`; a requirement cancelled while an order is
  synchronised may come back.
* billing: `checkout.session.completed` after the subscription event clears
  `current_period_end`; events out of order, or lost to a crash after they were
  recorded, leave the status stale until the next event; an invoice of an ended
  subscription that fails and is then paid makes it active again; a workspace that
  completes two checkouts has two subscriptions and one row.
* quotes: a quote that the sweep mails stays a draft whose prices may change under the
  customer (`CustomerCopyIsFinal`); one approved while its e-mail is under way returns
  to `sent`; an edit that read the draft writes into a quote approved since, so the base
  contract moves; two edits that overlap may leave both sets of lines; a message already
  reported as delivered never marks its quote.
* automations: a failed event is not dispatched again, and one whose request dies before
  the dispatch is lost; a quote answered after the evaluation loaded it is chased, even
  where the action checks again.
* people: overlapping password writes may store one version twice, and a session that was
  refused is accepted again (`RefusedStaysRefused`); the seat limit gives way to requests in
  flight (`SeatsAreKept`), and a sign-up whose address is taken in between leaves a
  workspace without a user (`NoOrphanWorkspace`).
* works: `send()` and `reject()` repeated on a change order fire their triggers again
  (`ToldOnce`); an edit of the VAT rate alone leaves the totals as they were
  (`app/variations/service.py:156`); overlapping holds may lose the stage to resume; a
  resume is refused by the gates of the stage it returns to (`app/workflows/gates.py:155`).
* migrations: the round trip through revision 33 rebinds trade projects to the legacy
  workflow, one through 20 loses all but one line of a quote written since, one through 32
  grandfathers subscriptions that were not; during a rollout the previous release
  writes quotes without lines (20), cannot insert projects (33), prices projects in the
  default currency (41) and moves a legacy project's status without its stage; a
  workspace that took the slug `default` blocks the backfill of revision 6.
* desk: a purge leaves the logo on the volume and its name in the row, and the portal link
  active; two downloads that overlap both get a single-use export; two logo uploads that
  overlap leave a stray file.
* diary: two requests that set one task may leave it cancelled with a completion time
  (`app/tasks/service.py:74` says otherwise); an enquiry that stopped being one after the
  job's list was made is followed up all the same.
* recovery: files created after discovery's listing are not in a bundle, and a run killed
  between archive and manifest leaves an archive alone; two restores into one directory
  that both found it empty leave their stagings behind.

**Bounds.** Two requests are the smallest number that interleave; the third in
`delivery` lets a webhook run beside two of them. Three attempts let a row fail, be
retried and be exhausted. Two lines let an edit drop one and a delivery carry both, three line sets
let a quote be created and edited by both requests. Seven events are a whole life in
order (checkout's two, a charge's two, a cancellation, the end, an invoice) and four
in any order suffice to swap the events of two changes; two subscriptions let a
workspace return. Three password writes are one more than may overlap; three addresses
and two seats let the limit be reached and passed. Two occasions let a date move, two
orders of the actions let an edit give a key to another action, and one failure lets a
run be repeated. Four stages are a first, an ungated, a gated and a last one, and four
moves let a project be held, resumed and moved on. Five releases lie on either side of
the revisions that change rows, and three deployments of them let two overlap and a
third replace one. Three files let two uploads meet a document; three paths, two of
which differ in case alone, let a bundle collide. Symmetry is used on interchangeable
model values (processes, subscriptions, addresses, projects, files), never in a run with
a liveness property. The bounds are the constants named `Max...`, `Limit`
and `Seats` of each module.

**Fairness.** `delivery_live` assumes that a running request continues, because
nothing blocks it (no locks, the provider call times out), that the provider
delivers each event until it is answered, and that the scheduled job starts a sweep
when there is one to make. `automations` assumes that the cron job scans again and
again and that an evaluation that runs gets to its end, if only to fail. No fairness on
users: nobody has to send, retry or answer. Deadlock is not checked where the modelled
part may simply be finished.

## Proofs

`DeliveryProofs` proves for every set of messages, requests and addresses and every
`MaxAttempts` and bound:

* `TypeCorrect`: the type invariant,
* `NoInterference`: between inserting a queued row and recording its outcome, the
  sender is the only session on the row, and an event has one handler,
* `LedgerIsHonest`: a status says what happened at the provider, and whatever the
  provider accepted can be traced,
* `HandedStays`: a row handed over never returns to queued or failed,
* `ImplementsLedger`: `Delivery` implements `MailLedger`,
* `OneAttemptPerSweep`, of `RetrySweep`: a sweep attempts a row at most once, and a row
  has one place in the order.

None of the first four is inductive alone. A stale session writes columns over a row it
loaded long ago, so the argument needs what a session may hold: `IInv` relates every
session's loaded copy to the row (a copy that says failed belongs to a retry, and
the columns its flush will change are only those its outcome sets), says that a
row's provider id is the id the provider recorded, and that only the inserting
session works on a queued row. The proof has one lemma per group of actions and one
step per conjunct that the action can disturb. For the sweep it is enough that what has
failed or was resolved has been attempted; the rest is about positions in a sequence
(`TakenOut`, `OthersStay`, `Shortened`). The only assumptions are those `Delivery` and
`RetrySweep` state on their constants.

`ProcurementProofs` proves for any lines, edits, deliveries and number of requests:

* `TypeCorrect`: the type invariant,
* `DeliveriesAreEarned`: a cost is actual only for a line delivered in full, and an
  order is received only when as much was delivered as its lines order,
* `ChargesKeepLines`: no edit replaces a line that is charged or was delivered;

the three that follow, as far as they need it, while requests neither overlap nor die:

* `OrderIsKept`: the subtotal is the price of the lines, each line is charged once from the
  approval on and not at all before it or after a cancellation, and no line receives more
  than it orders,
* `DeliveryFrees`: an order received in full leaves no requirement of its lines blocking,
* `OrderOnlyMovesOn`: the status moves only along `PO_ALLOWED_TRANSITIONS`, and
  procurement never moves a requirement back,
* `OrderKeepsTheBook`: `Procurement` implements `OrderBook`, in every interleaving and
  with crashes anywhere for the conditions that do not say `alone`.

The invariant has two halves. `AnyInv` holds whatever interleaves. `CalmInv` is for
requests that do not overlap and do not die, and is told from the view of the one
request under way: half-way through it the tables do not agree, so `Sound` says how far
they have come (which lines are charged already, which receipts are counted, which
requirements are still to be freed). A step then moves that view on by one line.
The refinement needs one more fact of every interleaving, `Synced`: a request about to
write a status that speaks of deliveries derived it from deliveries, and those only
grow. `EnterPlace` to `EnterByHand` then map each write to its entry, and a write that
changes nothing the book shows to a stutter.
Sums over receipts are recursive functions; a fact about all of them is proved from the
least counterexample, because the library's induction theorems cannot be instantiated
here. Two theorems have hypotheses. A delivery names a line once (`OneLineEach`), for
`record_receipt()` does not ask, which is what `over_receipt` shows. For `DeliveryFrees`,
users set requirements only to statuses that do not wait for the order (`UsersFree`), and
a line with a requirement orders something: `app/procurement/models.py:150` lets a
quantity be zero, no delivery ever names such a line, and its requirement stays
`ordered`.

`QuoteLifecycleProofs` proves for any set of requests and any number of line sets, in
every interleaving and with crashes anywhere:

* `TypeCorrect`: the type invariant,
* `OffersAreSound`: what was offered, agreed or handed over has a price; one project at
  most, and none before the approval,
* `Earned`: a quote is marked as sent only for an accepted e-mail or a user's word;

and, while requests neither overlap nor die:

* `OneStory`: the total is the price of the lines, a project's contract is the approved
  quote's, rules hear of each event once,
* `OffersStay`: an offered quote keeps its lines, terms and total, an approval stands.

The invariant of the first three is about what a request knows between its read and its write
(`Knows`): it read a price, an approval, an accepted e-mail, or that the row exists,
and acts on that much later. The step that matters is `Keeps`: no request takes any of
these back, so what one of them read stays true while the others write. `SoundStep`
states it once: after a step only the session it leaves behind is to be looked at.
For the last two, `Story` says what row, project and dispatches have to do with the one
session under way: the total may be that of lines still to be written, a dispatch may be
due, and what was read still holds. The only assumption is that one line set at least may be written.

`AutomationsProofs` proves for any rules, occasions and number of evaluations,
however they overlap, fail and die:

* `TypeCorrect`: the type invariant,
* `DoneOnce`: an action leaves one row per occasion,
* `SuccessIsTrue`: a run recorded as succeeded is right about each action of its rule: it
  left its row, or is a message skipped for an answer or for want of an address,
* `Fair`: a message after the answer comes only from a copy loaded before it, no session
  takes the quote for unanswered any more, and an evaluation that gets to its end leaves a
  row unless the occasion has succeeded.

A success may rest on rows that evaluations which failed or died have left, so the
invariant says what an evaluation knows of the actions behind it (`Progress`): each has
its row, whoever wrote it, or is a message that was skipped for a reason that stands. A row found
under a key is the row of *this* action only while the rule has not been edited
(`RowsFit`), which is why `SucceededIsDone` gives up on edited rules. `StepKeeps`
reduces a step of one evaluation to that evaluation; `Kept` is why the others need not
be looked at. The assumption on constants is `AutomationsAssumption`.

`BillingProofs` proves for any number of subscriptions, requests and events:

* `TypeCorrect`: the type invariant,
* `AccessIsKept`: one trial ever, and access ends only for a reason, in whatever order
  events arrive and wherever the process dies,
* `AccessIsTrue`: with events in the order of Stripe's changes and no crash, access, the
  cancel flag and the end are those of the latest subscription.

For the first two it is enough that an event that reports a standing reports one that
had begun (`IInv`). The third is about a row that lags behind: nothing can be said of
it now, only of what it will be. `After` is what the handler of an event makes of a
row's standing, a *path* takes the standing now through the events ahead, and the
invariant `CalmInv` says that the path ends where Stripe is. Emitting an event lengthens
the path, handling one walks a step along it. The theorem assumes what the run
assumes too: an invoice of an ended subscription may still be paid, but not fail
(`LateInvoices`); a failure followed by a payment revives access, as noted above.

`PeopleProofs` proves for any number of requests, links, addresses and seats:

* `PeopleAreTyped`: the type invariant,
* `SessionsFollow`: a session follows the password unless two password writes overlapped,
* `LimitsPassByWhoRuns`: attempts, uses of a link and people in a workspace pass their
  limit by the requests in flight at most,
* `StaffWereInvited`, `OwnersRemain`: whoever is staff was invited, and a workspace keeps
  an owner until it is purged.

Versions name passwords as long as nobody holds an account that was written since
(`VersionsAreTrue`), which is what an overlap breaks. Limits are
counted: attempts judged are in the window or in a request that is about to write them,
and an address counts for a workspace from the commit that invites or creates it,
before which the thread that will commit it counts (`SeatsCounted`). That an admitted
thread saw a free seat then bounds the sum. Constants need `SessionsAssumption` and
`MembershipAssumption`: finite sets, and limits that are natural numbers.

`WorksProofs` proves for any template, history, amounts and number of requests:

* `WorksAreTyped`: the type invariant,
* `FlowsAreSound`: in every interleaving no stage is entered before the one in front of it
  and the positions of a legacy project agree; unless requests overlap, holds remember,
  histories are chains and an enquiry becomes one customer,
* `VariationsAddUp`: totals are those of the lines, an approval is dated and told once,
* `RisksAreTold`: on a contract worth something, a margin put at risk by costs that users
  recorded, or that a check has come across, has been reported once no check is under way;
  committed costs of orders approved since are not covered,
* `FinalsStay`: finished trade projects and decided change orders stay.

The invariants say that what a request has loaded is still the row unless requests
overlapped, that every stage somebody is about to leave was entered (`StagesEntered`),
that an approval not yet told has a request that will tell it (`ApprovalTold`), and
that a risk not yet told is about to be found by the check behind a cost (`RiskFound`).
`LegacyAgrees` needs no such condition, since every write that puts a legacy project at a
stage with a status sets both. `RisksAreTold` needs `Base # 0`, a hypothesis found by a
failed proof: an approved quote worth nothing has a margin that an approved change order
can put at risk, and no approval runs the check.

`OfficeProofs` proves for any number of files, requests, actors, owners, projects,
paths, archives, operators, containers and releases:

* `OfficeIsSound`: files and rows agree, purges are complete, messages are told; visits,
  tasks, follow-ups and reminders are true; a serving container finds its schema,
* `OfficeRecovers`: a manifest is a snapshot, archives are matched, restores are exact,
* `DatabaseStaysSound`: the backfills' promises hold of every row that was not written by
  a release older than the column, at every moment of every rollout and rollback; of the
  lines of a quote, with the exception for a downgrade below `quote_items` named above,
* `OfficeTakesNothingBack`: no upgrade, crash or request takes a line from a quote or the
  mark from a free subscription, the release that introduced the mark locks no workspace
  out, and a revoked link lets no message begin. Downgrades lose no quote and make no
  general one stone, and are exempt from the rest: one that ends below `quote_items` takes
  the lines of every quote, and any may take free marks,
* `OfficeIsTyped`: rows, desk, diary and recovery stay well formed.

The same is proved of each part by itself (`DeskStaysSound`, `DiaryStaysSound`,
`BundlesStaySound`, `RevokedStaysRevoked`, `ContainersServeWhatTheyKnow`, `RowsStayWhole`,
`RevisionsTakeNothingBack`); in the office
every step is a step of one part and leaves the others alone (`OfficeSteps`).

* Desk: every name on the volume has one holder, a row, the logo or one request, by
  what that request has written, read or removed (`OwnOf`, `PrevOf`, `DocsOf`,
  `GoneOf`); so two requests cannot remove what the other still names, except through
  the overlaps that `toll` counts.
* Diary: what is not yet in a row or a log is in the hands of a request, and those are
  counted (log entries against tasks set, reminders under way against runs that send).
  A reminder has one sender at a time, which bounds the pending ones by the runs in
  progress and the stops.
* Recovery: a version of a file is new when it is written, so equal versions mean an
  untouched file; a staging has one run, which alone publishes from it.
* Gate: what a migration has read is never ahead of the database, and what serves has
  been caught up with. The lock is not needed for this: it is alembic's own refusal to
  apply a revision to a database that has moved.
* Rows: `RowsAt(r, n)` says what a database at revision n holds, late rows included. Each
  backfill and each downgrade is proved to lead from the rows of its revision to those of
  the next (`FilledKeeps`, `UndoneKeeps`) and to keep what the rows say (`FilledSpares`,
  `UndoneSpares`); an upgrade of any length is then an induction along the revisions it
  passes (`UpgradePasses`, `UpgradeKeeps`), by the least counterexample since the provers
  cannot apply an induction theorem. A request keeps them because the gate has caught the
  database up with its release (`ServedIsAhead`), and because no release before the
  sixth knows the column that every user then needs (`UsersNeedTenants`, by the same
  induction along the chain of `Schema`).

Two constant formulas are hypotheses of `DatabaseStaysSound`: `ChainReplays` and
`CatalogueIsSound` speak of one chain of 42 revisions and of one catalogue, and TLC
evaluates them in full. That the seeding code turns any list of stages into a flow, if the
list itself is in order (`IsLineup`), is proved for every list (`SeededIsAFlow`), and
`LegacyIsAFlow` applies it to the template of older projects.

Model-checked only: liveness, which rests on `ENABLED` (no prover here handles it); and
the violations, which are counterexamples.

## Not modelled

* Arithmetic of prices, VAT and summaries: pure functions of one row set; the models
  say which lines a total was computed from, not what it comes to.
* Rendering (PDF, e-mail templates, portal pages), prompts and AI clients, hashing,
  signatures, cookies: no state between steps.
* Catalogue, calendar, activity, dashboard, supplier accounts, listings: each operation
  writes one row at most and reads none that it depends on later.
* Demo requests and compliance: one stored form each, with best-effort e-mail.
* The web and marketing sites hold what the API returns. One-shot scripts (smoke tests,
  clean-ups) are run by an operator against a deployment.
* Column types, indexes and the columns a table is created with, in `Schema`.

## Plan

1. An abstract specification that `Billing` implements when events arrive in order,
   with the refinement proved: the invariants it needs are there.
2. Operators for pricing and summaries, checked against reference definitions.
3. A composition of `Automations` with the jobs that feed it, when event dispatch gets
   an outbox: today there is nothing between the commit and the dispatch to model.
