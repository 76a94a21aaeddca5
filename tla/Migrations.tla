----------------------------- MODULE Migrations -----------------------------
(***************************************************************************)
(* The database through its releases: what the revisions of Schema do to   *)
(* the rows they find, and the containers that upgrade it and write to it. *)
(*                                                                         *)
(* A container runs core/migrate_gate.py before it serves: one advisory    *)
(* lock around "alembic upgrade head", which is one transaction, and a     *)
(* failure keeps it from serving.  The platform's release job runs the     *)
(* same upgrade without the lock.  Containers of an earlier release go on  *)
(* writing meanwhile.  A release is the revision its image ends at.        *)
(***************************************************************************)
EXTENDS Schema, FiniteSets

CONSTANTS
  Containers,    \* containers of the API service
  Job,           \* the release job
  Releases,      \* images that can be deployed, by their last revision
  MaxDeploys,    \* bound: containers and jobs started
  MaxDowngrades, \* bound: downgrades by an operator
  MaxWrites      \* bound: requests that write

ASSUME MigrationsAssumption == Releases \subseteq 1 .. Latest /\ Job \notin Containers

VARIABLES
  revision,  \* alembic_version
  rows,      \* the rows the revisions change
  box,       \* what each container is doing
  lock,      \* the advisory lock: its holder, or "free"
  spent      \* deploys, downgrades and writes so far

baseVars == <<revision, rows, box, lock, spent>>

Workspaces == {"acme", "default"}
Null       == "none"
Currencies == {"GBP", "EUR"}
Statuses   == {"enquiry", "booked"}

Off == [phase |-> "off", release |-> 0, seen |-> 0]

\* NULL and a column that does not exist yet are both Null.  `lines' counts the rows of
\* quote_items, `extras' the flags of the old form in the quote itself and `parts' what the
\* quote was given when it was written; `trade' says that a line is not stone, `dropped'
\* that a downgrade took its lines, and `late' that a release wrote it which knows less
\* than the database did.
Quote   == [kind : {Null, "stone", "general"}, currency : {Null} \cup Currencies,
            lines : 0 .. 2, extras : 0 .. 1, parts : 0 .. 2,
            trade : BOOLEAN, dropped : BOOLEAN, late : BOOLEAN]
Project == [quoted : BOOLEAN, status : Statuses, flow : {Null, "legacy", "trade"},
            stage : {Null} \cup Statuses, currency : {Null} \cup Currencies, late : BOOLEAN]

BaseTypeOK ==
  /\ revision \in 0 .. Latest
  /\ rows.tenants \subseteq Workspaces /\ rows.orphans \in BOOLEAN
  /\ rows.sub \in [Workspaces -> {Null, "metered", "free"}]
  /\ rows.quotes \subseteq Quote /\ Cardinality(rows.quotes) <= 1
  /\ rows.projects \subseteq Project /\ Cardinality(rows.projects) <= 1
  /\ rows.currency \in {Null} \cup Currencies
  /\ \A c \in Containers \cup {Job} :
       /\ box[c].phase \in {"off", "waiting", "migrating", "serving", "refused"}
       /\ box[c].release \in {0} \cup Releases
  /\ lock \in {"free"} \cup Containers

BaseInit ==
  /\ revision = 5
  /\ rows = [tenants |-> {"acme"}, orphans |-> FALSE, sub |-> [w \in Workspaces |-> Null],
             quotes |-> {}, projects |-> {}, currency |-> Null]
  /\ box = [c \in Containers \cup {Job} |-> Off]
  /\ lock = "free" /\ spent = [deploys |-> 0, downgrades |-> 0, writes |-> 0]

-----------------------------------------------------------------------------
(* What upgrade() does to the rows, beyond the columns and tables.         *)

\* Users without a workspace get a default one, and its slug is unique.
AdoptOrphans(r) ==
  IF r.orphans THEN [r EXCEPT !.orphans = FALSE, !.tenants = @ \cup {"default"}] ELSE r

OnQuotes(r, f(_))   == [r EXCEPT !.quotes = {f(q) : q \in @}]
OnProjects(r, f(_)) == [r EXCEPT !.projects = {f(p) : p \in @}]

\* Mutant: the extras of the old form get a line, and the worktop none.
SplitExtras(r) == OnQuotes(r, LAMBDA q : [q EXCEPT !.lines = q.extras])

\* A line for the worktop, and one for every extra of the old form.
SplitIntoLines(r) == OnQuotes(r, LAMBDA q : [q EXCEPT !.lines = 1 + q.extras])

\* Server defaults.
CallStone(r) == OnQuotes(r, LAMBDA q : [q EXCEPT !.kind = "stone", !.currency = "GBP", !.trade = FALSE])

\* Mutant: a workspace with no subscription stays without.
GrandfatherSubscribers(r) ==
  [r EXCEPT !.sub = [w \in Workspaces |-> IF @[w] = Null THEN Null ELSE "free"]]

\* Every subscription is free for good, and a workspace without one is given one.
Grandfather(r) ==
  [r EXCEPT !.sub = [w \in Workspaces |-> IF w \in r.tenants THEN "free" ELSE @[w]]]

\* Every project there is follows the legacy template, at the stage of its status.
BindToLegacy(r) == OnProjects(r, LAMBDA p : [p EXCEPT !.flow = "legacy", !.stage = p.status])

\* Mutant: the workspace's currency, whatever the quote's.
PriceByWorkspace(r) == OnProjects(r, LAMBDA p : [p EXCEPT !.currency = r.currency])

QuoteCurrency(r) == (CHOOSE q \in r.quotes : TRUE).currency

\* The currency of its quote, else of its workspace.
PriceProjects(r) ==
  OnProjects(r, LAMBDA p : [p EXCEPT !.currency = IF p.quoted THEN QuoteCurrency(r) ELSE r.currency])

Fills == {6, 20, 24, 26, 32, 33, 41}

Filled(r, n) ==
  CASE n = 6  -> AdoptOrphans(r)
    [] n = 20 -> SplitIntoLines(r)
    [] n = 24 -> CallStone(r)
    [] n = 26 -> [r EXCEPT !.currency = "GBP"]
    [] n = 32 -> Grandfather(r)
    [] n = 33 -> BindToLegacy(r)
    [] n = 41 -> PriceProjects(r)
    [] OTHER  -> r

\* The one statement of an upgrade() that rows can make fail.
CanFill(r, n) == n = 6 => ~ (r.orphans /\ "default" \in r.tenants)

\* What the revisions after `from', up to `to', make of the rows.
Upgraded(r, from, to) ==
  LET at[n \in from .. to] == IF n = from THEN r ELSE Filled(at[n - 1], n)
  IN  at[to]

-----------------------------------------------------------------------------
(* What downgrade() takes from the rows.                                   *)

\* Mutant: nothing looks for general quotes.
MayUndoAny(r, n) == TRUE

\* b3c4d5e6f7a8 refuses while the database holds a general quote or a line that is not stone.
MayUndo(r, n) == n = 24 => \A q \in r.quotes : q.kind = "stone" /\ ~ q.trade

Undone(r, n) ==
  CASE n = 41 -> OnProjects(r, LAMBDA p : [p EXCEPT !.currency = Null])
    [] n = 33 -> OnProjects(r, LAMBDA p : [p EXCEPT !.flow = Null, !.stage = Null])
    [] n = 32 -> [r EXCEPT !.sub = [w \in Workspaces |-> IF @[w] = "free" THEN "metered" ELSE @[w]]]
    [] n = 26 -> [r EXCEPT !.currency = Null]
    [] n = 24 -> OnQuotes(r, LAMBDA q : [q EXCEPT !.kind = Null, !.currency = Null, !.trade = FALSE])
    [] n = 20 -> OnQuotes(r, LAMBDA q : [q EXCEPT !.lines = 0, !.dropped = TRUE])
    [] n = 19 -> [r EXCEPT !.sub = [w \in Workspaces |-> Null]]
    [] n = 14 -> OnProjects(r, LAMBDA p : [p EXCEPT !.quoted = FALSE])
    [] OTHER  -> r

\* What is left of the rows when the revisions after `to' are undone, the latest first.
Downgraded(r, from, to) ==
  LET at[n \in to .. from] == IF n = from THEN r ELSE Undone(at[n + 1], n + 1)
  IN  at[to]

-----------------------------------------------------------------------------
(* The gate.                                                               *)

Serving(v) == [Off EXCEPT !.phase = "serving", !.release = v]

Deploy(c, v) ==
  /\ spent.deploys < MaxDeploys /\ box[c].phase # "migrating"
  /\ lock # c
  /\ box' = [box EXCEPT ![c] = [Off EXCEPT !.phase = "waiting", !.release = v]]
  /\ spent' = [spent EXCEPT !.deploys = @ + 1]
  /\ UNCHANGED <<revision, rows, lock>>

\* run_migration_under_lock(): pg_advisory_lock() waits, then alembic reads the revision.
\* The release job reads it without the lock.
Begin(c) ==
  /\ box[c].phase = "waiting"
  /\ IF c = Job THEN UNCHANGED lock ELSE lock = "free" /\ lock' = c
  /\ box' = [box EXCEPT ![c].phase = "migrating", ![c].seen = revision]
  /\ UNCHANGED <<revision, rows, spent>>

Unlocked(c) == IF lock = c THEN "free" ELSE lock

\* Nothing is refused: the revision is one the image knows, has not moved
\* meanwhile if there is anything to do, and no statement fails.
Applies(c) ==
  LET v == box[c].release IN
  /\ box[c].seen <= v
  /\ box[c].seen < v =>
       /\ revision = box[c].seen
       /\ \A n \in revision + 1 .. v : CanFill(rows, n)

\* Mutant: alembic's exit status is lost.
FinishAnyway(c) ==
  /\ box[c].phase = "migrating"
  /\ IF Applies(c) /\ box[c].seen < box[c].release
     THEN /\ revision' = box[c].release
          /\ rows' = Upgraded(rows, revision, box[c].release)
     ELSE UNCHANGED <<revision, rows>>
  /\ box' = [box EXCEPT ![c] = IF c = Job THEN Off
                               ELSE Serving(box[c].release)]
  /\ lock' = Unlocked(c)
  /\ UNCHANGED spent

\* The whole run commits or none of it; then the container serves or is not promoted.
Finish(c) ==
  /\ box[c].phase = "migrating"
  /\ IF Applies(c) /\ box[c].seen < box[c].release
     THEN /\ revision' = box[c].release
          /\ rows' = Upgraded(rows, revision, box[c].release)
     ELSE UNCHANGED <<revision, rows>>
  /\ box' = [box EXCEPT ![c] = IF ~ Applies(c) THEN [@ EXCEPT !.phase = "refused"]
                               ELSE IF c = Job THEN Off
                               ELSE Serving(box[c].release)]
  /\ lock' = Unlocked(c)
  /\ UNCHANGED spent

\* The runtime check fails, or the process dies; its connection takes the lock along.
Crash(c) ==
  /\ box[c].phase \in {"waiting", "migrating", "serving"}
  /\ box' = [box EXCEPT ![c] = Off]
  /\ lock' = Unlocked(c)
  /\ UNCHANGED <<revision, rows, spent>>

\* alembic downgrade, by an operator, with every writer stopped.
Downgrade(n) ==
  /\ spent.downgrades < MaxDowngrades /\ n < revision
  /\ \A c \in Containers \cup {Job} : box[c].phase \in {"off", "refused"}
  /\ \A m \in n + 1 .. revision : MayUndo(rows, m)
  /\ rows' = Downgraded(rows, revision, n)
  /\ revision' = n
  /\ spent' = [spent EXCEPT !.downgrades = @ + 1]
  /\ UNCHANGED <<box, lock>>

-----------------------------------------------------------------------------
(* Requests, served by a container of release v.                           *)

\* The columns each revision insists on, and those a release of it has a value for.
Required == [n \in 0 .. Latest |-> SchemaAt[n].required]
Known    == [n \in 0 .. Latest |-> SchemaAt[n].required \cup SchemaAt[n].columns]

\* PostgreSQL refuses an INSERT that leaves a required column out.
Accepts(v, table) == {p \in Required[revision] : p[1] = table} \subseteq Known[v]

Serve(c) ==
  /\ box[c].phase = "serving" /\ spent.writes < MaxWrites
  /\ spent' = [spent EXCEPT !.writes = @ + 1]
  /\ UNCHANGED <<revision, box, lock>>

Late(v) == \E n \in Fills : v < n /\ n <= revision

\* A user without a workspace, in a release that had no use for one yet.
AddUser(c) ==
  /\ Serve(c) /\ box[c].release < 6 /\ Accepts(box[c].release, "users")
  /\ rows' = [rows EXCEPT !.orphans = TRUE]

Subscribe(c, w) ==
  /\ Serve(c) /\ box[c].release >= 19 /\ w \in rows.tenants /\ rows.sub[w] = Null
  /\ rows' = [rows EXCEPT !.sub[w] = "metered"]

ChooseCurrency(c, m) ==
  /\ Serve(c) /\ box[c].release >= 26 /\ rows.currency # m
  /\ rows' = [rows EXCEPT !.currency = m]

\* Before quote_items a worktop and its extras are flags of the quote; since then every
\* part is a line, and the flags are written as unset.  A stone quote commits with its
\* lines; a general one before them, so it may be left with none.
AddQuote(c, kind, m, parts) ==
  LET v     == box[c].release
      lines == IF v < 20 THEN 0 ELSE parts
  IN
  /\ Serve(c) /\ rows.quotes = {} /\ Accepts(v, "quotes")
  /\ v < 24 => kind = "stone" /\ m = "GBP"
  /\ kind = "stone" => parts > 0
  /\ rows' = [rows EXCEPT !.quotes =
       {[kind |-> IF revision < 24 THEN Null ELSE kind,
         currency |-> IF revision < 24 THEN Null ELSE m,
         lines |-> lines, extras |-> IF v < 20 THEN parts - 1 ELSE 0, parts |-> parts,
         trade |-> kind = "general" /\ lines > 0, dropped |-> FALSE, late |-> Late(v)]}]

\* Releases before project_currency do not name the column, and its default is GBP.
AddProject(c, quoted) ==
  LET v == box[c].release IN
  /\ Serve(c) /\ rows.projects = {} /\ Accepts(v, "projects")
  /\ quoted => v >= 14 /\ rows.quotes # {}
  /\ rows' = [rows EXCEPT !.projects =
       {[quoted |-> quoted, status |-> "enquiry",
        flow |-> IF v < 33 THEN Null ELSE "trade", stage |-> Null,
        currency |-> IF revision < 41 THEN Null
                     ELSE IF v < 41 THEN "GBP"
                     ELSE IF quoted THEN QuoteCurrency(rows) ELSE rows.currency,
        late |-> Late(v)]}]

\* update_status(): a release that knows the workflow moves a legacy project's stage too.
MoveProject(c) ==
  LET v == box[c].release
      Moved(p) == [p EXCEPT !.status = "booked",
                            !.stage = IF v >= 33 /\ p.flow = "legacy" THEN "booked" ELSE @,
                            !.late = @ \/ (p.flow = "legacy" /\ v < 33)]
  IN
  /\ Serve(c) /\ \E p \in rows.projects : p.status = "enquiry"
  /\ rows' = OnProjects(rows, Moved)

BaseNext ==
  \/ \E c \in Containers \cup {Job} :
       \/ \E v \in Releases : Deploy(c, v)
       \/ Begin(c) \/ Finish(c) \/ Crash(c)
  \/ \E n \in Releases : Downgrade(n)
  \/ \E c \in Containers :
       \/ AddUser(c) \/ MoveProject(c)
       \/ \E w \in Workspaces : Subscribe(c, w)
       \/ \E m \in Currencies : ChooseCurrency(c, m)
       \/ \E parts \in 0 .. 2 : AddQuote(c, "stone", "GBP", parts) \/ AddQuote(c, "general", "EUR", parts)
       \/ \E quoted \in BOOLEAN : AddProject(c, quoted)

BaseSpec == BaseInit /\ [][BaseNext]_baseVars

-----------------------------------------------------------------------------
(* A container never serves in front of a database that lacks a revision   *)
(* its code relies on, whichever containers and jobs raced to upgrade it   *)
(* and whatever failed on the way.                                         *)
ServesWhatItKnows ==
  \A c \in Containers : box[c].phase = "serving" => box[c].release <= revision

(* What the backfills promise holds of every row, those written since      *)
(* included, unless a release that did not know the column wrote it:       *)
(* nobody is without a workspace, a quote has the lines it was given, a    *)
(* project has a position, in step with its status on the legacy template, *)
(* and is priced in the currency of its quote.  What a downgrade below     *)
(* quote_items and a second upgrade lose is the lines of quotes newer than *)
(* the flags, which come back with one; the old form gets all of its own.  *)
RowsAreWhole ==
  /\ revision >= 6 => ~ rows.orphans
  /\ \A q \in rows.quotes : ~ q.late =>
       /\ revision >= 20 => q.lines = q.parts \/ (q.dropped /\ q.extras = 0 /\ q.lines = 1)
       /\ revision >= 24 => Null \notin {q.kind, q.currency}
  /\ \A p \in rows.projects : ~ p.late =>
       /\ revision >= 33 => p.flow # Null
       /\ p.flow = "legacy" => p.stage = p.status
       /\ revision >= 41 => p.currency # Null
       /\ revision >= 41 /\ p.quoted => p.currency = QuoteCurrency(rows)

(* No upgrade or downgrade loses a quote the older form cannot hold, and   *)
(* the lines of a quote go only when their table is dropped.               *)
QuotesSurvive ==
  [][\A q \in rows.quotes : \E r \in rows'.quotes :
       /\ q.kind = "general" => r.kind = "general"
       /\ r.lines < q.lines => revision' < 20]_baseVars

(* A workspace whose subscription predates the paid plans keeps it: only a *)
(* downgrade takes the mark away.                                          *)
FreeStaysFree ==
  [][\A w \in Workspaces : rows.sub[w] = "free" => rows'.sub[w] = "free" \/ revision' < revision]_baseVars

(* The release that introduced the mark leaves no workspace metered or     *)
(* without a subscription.                                                 *)
NobodyIsLockedOut ==
  [][revision < 32 /\ revision' >= 32 => \A w \in rows.tenants : rows'.sub[w] = "free"]_baseVars

(* docs/PRODUCTION_RUNBOOK.md: an application rollback deploys a previous  *)
(* image, compatible with the schema, without changing the database.  No   *)
(* image that fills every column the database insists on is turned away by *)
(* its own gate because the database is ahead of it.                       *)
RollbackServes ==
  \A c \in Containers :
    box[c].phase = "refused" /\ box[c].release < box[c].seen =>
      ~ Required[box[c].seen] \subseteq Known[box[c].release]
=============================================================================
