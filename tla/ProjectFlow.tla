---------------------------- MODULE ProjectFlow ----------------------------
(***************************************************************************)
(* One project on its way through its workflow: app/workflows (service.py, *)
(* gates.py) and app/projects (service.py).                                *)
(*                                                                         *)
(* A project has two positions.  The workflow moves it from stage to stage *)
(* of its template, holds, resumes and cancels it; the older endpoint moves*)
(* its status one step at a time.  Only a project bound to legacy_v1 has   *)
(* stages that are statuses, and there each endpoint moves both.  A request*)
(* loads the row, decides, and writes the columns it has changed and its   *)
(* history row in one commit; nothing locks the row in between.            *)
(***************************************************************************)
EXTENDS Integers, Sequences, FiniteSets

CONSTANTS
  Users,        \* request threads
  LastStage,    \* position of "complete", the terminal stage
  GatesOf,      \* gate_definitions of each stage
  MaxHistory,   \* bound: moves
  MaxCustomers  \* bound: customers created by conversion

ASSUME ProjectFlowAssumption ==
  /\ LastStage \in Nat \ {0, 1} /\ MaxHistory \in Nat /\ MaxCustomers \in Nat

VARIABLES
  project,   \* the row of projects
  history,   \* project_workflow_history, oldest first
  facts,     \* what the gates can see, the linked customer aside
  customers, \* customers created by conversion, and links taken off since
  hand,      \* what each request has loaded
  overlap    \* a request has written while another had the row loaded

flowVars == <<project, history, facts, customers, hand, overlap>>

\* Seeded positions: the ordered stages, then the two side stages.
Ordered   == 1..LastStage
OnHold    == LastStage + 1
Cancelled == LastStage + 2
Stages    == 1..Cancelled

\* GateDefinition: the closed set of types.
GateTypes == {"customer_linked", "assigned_user", "site_address_present",
              "completed_site_visit", "approved_source_quote", "materials_ready"}

\* Project: `status' is a ProjectStatus by position, `previous' and `customer' are 0 for NULL.
ProjectRow == [legacy : BOOLEAN, status : Ordered, stage : Stages, previous : 0..Cancelled,
               customer : 0..MaxCustomers]

HistoryRow == [from : Stages, to : Stages]

Empty == [step |-> "idle"]

FlowTypeOK ==
  /\ project \in ProjectRow
  /\ history \in Seq(HistoryRow) /\ Len(history) <= MaxHistory
  /\ facts \subseteq GateTypes
  /\ customers \in [made : 0..MaxCustomers, unlinked : 0..1]
  /\ \A u \in Users : hand[u].step \in {"idle", "move", "status", "convert"}
  /\ overlap \in BOOLEAN

\* A project starts at the first stage of the template of its trade; the migration bound
\* the rows it found to legacy_v1, at the stage of their status.
FlowInit ==
  /\ \/ project = [legacy |-> FALSE, status |-> 1, stage |-> 1, previous |-> 0, customer |-> 0]
     \/ \E s \in Ordered :
          project = [legacy |-> TRUE, status |-> s, stage |-> s, previous |-> 0, customer |-> 0]
  /\ history = <<>> /\ facts \in {{}, GateTypes \ {"customer_linked"}}
  /\ customers = [made |-> 0, unlinked |-> 0]
  /\ hand = [u \in Users |-> Empty] /\ overlap = FALSE

Take(u, what) == hand' = [hand EXCEPT ![u] = what]
Free(u)       == hand[u].step = "idle"
Written(u)    == overlap' = (overlap \/ \E v \in Users \ {u} : ~Free(v))

Terminal(s) == s \in {LastStage, Cancelled}

\* The seeded graph: forward by one, and to either side stage.
Edge(s, t) ==
  \/ s \in Ordered /\ ~Terminal(s) /\ t \in {s + 1, OnHold, Cancelled}
  \/ s = OnHold /\ t = Cancelled

\* The one move that is no edge: back to where the hold was entered.
IsResume(t) == project.stage = OnHold /\ project.previous = t

\* evaluate_stage_gates()
Blockers(t) ==
  IF t \notin Ordered THEN {}
  ELSE GatesOf[t] \ (facts \cup IF project.customer # 0 THEN {"customer_linked"} ELSE {})

-----------------------------------------------------------------------------
(* transition_project_workflow()                                           *)
MoveRead(u, t) ==
  /\ Free(u)
  /\ ~Terminal(project.stage)
  /\ IsResume(t) \/ Edge(project.stage, t)
  /\ Blockers(t) = {}
  /\ Take(u, [step |-> "move", from |-> project.stage, to |-> t, seen |-> project.previous,
              previous |-> IF t = OnHold THEN project.stage
                           ELSE IF IsResume(t) THEN 0 ELSE project.previous])
  /\ UNCHANGED <<project, history, facts, customers, overlap>>

\* Mutant: the hold forgets where it was entered.
MovedForgetful(m) ==
  [project EXCEPT !.stage = m.to, !.status = IF project.legacy /\ m.to \in Ordered THEN m.to ELSE @]

\* The columns set to something else than was loaded; a legacy project's status
\* follows an ordered stage, set on the row as it is after the first write.
Moved(m) ==
  [project EXCEPT !.stage = m.to,
                  !.previous = IF m.previous = m.seen THEN @ ELSE m.previous,
                  !.status = IF project.legacy /\ m.to \in Ordered THEN m.to ELSE @]

MoveWrite(u) ==
  /\ hand[u].step = "move" /\ Len(history) < MaxHistory
  /\ project' = Moved(hand[u])
  /\ history' = Append(history, [from |-> hand[u].from, to |-> hand[u].to])
  /\ Written(u) /\ Take(u, Empty)
  /\ UNCHANGED <<facts, customers>>

-----------------------------------------------------------------------------
(* update_status(): the next status, whatever the stage.                   *)

\* Mutant: the last status has a next one.
StatusReadOn(u) ==
  /\ Free(u)
  /\ Take(u, [step |-> "status", seen |-> project.stage, status |-> project.status])
  /\ UNCHANGED <<project, history, facts, customers, overlap>>

StatusRead(u) ==
  /\ Free(u)
  /\ project.status < LastStage
  /\ Take(u, [step |-> "status", seen |-> project.stage, status |-> project.status])
  /\ UNCHANGED <<project, history, facts, customers, overlap>>

\* Mutant: the stage of a legacy project stays where it is.
AdvancedAlone(m) == [project EXCEPT !.status = m.status + 1]

\* A legacy project's stage follows, out of a side stage too.
Advanced(m) ==
  [project EXCEPT !.status = m.status + 1,
                  !.stage = IF project.legacy /\ m.seen # m.status + 1 THEN m.status + 1 ELSE @]

StatusWrite(u) ==
  /\ hand[u].step = "status" /\ Len(history) < MaxHistory
  /\ project' = Advanced(hand[u])
  /\ history' = IF project.legacy
                THEN Append(history, [from |-> hand[u].status, to |-> hand[u].status + 1])
                ELSE history
  /\ Written(u) /\ Take(u, Empty)
  /\ UNCHANGED <<facts, customers>>

-----------------------------------------------------------------------------
(* convert_to_customer(), and the links that update() makes and breaks.    *)

\* A project that has its customer keeps it, and nothing is written.
ConvertRead(u) ==
  /\ Free(u)
  /\ project.status = 1 /\ project.customer = 0
  /\ Take(u, [step |-> "convert"])
  /\ UNCHANGED <<project, history, facts, customers, overlap>>

\* Customer, link and activity in one commit.
ConvertWrite(u) ==
  /\ hand[u].step = "convert" /\ customers.made < MaxCustomers
  /\ customers' = [customers EXCEPT !.made = @ + 1]
  /\ project' = [project EXCEPT !.customer = customers.made + 1]
  /\ Written(u) /\ Take(u, Empty)
  /\ UNCHANGED <<history, facts>>

\* update() takes the customer off, or puts another on.  Bound: once.
Unlink ==
  /\ customers.unlinked = 0 /\ project.customer # 0
  /\ project' = [project EXCEPT !.customer = 0]
  /\ customers' = [customers EXCEPT !.unlinked = 1]
  /\ UNCHANGED <<history, facts, hand, overlap>>

\* assign(), an address, a visit, an approval; materials come, or are asked for.
FactChanges ==
  /\ facts' \in {{}, GateTypes \ {"customer_linked"}} \ {facts}
  /\ UNCHANGED <<project, history, customers, hand, overlap>>

\* The request is refused late or the process dies: one commit, so nothing is left.
GiveUp(u) ==
  /\ ~Free(u)
  /\ Take(u, Empty)
  /\ UNCHANGED <<project, history, facts, customers, overlap>>

FlowNext ==
  \/ Unlink \/ FactChanges
  \/ \E u \in Users :
       \/ MoveWrite(u) \/ StatusRead(u) \/ StatusWrite(u) \/ ConvertRead(u)
       \/ ConvertWrite(u) \/ GiveUp(u)
       \/ \E t \in Stages : MoveRead(u, t)

FlowSpec == FlowInit /\ [][FlowNext]_flowVars

-----------------------------------------------------------------------------
\* A legacy project stands at the stage of its status, unless it is held or
\* cancelled, however its requests overlap: whichever endpoint writes last sets both.
LegacyAgrees == project.legacy /\ project.stage \in Ordered => project.stage = project.status

\* A held project knows where to resume.  Overlapping holds may lose it: a hold from
\* the stage already in the column writes no column, while a resume clears it.
HoldRemembers == ~overlap /\ project.stage = OnHold => project.previous \in Ordered \ {LastStage}

\* No stage is entered before the one in front of it, in any interleaving.
StagesInOrder ==
  ~project.legacy =>
    \A i \in 1..Len(history) : history[i].to \in Ordered \ {1} =>
      history[i].to = 2 \/ \E j \in 1..(i - 1) : history[j].to = history[i].to - 1

\* One enquiry becomes one customer, unless two conversions overlap.
OneCustomer == overlap \/ customers.made <= 1 + customers.unlinked

\* The history of a project tells the way it went: each move starts where the last
\* one ended, unless requests overlapped.
HistoryIsAChain ==
  ~overlap /\ ~project.legacy =>
    \A i \in 1..Len(history) :
      history[i].from = IF i = 1 THEN 1 ELSE history[i - 1].to

FlowIsSound == LegacyAgrees /\ HoldRemembers /\ StagesInOrder /\ OneCustomer /\ HistoryIsAChain

\* Nothing moves a finished or cancelled project any further, unless requests overlap.
\* (WorkflowTerminalStateError.)
FinishedStays ==
  [][~overlap' /\ Terminal(project.stage) => project'.stage = project.stage]_flowVars

\* The same, of a project whose stages are not statuses.
FinishedTradeStays ==
  [][~overlap' /\ ~project.legacy /\ Terminal(project.stage) =>
       project'.stage = project.stage]_flowVars
=============================================================================
