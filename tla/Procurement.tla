---------------------------- MODULE Procurement ----------------------------
(***************************************************************************)
(* One purchase order of a project, from draft to delivery: its lines, the *)
(* committed costs its approval creates, the deliveries recorded against   *)
(* it and the material requirements its lines fulfil.  A request runs in a *)
(* database session of its own and commits after every write; nothing      *)
(* locks a row, so each commit is an action, and what a request read       *)
(* before a commit of its own may have changed when it acts on it.         *)
(***************************************************************************)
EXTENDS Integers, Sequences, FiniteSets, SequencesExt

CONSTANTS
  Procs,          \* requests in progress
  Items,          \* purchase order lines
  Quantity,       \* the quantity a line orders
  Requirements,   \* material requirements of the project
  ReqOf,          \* the requirement a line fulfils, for the lines that have one
  ItemLists,      \* the line lists a user may enter
  Deliveries,     \* the deliveries a user may record, as sequences of lines
  UserStatuses,   \* what a user may set a requirement's status to
  MaxEntries      \* bound: cost entries ever created for a line

VARIABLES
  po,        \* status; the lines its subtotal was priced from; approved_at set;
             \* taxed: VAT and total are known to be those of the rate on record;
             \* of overlapping requests nothing is known, either may write a rate
  items,     \* its lines in the database, in position order
  costs,     \* project_cost_entries linked to its lines
  made,      \* entries ever created for a line (their identity)
  received,  \* sum of a line's receipts
  req,       \* status of each requirement
  sess,      \* what each request has still to do
  calm       \* no request overlaps another or dies, in this behaviour

vars == <<po, items, costs, made, received, req, sess, calm>>

-----------------------------------------------------------------------------
ForwardOrder == <<"planned", "required", "ordered", "partially_received",
                  "received", "allocated", "consumed">>

ReqStatuses == ToSet(ForwardOrder) \cup {"cancelled"}

ASSUME ProcurementAssumption ==
  /\ Quantity \in [Items -> Nat]
  /\ DOMAIN ReqOf \subseteq Items /\ \A i \in DOMAIN ReqOf : ReqOf[i] \in Requirements
  /\ ItemLists \subseteq Seq(Items)
  /\ Deliveries \subseteq Seq([item : Items, quantity : Nat \ {0}]) \ {<<>>}
  /\ UserStatuses \subseteq ReqStatuses
  /\ MaxEntries \in Nat
  /\ Procs # {}

Allowed == [none |-> {}, draft |-> {"approved", "cancelled"},
            approved |-> {"ordered", "cancelled"},
            ordered |-> {"partially_received", "received", "cancelled"},
            partially_received |-> {"received", "cancelled"},
            received |-> {}, cancelled |-> {}]

Receiving == {"ordered", "partially_received", "received"}

Rank(s) == CHOOSE k \in 1..Len(ForwardOrder) : ForwardOrder[k] = s

\* Mutant: one unit short counts as delivered.
DeriveShort(current, ordered, got) ==
  IF current \notin Receiving THEN current
  ELSE IF ordered = 0 \/ got = 0 THEN "ordered"
  ELSE IF got + 1 >= ordered THEN "received"
  ELSE "partially_received"

DerivePoStatus(current, ordered, got) ==
  IF current \notin Receiving THEN current
  ELSE IF ordered = 0 \/ got = 0 THEN "ordered"
  ELSE IF got >= ordered THEN "received"
  ELSE "partially_received"

\* Mutants: no comparison of the two statuses; only the very next status.
SyncAlways(current, itemStatus) ==
  IF current \notin {"allocated", "consumed", "cancelled"} THEN itemStatus ELSE current

SyncNextOnly(current, itemStatus) ==
  IF /\ current \notin {"allocated", "consumed", "cancelled"}
     /\ Rank(itemStatus) = Rank(current) + 1
  THEN itemStatus ELSE current

\* next_requirement_status(): the status itself where the code returns None.
NextRequirementStatus(current, itemStatus) ==
  IF /\ current \notin {"allocated", "consumed", "cancelled"}
     /\ itemStatus \in Receiving
     /\ Rank(itemStatus) > Rank(current)
  THEN itemStatus ELSE current

\* The sum of a sequence of numbers.
Total(w) ==
  LET sum[k \in 0 .. Len(w)] == IF k = 0 THEN 0 ELSE sum[k - 1] + w[k]
  IN  sum[Len(w)]

SumOver(f, list) == Total([k \in DOMAIN list |-> f[list[k]]])

Entries(i) == {e \in costs : e.item = i}

Idle == [pc |-> "idle", todo |-> <<>>, arg |-> "none"]
At(p, pc) == sess[p].pc = pc
AtRest == \A p \in Procs : At(p, "idle")
Starts(p) == At(p, "idle") /\ (calm => AtRest)
Go(p, pc, todo, arg) == sess' = [sess EXCEPT ![p] = [pc |-> pc, todo |-> todo, arg |-> arg]]
Done(p) == sess' = [sess EXCEPT ![p] = Idle]
\* The next element of the list a loop walks, or what follows the loop.
Continue(p, pc, rest, after) ==
  IF rest = <<>> /\ after = "idle" THEN Done(p)
  ELSE Go(p, IF rest = <<>> THEN after ELSE pc, rest, sess[p].arg)
Rest(p) == Tail(sess[p].todo)
This(p) == Head(sess[p].todo)

Pcs == {"idle", "createItems", "editItems", "reprice", "fields", "approve", "costList",
        "cost", "costCreate", "stamp", "order", "orderList", "orderLine", "orderWrite", "cancel",
        "uncostList", "uncost", "receive", "receiptLine", "receiptWrite", "derive",
        "deriveWrite", "allocate"}

TypeOK ==
  /\ po \in [status : DOMAIN Allowed, priced : ItemLists \cup {<<>>}, stamped : BOOLEAN,
             taxed : BOOLEAN]
  /\ items \in ItemLists \cup {<<>>}
  /\ costs \subseteq [item : Items, n : 1..MaxEntries, state : {"committed", "actual"}]
  /\ made \in [Items -> 0..MaxEntries]
  /\ received \in [Items -> Nat]
  /\ req \in [Requirements -> ReqStatuses]
  /\ calm \in BOOLEAN
  /\ \A p \in Procs : /\ DOMAIN sess[p] = {"pc", "todo", "arg"}
                      /\ sess[p].pc \in Pcs
                      /\ sess[p].arg \in DOMAIN Allowed \cup ReqStatuses \cup {"again"}

Init ==
  /\ po = [status |-> "none", priced |-> <<>>, stamped |-> FALSE, taxed |-> FALSE]
  /\ items = <<>> /\ costs = {}
  /\ made = [i \in Items |-> 0]
  /\ received = [i \in Items |-> 0]
  /\ req = [r \in Requirements |-> "required"]
  /\ sess = [p \in Procs |-> Idle]
  /\ calm \in BOOLEAN

SetStatus(s) == po' = [po EXCEPT !.status = s]

-----------------------------------------------------------------------------
(* create_purchase_order(): the order, priced; then its lines.             *)
CreateInsert(p, list) ==
  /\ Starts(p) /\ po.status = "none"
  /\ po' = [po EXCEPT !.status = "draft", !.priced = list, !.taxed = calm]
  /\ Go(p, "createItems", list, "none")
  /\ UNCHANGED <<items, costs, made, received, req>>

\* Mutant: only receipts protect their line.
ReferencedByReceipt(i) == received[i] > 0

\* Costs and receipts refer to their line: deleting one of those is refused.
Referenced(i) == Entries(i) # {} \/ received[i] > 0

\* replace_purchase_order_items(): all lines are deleted, the new ones inserted.
ReplaceItems(p, after) ==
  /\ IF \E i \in ToSet(items) : Referenced(i)
     THEN Done(p) /\ UNCHANGED items
     ELSE items' = sess[p].todo /\ after
  /\ UNCHANGED <<po, costs, made, received, req>>

CreateItems(p) == At(p, "createItems") /\ ReplaceItems(p, Done(p))

(* update_purchase_order() of a draft.  With items: the lines, then the    *)
(* subtotal, VAT and total, at the rate given or read at the start.        *)
EditRead(p, list) ==
  /\ Starts(p) /\ po.status = "draft"
  /\ Go(p, "editItems", list, "none")
  /\ UNCHANGED <<po, items, costs, made, received, req>>

EditItems(p) ==
  /\ At(p, "editItems")
  /\ ReplaceItems(p, Go(p, "reprice", sess[p].todo, "none"))

SetPriced(p, list) ==
  /\ At(p, "reprice")
  /\ po' = [po EXCEPT !.priced = list, !.taxed = calm]
  /\ Done(p)
  /\ UNCHANGED <<items, costs, made, received, req>>

\* Mutant: the totals of the new lines are added to those of the old.
EditAddsTotals(p) == SetPriced(p, po.priced \o sess[p].todo)

EditTotals(p) == SetPriced(p, sess[p].todo)

\* Mutant: the fields of an order in progress may be edited.
FieldsAnyTime(p) ==
  /\ Starts(p) /\ po.status # "none"
  /\ Go(p, "fields", <<>>, "none")
  /\ UNCHANGED <<po, items, costs, made, received, req>>

\* Without items the fields given are written as they are: the lines, the VAT and
\* the total stay, whatever vat_rate was given.
FieldsRead(p) ==
  /\ Starts(p) /\ po.status = "draft"
  /\ Go(p, "fields", <<>>, "none")
  /\ UNCHANGED <<po, items, costs, made, received, req>>

EditFields(p) ==
  /\ At(p, "fields")
  /\ \E t \in {FALSE, calm} : po' = [po EXCEPT !.taxed = t]
  /\ Done(p)
  /\ UNCHANGED <<items, costs, made, received, req>>

-----------------------------------------------------------------------------
(* approve(): the status, a committed cost for every line that has none,   *)
(* approved_at and the activity.  Approving an approved order again only   *)
(* fills in costs.                                                         *)
ApproveRead(p) ==
  /\ Starts(p) /\ po.status \in {"draft", "approved"}
  /\ IF po.status = "approved" THEN Go(p, "costList", <<>>, "again")
                               ELSE Go(p, "approve", <<>>, "none")
  /\ UNCHANGED <<po, items, costs, made, received, req>>

\* The status was checked in the row as read: it is written whatever it is now.
ApproveCommit(p) ==
  /\ At(p, "approve")
  /\ SetStatus("approved")
  /\ Go(p, "costList", <<>>, "none")
  /\ UNCHANGED <<items, costs, made, received, req>>

AfterCosts(p) == IF sess[p].arg = "again" THEN "idle" ELSE "stamp"

CostList(p) ==
  /\ At(p, "costList")
  /\ Continue(p, "cost", items, AfterCosts(p))
  /\ UNCHANGED <<po, items, costs, made, received, req>>

CostCheck(p) ==
  /\ At(p, "cost")
  /\ IF Entries(This(p)) # {} THEN Continue(p, "cost", Rest(p), AfterCosts(p))
                              ELSE Go(p, "costCreate", sess[p].todo, sess[p].arg)
  /\ UNCHANGED <<po, items, costs, made, received, req>>

\* An entry for a line deleted in the meantime is refused, and the request fails.
CostCreate(p) ==
  /\ At(p, "costCreate")
  /\ IF This(p) \in ToSet(items)
     THEN /\ made[This(p)] < MaxEntries
          /\ made' = [made EXCEPT ![This(p)] = @ + 1]
          /\ costs' = costs \cup {[item |-> This(p), n |-> made'[This(p)], state |-> "committed"]}
          /\ Continue(p, "cost", Rest(p), AfterCosts(p))
     ELSE Done(p) /\ UNCHANGED <<made, costs>>
  /\ UNCHANGED <<po, items, received, req>>

Stamp(p) ==
  /\ At(p, "stamp")
  /\ po' = [po EXCEPT !.stamped = TRUE]
  /\ Done(p)
  /\ UNCHANGED <<items, costs, made, received, req>>

-----------------------------------------------------------------------------
(* order(): the status, then the requirements the lines fulfil.            *)
OrderRead(p) ==
  /\ Starts(p) /\ po.status = "approved"
  /\ Go(p, "order", <<>>, "none")
  /\ UNCHANGED <<po, items, costs, made, received, req>>

OrderCommit(p) ==
  /\ At(p, "order")
  /\ SetStatus("ordered")
  /\ Go(p, "orderList", <<>>, "none")
  /\ UNCHANGED <<items, costs, made, received, req>>

OrderList(p) ==
  /\ At(p, "orderList")
  /\ Continue(p, "orderLine", items, "idle")
  /\ UNCHANGED <<po, items, costs, made, received, req>>

\* Read the requirement of the line at hand; write it if that moves it forward.
SyncRead(p, itemStatus, line, write, after) ==
  LET i == This(p)
      next == NextRequirementStatus(req[ReqOf[i]], itemStatus)
  IN  IF i \in DOMAIN ReqOf /\ next # req[ReqOf[i]]
      THEN Go(p, write, sess[p].todo, next)
      ELSE Continue(p, line, Rest(p), after)

SyncWrite(p, line, write, after) ==
  /\ At(p, write)
  /\ req' = [req EXCEPT ![ReqOf[This(p)]] = sess[p].arg]
  /\ Continue(p, line, Rest(p), after)
  /\ UNCHANGED <<po, items, costs, made, received>>

OrderLine(p) ==
  /\ At(p, "orderLine")
  /\ IF This(p) \in ToSet(items) THEN SyncRead(p, "ordered", "orderLine", "orderWrite", "idle")
                                 ELSE Done(p)
  /\ UNCHANGED <<po, items, costs, made, received, req>>

OrderWrite(p) == SyncWrite(p, "orderLine", "orderWrite", "idle")

-----------------------------------------------------------------------------
(* cancel(): the status, then the cost entries of the order one by one.    *)
\* Mutant: a received order may be cancelled.
CancelAnyTime(p) ==
  /\ Starts(p) /\ po.status \notin {"none", "cancelled"}
  /\ Go(p, "cancel", <<>>, "none")
  /\ UNCHANGED <<po, items, costs, made, received, req>>

CancelRead(p) ==
  /\ Starts(p) /\ "cancelled" \in Allowed[po.status]
  /\ Go(p, "cancel", <<>>, "none")
  /\ UNCHANGED <<po, items, costs, made, received, req>>

CancelCommit(p) ==
  /\ At(p, "cancel")
  /\ SetStatus("cancelled")
  /\ Go(p, "uncostList", <<>>, "none")
  /\ UNCHANGED <<items, costs, made, received, req>>

\* list_cost_entries_by_purchase_order(): entries of every state.
CancelList(p) ==
  /\ At(p, "uncostList")
  /\ Continue(p, "uncost", SetToSeq({[item |-> e.item, n |-> e.n] : e \in costs}), "idle")
  /\ UNCHANGED <<po, items, costs, made, received, req>>

DeleteEntry(p, next) ==
  /\ At(p, "uncost")
  /\ costs' = {e \in costs : <<e.item, e.n>> # <<This(p).item, This(p).n>>}
  /\ next
  /\ UNCHANGED <<po, items, made, received, req>>

\* Mutant: the loop ends with the first entry.
CancelOne(p) == DeleteEntry(p, Done(p))

CancelDelete(p) == DeleteEntry(p, Continue(p, "uncost", Rest(p), "idle"))

-----------------------------------------------------------------------------
(* record_receipt(): whatever the order's status, no line of the delivery  *)
(* may exceed what is left of its item as read before the first write.     *)
\* Mutant: the check forgets what was received before.
FitsAlone(line) == line.quantity <= Quantity[line.item]

Fits(line) == received[line.item] + line.quantity <= Quantity[line.item]

ReceiptRead(p, delivery) ==
  /\ Starts(p) /\ po.status # "none"
  /\ \A k \in DOMAIN delivery : delivery[k].item \in ToSet(items) /\ Fits(delivery[k])
  /\ Go(p, "receive", delivery, "none")
  /\ UNCHANGED <<po, items, costs, made, received, req>>

DeliveredOf(delivery, i) ==
  Total([k \in DOMAIN delivery |-> IF delivery[k].item = i THEN delivery[k].quantity ELSE 0])

ReceiptCommit(p) ==
  /\ At(p, "receive")
  /\ LET lines == [k \in DOMAIN sess[p].todo |-> sess[p].todo[k].item]
     IN  IF ToSet(lines) \subseteq ToSet(items)
         THEN /\ received' = [i \in Items |-> received[i] + DeliveredOf(sess[p].todo, i)]
              /\ Go(p, "receiptLine", lines, "none")
         ELSE Done(p) /\ UNCHANGED received
  /\ UNCHANGED <<po, items, costs, made, req>>

ItemStatus(i) == DerivePoStatus("ordered", Quantity[i], received[i])

\* _mark_item_cost_actual(): one entry of the line, in place.
MarkActual(i) ==
  IF Entries(i) = {} THEN UNCHANGED costs
  ELSE \E e \in Entries(i) : costs' = (costs \ {e}) \cup {[e EXCEPT !.state = "actual"]}

\* Mutant: any delivery makes the cost actual.
LineAlwaysActual(p) ==
  /\ At(p, "receiptLine")
  /\ MarkActual(This(p))
  /\ SyncRead(p, ItemStatus(This(p)), "receiptLine", "receiptWrite", "derive")
  /\ UNCHANGED <<po, items, made, received, req>>

ReceiptLine(p) ==
  /\ At(p, "receiptLine")
  /\ IF ItemStatus(This(p)) = "received" THEN MarkActual(This(p)) ELSE UNCHANGED costs
  /\ SyncRead(p, ItemStatus(This(p)), "receiptLine", "receiptWrite", "derive")
  /\ UNCHANGED <<po, items, made, received, req>>

ReceiptWrite(p) == SyncWrite(p, "receiptLine", "receiptWrite", "derive")

Derived == DerivePoStatus(po.status, SumOver(Quantity, items), SumOver(received, items))

DeriveRead(p) ==
  /\ At(p, "derive")
  /\ IF Derived = po.status THEN Done(p) ELSE Go(p, "deriveWrite", <<>>, Derived)
  /\ UNCHANGED <<po, items, costs, made, received, req>>

DeriveWrite(p) ==
  /\ At(p, "deriveWrite")
  /\ SetStatus(sess[p].arg)
  /\ Done(p)
  /\ UNCHANGED <<items, costs, made, received, req>>

-----------------------------------------------------------------------------
(* Requirements: cancelled, edited or allocated by a user.                 *)
CancelRequirement(p, r) ==
  /\ Starts(p)
  /\ req' = [req EXCEPT ![r] = "cancelled"]
  /\ UNCHANGED <<po, items, costs, made, received, sess>>

UpdateRequirement(p, r) ==
  /\ Starts(p)
  /\ \E s \in UserStatuses : req' = [req EXCEPT ![r] = s]
  /\ UNCHANGED <<po, items, costs, made, received, sess>>

\* allocate_material(): the allocation itself, then its requirement.
AllocateRead(p, r) ==
  /\ Starts(p) /\ req[r] \notin {"allocated", "consumed", "cancelled"}
  /\ Go(p, "allocate", <<r>>, "none")
  /\ UNCHANGED <<po, items, costs, made, received, req>>

AllocateWrite(p) ==
  /\ At(p, "allocate")
  /\ req' = [req EXCEPT ![This(p)] = "allocated"]
  /\ Done(p)
  /\ UNCHANGED <<po, items, costs, made, received>>

Crash(p) ==
  /\ ~calm /\ ~At(p, "idle")
  /\ Done(p)
  /\ UNCHANGED <<po, items, costs, made, received, req>>

Session(p) ==
  \/ \E list \in ItemLists : CreateInsert(p, list) \/ EditRead(p, list)
  \/ CreateItems(p) \/ EditItems(p) \/ EditTotals(p) \/ FieldsRead(p) \/ EditFields(p)
  \/ ApproveRead(p) \/ ApproveCommit(p) \/ CostList(p) \/ CostCheck(p) \/ CostCreate(p) \/ Stamp(p)
  \/ OrderRead(p) \/ OrderCommit(p) \/ OrderList(p) \/ OrderLine(p) \/ OrderWrite(p)
  \/ CancelRead(p) \/ CancelCommit(p) \/ CancelList(p) \/ CancelDelete(p)
  \/ \E d \in Deliveries : ReceiptRead(p, d)
  \/ ReceiptCommit(p) \/ ReceiptLine(p) \/ ReceiptWrite(p) \/ DeriveRead(p) \/ DeriveWrite(p)
  \/ \E r \in Requirements : AllocateRead(p, r) \/ CancelRequirement(p, r) \/ UpdateRequirement(p, r)
  \/ AllocateWrite(p)
  \/ Crash(p)

Next == UNCHANGED calm /\ \E p \in Procs : Session(p)

Spec == Init /\ [][Next]_vars

-----------------------------------------------------------------------------
(* Whatever the interleaving and wherever requests die:                    *)

\* A cost is recorded as actual only when its line was delivered in full.
ActualIsReceived == \A e \in costs : e.state = "actual" => received[e.item] >= Quantity[e.item]

\* A line the project is charged for, or that was delivered, is never replaced
\* by an edit that still believed the order a draft.
ChargedLinesStay ==
  [][\A i \in ToSet(items) : Entries(i) # {} \/ received[i] > 0 => i \in ToSet(items')]_vars

\* An order becomes received only when as much was delivered as its lines order.
ReceivedIsEarned ==
  po.status = "received" => SumOver(received, items) >= SumOver(Quantity, items)

(* When requests do not overlap and none dies:                             *)

\* One cost entry per line from approval on, none before it and none once cancelled.
CostsMatchOrder ==
  calm /\ AtRest => \A i \in ToSet(items) :
    Cardinality(Entries(i)) = IF po.status \in {"draft", "cancelled"} THEN 0 ELSE 1

\* The order moves along PO_ALLOWED_TRANSITIONS; received and cancelled are final.
TransitionsAllowed ==
  [][calm => po'.status \in {po.status} \cup Allowed[po.status] \/ po.status = "none"]_vars

\* What procurement itself writes never moves a requirement back.
Regress(a, b) ==
  a # b /\ (a \in {"allocated", "consumed", "cancelled"} \/ Rank(b) < Rank(a))

RequirementsNeverRegress ==
  [][\A p \in Procs : calm /\ (OrderWrite(p) \/ ReceiptWrite(p) \/ AllocateWrite(p)) =>
       \A r \in Requirements : ~Regress(req[r], req'[r])]_vars

\* A line never receives more than it orders.
NoOverReceipt == calm => \A i \in Items : received[i] <= Quantity[i]

\* The order's subtotal is the price of its lines, and an approved one says when.
\* Its VAT and total may be those of an earlier rate: see Retax in OrderBook.
OrderIsWhole ==
  calm /\ AtRest /\ po.status # "none" =>
    /\ po.priced = items
    /\ po.status \in {"approved"} \cup Receiving => po.stamped

\* A received order blocks no requirement of its lines (the materials_ready gate).
DeliveryUnblocks ==
  calm /\ AtRest /\ po.status = "received" =>
    \A i \in ToSet(items) \cap DOMAIN ReqOf :
      req[ReqOf[i]] \notin {"planned", "required", "ordered", "partially_received"}

\* The order, its lines, its costs and its deliveries agree.
OrderIsSound ==
  ActualIsReceived /\ ReceivedIsEarned /\ CostsMatchOrder /\ NoOverReceipt /\ OrderIsWhole

\* What no request may undo.
OrderMovesOn == ChargedLinesStay /\ TransitionsAllowed /\ RequirementsNeverRegress

\* However requests interleave and die, the project can read the order as a book
\* in which one entry at a time is made.
Book == INSTANCE OrderBook WITH
  Lists <- ItemLists, Numbers <- 1..MaxEntries, alone <- calm, status <- po.status,
  taxed <- po.taxed, lines <- items, charges <- costs, got <- received, stage <- req

OrderIsABook == Book!Spec

(* What documents and comments say and the code does not keep:             *)

\* A cancellation deletes committed cost entries, never actual ones.
ActualCostsStay ==
  [][calm => \A e \in costs : e.state = "actual" => e \in costs']_vars

\* A cancelled order leaves no commitment behind.
NoPhantomCost == AtRest /\ po.status = "cancelled" => costs = {}
=============================================================================
