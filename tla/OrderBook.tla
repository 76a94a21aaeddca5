----------------------------- MODULE OrderBook -----------------------------
(***************************************************************************)
(* What a purchase order promises its project: a book with the order's     *)
(* status and lines, the charges and deliveries entered for them, and the  *)
(* stage of the material requirements they fulfil.  One entry at a time is *)
(* made, under the conditions below; those that say `alone' are kept only  *)
(* while one request at a time writes in the book, and none dies.          *)
(* Procurement implements this specification.                              *)
(***************************************************************************)
EXTENDS Integers, Sequences

CONSTANTS
  Items, Quantity,        \* what can be ordered, and how much of it a line orders
  Lists,                  \* the lists of lines an order may have
  Requirements, ReqOf,    \* requirements, and the one each line is for, if it has one
  Numbers,                \* to tell the charges of a line apart
  Deliveries,             \* what may be delivered at once
  UserStatuses            \* the stages a user may set

VARIABLES
  alone,    \* one request at a time
  status,   \* of the order
  taxed,    \* its VAT and total are known to be those of the rate it shows
  lines,    \* of the order
  charges,  \* to the project, for lines of the order
  got,      \* delivered so far of each line
  stage     \* of each requirement

vars == <<alone, status, taxed, lines, charges, got, stage>>

Lines == {lines[k] : k \in DOMAIN lines}

Onward ==
  [none |-> {}, draft |-> {"approved", "cancelled"}, approved |-> {"ordered", "cancelled"},
   ordered |-> {"partially_received", "received", "cancelled"},
   partially_received |-> {"received", "cancelled"}, received |-> {}, cancelled |-> {}]

\* The stages a line may lift its requirement from.
Below ==
  [ordered |-> {"planned", "required"},
   partially_received |-> {"planned", "required", "ordered"},
   received |-> {"planned", "required", "ordered", "partially_received"}]

Total(w) ==
  LET sum[k \in 0 .. Len(w)] == IF k = 0 THEN 0 ELSE sum[k - 1] + w[k]
  IN  sum[Len(w)]

SumOver(f, list) == Total([k \in DOMAIN list |-> f[list[k]]])

Share(d, i) == Total([k \in DOMAIN d |-> IF d[k].item = i THEN d[k].quantity ELSE 0])

Init ==
  /\ status = "none" /\ taxed = FALSE /\ lines = <<>> /\ charges = {}
  /\ got = [i \in Items |-> 0]
  /\ stage = [r \in Requirements |-> "required"]
  /\ alone \in BOOLEAN

-----------------------------------------------------------------------------
Place ==
  /\ UNCHANGED <<lines, charges, got, stage>>
  /\ status = "none"
  /\ status' = "draft" /\ taxed' = alone

\* The total may fall behind the rate shown, or catch up with it, while the order
\* is a draft: what an approval commits the project to is never recomputed.
Retax ==
  /\ UNCHANGED <<status, lines, charges, got, stage>>
  /\ alone => status = "draft"
  /\ taxed' \in BOOLEAN

\* The order is received only when as much was delivered as its lines order.
Advance(s) ==
  /\ UNCHANGED <<taxed, lines, charges, got, stage>>
  /\ alone => s \in Onward[status]
  /\ s = "received" => SumOver(got, lines) >= SumOver(Quantity, lines)
  /\ status' = s

\* Lines that the project is charged for, or that were delivered, stay.
Replace(list) ==
  /\ UNCHANGED <<status, taxed, charges, got, stage>>
  /\ alone => status = "draft"
  /\ \A i \in Lines : got[i] = 0 /\ \A e \in charges : e.item # i
  /\ lines' = list

Charge(i, n) ==
  /\ UNCHANGED <<status, taxed, lines, got, stage>>
  /\ i \in Lines
  /\ alone => status = "approved" /\ \A e \in charges : e.item # i
  /\ charges' = charges \cup {[item |-> i, n |-> n, state |-> "committed"]}

\* A charge is settled once its line was delivered in full.
Settle(e) ==
  /\ UNCHANGED <<status, taxed, lines, got, stage>>
  /\ e.state = "committed" /\ got[e.item] >= Quantity[e.item]
  /\ charges' = (charges \ {e}) \cup {[e EXCEPT !.state = "actual"]}

Void(i, n) ==
  /\ UNCHANGED <<status, taxed, lines, got, stage>>
  /\ alone => status = "cancelled"
  /\ charges' = {e \in charges : <<e.item, e.n>> # <<i, n>>}

Deliver(d) ==
  /\ UNCHANGED <<status, taxed, lines, charges, stage>>
  /\ \A k \in DOMAIN d : d[k].item \in Lines
  /\ alone => \A k \in DOMAIN d : got[d[k].item] + d[k].quantity <= Quantity[d[k].item]
  /\ got' = [i \in Items |-> got[i] + Share(d, i)]

\* A line lifts its requirement, to "received" only if it was delivered in full.
Lift(i, s) ==
  /\ UNCHANGED <<status, taxed, lines, charges, got>>
  /\ alone => stage[ReqOf[i]] \in Below[s]
  /\ s = "received" => got[i] >= Quantity[i]
  /\ stage' = [stage EXCEPT ![ReqOf[i]] = s]

Allocate(r) ==
  /\ UNCHANGED <<status, taxed, lines, charges, got>>
  /\ alone => stage[r] \notin {"allocated", "consumed", "cancelled"}
  /\ stage' = [stage EXCEPT ![r] = "allocated"]

ByHand(r, s) ==
  /\ UNCHANGED <<status, taxed, lines, charges, got>>
  /\ stage' = [stage EXCEPT ![r] = s]

Entry ==
  \/ Place \/ Retax
  \/ \E s \in {"approved", "ordered", "partially_received", "received", "cancelled"} : Advance(s)
  \/ \E list \in Lists : Replace(list)
  \/ \E i \in Items, n \in Numbers : Charge(i, n) \/ Void(i, n)
  \/ \E e \in charges : Settle(e)
  \/ \E d \in Deliveries : Deliver(d)
  \/ \E i \in DOMAIN ReqOf, s \in DOMAIN Below : Lift(i, s)
  \/ \E r \in Requirements : Allocate(r) \/ \E s \in UserStatuses \cup {"cancelled"} : ByHand(r, s)

\* An entry changes the book.
Next == ~ UNCHANGED vars /\ UNCHANGED alone /\ Entry

Spec == Init /\ [][Next]_vars
=============================================================================
