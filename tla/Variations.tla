----------------------------- MODULE Variations -----------------------------
(***************************************************************************)
(* One change order of one project and the project's own cost entries:     *)
(* app/variations/service.py and app/financials/service.py.                *)
(*                                                                         *)
(* The contract is worth its approved quote and the approved variations,   *)
(* summed whenever it is asked for; the margin is what the cost entries    *)
(* leave of it.  A request loads the variation, decides by its status and  *)
(* writes in separate commits: the row, its lines, the activity with the   *)
(* triggers.  Nothing locks the row in between.                            *)
(***************************************************************************)
EXTENDS Integers, FiniteSets

CONSTANTS
  Clerks,   \* request threads
  Entries,  \* rows of project_cost_entries
  Amounts,  \* what the lines of the variation may come to
  Rates,    \* VAT rates of the variation
  Base,     \* the approved quote's net value
  Cost,     \* what one cost entry costs
  MaxTold   \* bound: times one trigger fires

ASSUME VariationsAssumption ==
  /\ Amounts \subseteq Nat /\ 0 \in Amounts /\ Rates # {}
  /\ Base \in Nat /\ Cost \in Nat /\ MaxTold \in Nat \ {0}

VARIABLES
  variation, \* the row, with what its totals were computed from
  lines,     \* what the rows of variation_items come to
  costs,     \* cost entries there are
  unseen,    \* those of approved orders that no check has come across yet
  told,      \* how often each trigger has fired
  clerk,     \* what each request is doing and what it has loaded
  trouble    \* requests overlapped, one died half way, a rate changed alone

workVars == <<variation, lines, costs, unseen, told, clerk, trouble>>

VariationStatuses == {"draft", "sent", "approved", "rejected", "void"}

\* ALLOWED_TRANSITIONS
Allowed == [draft    |-> {"sent", "approved", "rejected", "void"},
            sent     |-> {"approved", "rejected", "void"},
            approved |-> {}, rejected |-> {}, void |-> {}]

\* Variation: `amount' and `at' are the lines and the rate its totals were computed
\* from, `dated' that approved_at is set.
VariationRow == [status : VariationStatuses \cup {"none"}, amount : Amounts, at : Rates,
                 rate : Rates, dated : BOOLEAN]

Triggers == {"sent", "approved", "rejected", "risk"}

Unoccupied == [step |-> "idle"]

WorkTypeOK ==
  /\ variation \in VariationRow
  /\ lines \in Amounts
  /\ costs \subseteq Entries /\ unseen \subseteq costs
  /\ told \in [Triggers -> 0..MaxTold]
  /\ \A c \in Clerks : clerk[c].step \in {"idle", "items", "edit", "decide", "tell", "check"}
  /\ trouble \in [overlap : BOOLEAN, died : BOOLEAN, rateAlone : BOOLEAN]

WorkInit ==
  /\ \E a \in Amounts, r \in Rates :
       /\ variation = [status |-> "none", amount |-> a, at |-> r, rate |-> r, dated |-> FALSE]
       /\ lines = a
  /\ costs = {} /\ unseen = {} /\ told = [t \in Triggers |-> 0]
  /\ clerk = [c \in Clerks |-> Unoccupied]
  /\ trouble = [overlap |-> FALSE, died |-> FALSE, rateAlone |-> FALSE]

Resume(c, next) == clerk' = [clerk EXCEPT ![c] = next]
Doing(c, step)  == clerk[c].step = step
Loaded(c)       == Doing(c, "edit") \/ Doing(c, "decide") \/ Doing(c, "items")

\* A write to the variation while another request has it in hand.
Clashes(c) == \E d \in Clerks \ {c} : Loaded(d)

-----------------------------------------------------------------------------
(* create(): totals, then lines.                                           *)
Create(c, amount) ==
  /\ Doing(c, "idle") /\ variation.status = "none"
  /\ variation' = [variation EXCEPT !.status = "draft", !.amount = amount]
  /\ lines' = 0
  /\ Resume(c, [step |-> "items", amount |-> amount])
  /\ UNCHANGED <<costs, unseen, told, trouble>>

\* replace_variation_items(): one commit.
WriteItems(c) ==
  /\ Doing(c, "items")
  /\ lines' = clerk[c].amount
  /\ trouble' = [trouble EXCEPT !.overlap = @ \/ Clashes(c)]
  /\ Resume(c, Unoccupied)
  /\ UNCHANGED <<variation, costs, unseen, told>>

\* update(): a draft may be edited.
EditRead(c) ==
  /\ Doing(c, "idle")
  /\ variation.status = "draft"
  /\ Resume(c, [step |-> "edit", seen |-> variation])
  /\ UNCHANGED <<variation, lines, costs, unseen, told, trouble>>

\* The UPDATE holds the columns that differ from the row as loaded.
Set(new, loaded, now) == IF new = loaded THEN now ELSE new

\* Lines come with new totals; a rate that comes without lines leaves the totals.
EditWrite(c, rate) ==
  /\ Doing(c, "edit")
  /\ \/ \E a \in Amounts :
          /\ LET seen == clerk[c].seen IN
               variation' = [variation EXCEPT
                 !.amount = Set(a, seen.amount, @),
                 !.at     = IF <<a, rate>> = <<seen.amount, seen.at>> THEN @ ELSE rate,
                 !.rate   = Set(rate, seen.rate, @)]
          /\ Resume(c, [step |-> "items", amount |-> a])
          /\ trouble' = [trouble EXCEPT !.overlap = @ \/ Clashes(c)]
     \/ /\ rate # clerk[c].seen.rate
        /\ variation' = [variation EXCEPT !.rate = rate]
        /\ Resume(c, Unoccupied)
        /\ trouble' = [trouble EXCEPT !.overlap = @ \/ Clashes(c), !.rateAlone = TRUE]
  /\ UNCHANGED <<lines, costs, unseen, told>>

-----------------------------------------------------------------------------
(* send(), approve(), reject(), void(): _transition(), then the telling.   *)
Targets == {"sent", "approved", "rejected", "void"}

\* Mutant: an approval tells again.
DecideReadTwice(c, target) ==
  /\ Doing(c, "idle") /\ variation.status # "none"
  /\ \/ /\ target \in Allowed[variation.status]
        /\ Resume(c, [step |-> "decide", target |-> target])
     \/ /\ variation.status = target
        /\ Resume(c, [step |-> "tell", target |-> target])
  /\ UNCHANGED <<variation, lines, costs, unseen, told, trouble>>

\* Mutant: any status may be left.
DecideReadAny(c, target) ==
  /\ Doing(c, "idle") /\ variation.status # "none"
  /\ Resume(c, [step |-> "decide", target |-> target])
  /\ UNCHANGED <<variation, lines, costs, unseen, told, trouble>>

\* Already there: nothing to write, and all but approve() tell all the same.
DecideRead(c, target) ==
  /\ Doing(c, "idle") /\ variation.status # "none"
  /\ \/ /\ target \in Allowed[variation.status]
        /\ Resume(c, [step |-> "decide", target |-> target])
     \/ /\ variation.status = target /\ target # "approved"
        /\ Resume(c, [step |-> "tell", target |-> target])
  /\ UNCHANGED <<variation, lines, costs, unseen, told, trouble>>

DecideWrite(c) ==
  /\ Doing(c, "decide")
  /\ variation' = [variation EXCEPT !.status = clerk[c].target,
                                    !.dated = @ \/ clerk[c].target = "approved"]
  /\ trouble' = [trouble EXCEPT !.overlap = @ \/ Clashes(c)]
  /\ Resume(c, [step |-> "tell", target |-> clerk[c].target])
  /\ UNCHANGED <<lines, costs, unseen, told>>

\* Activity and triggers; a void variation is only logged.
Tell(c) ==
  /\ Doing(c, "tell")
  /\ IF clerk[c].target = "void" THEN UNCHANGED told
     ELSE /\ told[clerk[c].target] < MaxTold
          /\ told' = [told EXCEPT ![clerk[c].target] = @ + 1]
  /\ Resume(c, Unoccupied)
  /\ UNCHANGED <<variation, lines, costs, unseen, trouble>>

-----------------------------------------------------------------------------
(* The summary, and the cost entries it is made of.                        *)
Contract == Base + (IF variation.status = "approved" THEN variation.amount ELSE 0)

Forecast(entries) == Cost * Cardinality(entries)

\* margin_risk, as far as some entries bring it: a forecast margin below fifteen per cent.
Risky(entries) ==
  /\ Contract > 0 /\ entries # {}
  /\ (Contract - Forecast(entries)) * 100 < 15 * Contract

\* Mutant: the check runs before the entry is there.
CostWriteChecked(c, e) ==
  /\ Doing(c, "idle")
  /\ costs' = costs \cup {e}
  /\ told' = [told EXCEPT !["risk"] = IF Risky(costs) THEN 1 ELSE @]
  /\ UNCHANGED <<variation, lines, unseen, clerk, trouble>>

\* create_cost_entry(), update_cost_entry(): committed, then checked.
CostWrite(c, e) ==
  /\ Doing(c, "idle")
  /\ costs' = costs \cup {e}
  /\ Resume(c, [step |-> "check"])
  /\ UNCHANGED <<variation, lines, unseen, told, trouble>>

\* An order of the project is approved: _create_committed_costs() of procurement commits
\* an entry for each of its lines, and checks no margin.
OrderCost(e) ==
  /\ e \notin costs
  /\ costs' = costs \cup {e}
  /\ unseen' = unseen \cup {e}
  /\ UNCHANGED <<variation, lines, told, clerk, trouble>>

\* delete_cost_entry(), and the end of a cancelled order: a margin only gets better.
CostDelete(e) ==
  /\ e \in costs
  /\ costs' = costs \ {e}
  /\ unseen' = unseen \ {e}
  /\ UNCHANGED <<variation, lines, told, clerk, trouble>>

\* _check_margin_risk(): fires whenever it finds the risk.  Bound: counted once.
CheckRisk(c) ==
  /\ Doing(c, "check")
  /\ told' = [told EXCEPT !["risk"] = IF Risky(costs) THEN 1 ELSE @]
  /\ unseen' = {}
  /\ Resume(c, Unoccupied)
  /\ UNCHANGED <<variation, lines, costs, trouble>>

\* The process dies with its requests.
ClerksDie ==
  /\ \E c \in Clerks : ~Doing(c, "idle")
  /\ clerk' = [c \in Clerks |-> Unoccupied]
  /\ trouble' = [trouble EXCEPT !.died = @ \/ \E c \in Clerks : Doing(c, "items") \/ Doing(c, "check")]
  /\ UNCHANGED <<variation, lines, costs, unseen, told>>

WorkNext ==
  \/ ClerksDie
  \/ \E e \in Entries : OrderCost(e) \/ CostDelete(e)
  \/ \E c \in Clerks :
       \/ WriteItems(c) \/ EditRead(c) \/ DecideWrite(c) \/ Tell(c) \/ CheckRisk(c)
       \/ \E a \in Amounts : Create(c, a)
       \/ \E r \in Rates : EditWrite(c, r)
       \/ \E t \in Targets : DecideRead(c, t)
       \/ \E e \in Entries : CostWrite(c, e)

WorkSpec == WorkInit /\ [][WorkNext]_workVars

-----------------------------------------------------------------------------
Undisturbed == ~trouble.overlap /\ ~trouble.died

\* What the customer is shown adds up: once it leaves the draft a variation's
\* totals are those of its lines, and of its rate unless the rate was changed alone.
TotalsAreOfLines ==
  Undisturbed /\ variation.status \in {"sent", "approved", "rejected", "void"} =>
    /\ variation.amount = lines
    /\ trouble.rateAlone \/ variation.at = variation.rate

\* An approval is told once, however often it is asked for; and exactly the approved
\* variation, the one the contract counts, has a date.
ApprovedOnce ==
  ~trouble.overlap =>
    /\ told["approved"] <= 1
    /\ variation.dated <=> variation.status = "approved"

\* Each decision is told once: the early return of _transition().
ToldOnce == ~trouble.overlap => \A t \in Triggers : told[t] <= 1

\* A margin put at risk by the costs that users recorded, or by those of orders that a
\* check has come across, has been reported: the check follows the commit, so the last
\* writer sees what every other has written.  What approved orders add since then may
\* put it at risk unreported, until the next cost is recorded.
RiskIsTold ==
  Risky(costs \ unseen) /\ Undisturbed /\ (\A c \in Clerks : ~Doing(c, "check")) =>
    told["risk"] = 1

\* A decision is final unless two are taken at once.
DecisionsAreFinal ==
  [][~trouble'.overlap /\ variation.status \in {"approved", "rejected", "void"} =>
       variation'.status = variation.status /\ variation'.amount = variation.amount]_workVars
=============================================================================
