--------------------------- MODULE MCAutomations ---------------------------
(* Two evaluations at once of a rule with a task and a follow-up, which an *)
(* edit may put in the other order; two expiry dates.                      *)
EXTENDS Automations

CONSTANTS e1, e2, task, chase

TwoEvals     == {e1, e2}
TaskThenMail == <<task, chase>>
BothOrders   == {<<task, chase>>, <<chase, task>>}
=============================================================================
