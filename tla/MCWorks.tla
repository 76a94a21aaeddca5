------------------------------ MODULE MCWorks ------------------------------
(* One project on its way, or the change order and the costs of one: each  *)
(* behaviour follows one of the two, and the other stays where it began.   *)
EXTENDS ProjectFlow, Variations, TLC

CONSTANTS u1, u2, k1, k2, c1, c2

VARIABLE focus

vars == <<flowVars, workVars, focus>>

TwoUsers   == {u1, u2}
TwoClerks  == {c1, c2}
TwoEntries == {k1, k2}

Alike == Permutations(TwoUsers) \cup Permutations(TwoClerks) \cup Permutations(TwoEntries)

\* The third stage waits for its materials.
OneGate == [s \in 1..LastStage |-> IF s = 3 THEN {"materials_ready"} ELSE {}]

StillFlow ==
  /\ FlowInit /\ ~project.legacy /\ facts = {}

StillWork ==
  /\ WorkInit
  /\ variation.amount = 0 /\ variation.rate = "zero"

Init ==
  \/ focus = "flow" /\ FlowInit /\ StillWork
  \/ focus = "work" /\ WorkInit /\ StillFlow

Next ==
  \/ focus = "flow" /\ FlowNext /\ UNCHANGED <<workVars, focus>>
  \/ focus = "work" /\ WorkNext /\ UNCHANGED <<flowVars, focus>>

Spec == Init /\ [][Next]_vars

\* The rows, the requests and what they have loaded have their types.
WorksTypeOK == FlowTypeOK /\ WorkTypeOK

\* What the customer sees of a change order adds up, and is agreed to once.
VariationIsSound == TotalsAreOfLines /\ ApprovedOnce

\* A finished trade project stays where it is, and a decided change order as it is.
FinalStays == FinishedTradeStays /\ DecisionsAreFinal
=============================================================================
