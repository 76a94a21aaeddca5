----------------------------- MODULE WorksProofs -----------------------------
(***************************************************************************)
(* Theorems about ProjectFlow and Variations, for any template, any number *)
(* of requests, cost entries and amounts, and any history.                 *)
(***************************************************************************)
EXTENDS MCWorks, FiniteSetTheorems, TLAPS

(***************************************************************************)
(* ProjectFlow                                                             *)
(***************************************************************************)

(* What a request has loaded and decided.                                  *)
Loads(h) ==
  \/ h \in [step : {"idle", "convert"}]
  \/ h \in [step : {"move"}, from : Stages, to : Stages, seen : 0..Cancelled,
            previous : 0..Cancelled]
  \/ h \in [step : {"status"}, seen : Stages, status : 1..(LastStage - 1)]

HandsTyped == hand = [u \in Users |-> hand[u]] /\ \A u \in Users : Loads(hand[u])

(* Unless requests overlapped, the row is still what a request loaded.     *)
HandsAreFresh ==
  ~overlap =>
    \A u \in Users :
      /\ hand[u].step = "move" =>
           /\ hand[u].from = project.stage /\ hand[u].seen = project.previous
           /\ ~Terminal(project.stage)
           /\ Edge(project.stage, hand[u].to) \/ IsResume(hand[u].to)
           /\ hand[u].previous = IF hand[u].to = OnHold THEN project.stage
                                 ELSE IF IsResume(hand[u].to) THEN 0 ELSE project.previous
      /\ hand[u].step = "status" => hand[u].seen = project.stage /\ hand[u].status = project.status
      /\ hand[u].step = "convert" => project.customer = 0

(* A status request of a legacy project has its stage to move: it found the stage at the status,
   which has a next one, or at a side stage.                               *)
LegacyHands ==
  project.legacy => \A u \in Users : hand[u].step = "status" => hand[u].seen # hand[u].status + 1

(* A stage that is, was held at or is about to be left was entered.        *)
Entered(s) == s = 1 \/ \E j \in 1..Len(history) : history[j].to = s

StagesEntered ==
  ~project.legacy =>
    /\ project.stage \in Ordered => Entered(project.stage)
    /\ project.previous \in Ordered => Entered(project.previous)
    /\ \A u \in Users : hand[u].step = "move" =>
         /\ hand[u].to \in Ordered \ {1} => hand[u].to = 2 \/ Entered(hand[u].to - 1)
         /\ hand[u].previous \in Ordered => Entered(hand[u].previous)

(* The history ends where the project stands.                              *)
HistoryEnds ==
  ~overlap /\ ~project.legacy =>
    project.stage = IF history = <<>> THEN 1 ELSE history[Len(history)].to

(* A linked customer is the one conversion that no unlinking made up for.  *)
CustomersCounted ==
  ~overlap => customers.made <= customers.unlinked + (IF project.customer = 0 THEN 0 ELSE 1)

FlowInv ==
  /\ FlowTypeOK /\ HandsTyped /\ HandsAreFresh /\ StagesEntered /\ HistoryEnds /\ CustomersCounted
  /\ LegacyHands /\ LegacyAgrees /\ HoldRemembers /\ StagesInOrder /\ HistoryIsAChain

-----------------------------------------------------------------------------
LEMMA InitFlow ==
  ASSUME FlowInit
  PROVE  FlowInv
<1>0. /\ LastStage \in Nat /\ LastStage >= 2 /\ MaxHistory \in Nat /\ MaxCustomers \in Nat
  BY ProjectFlowAssumption DEF ProjectFlowAssumption
<1>1. /\ project.stage = project.status /\ project.status \in Ordered /\ project.previous = 0
      /\ project.customer = 0 /\ project \in ProjectRow
      /\ ~project.legacy => project.stage = 1
  <2>1. 1 \in Ordered
    BY <1>0 DEF Ordered
  <2>2. PICK b \in BOOLEAN, s \in Ordered :
          /\ project = [legacy |-> b, status |-> s, stage |-> s, previous |-> 0, customer |-> 0]
          /\ b \/ s = 1
    BY <2>1 DEF FlowInit
  <2>3. s \in Stages /\ 0 \in 0..Cancelled /\ 0 \in 0..MaxCustomers
    BY <1>0 DEF Ordered, Stages, Cancelled
  <2> QED BY <2>2, <2>3 DEF ProjectRow
<1>2. \A u \in Users : hand[u] = Empty /\ hand[u].step = "idle" /\ Loads(hand[u])
  BY DEF FlowInit, Empty, Loads
<1>3. history = <<>> /\ Len(history) = 0
  BY DEF FlowInit
<1>4. FlowTypeOK
  <2>1. facts \subseteq GateTypes
    BY DEF FlowInit
  <2>2. customers \in [made : 0..MaxCustomers, unlinked : 0..1] /\ overlap \in BOOLEAN
    <3>1. customers = [made |-> 0, unlinked |-> 0] /\ overlap = FALSE
      BY DEF FlowInit
    <3>2. 0 \in 0..MaxCustomers /\ 0 \in 0..1
      BY <1>0
    <3>3. [made |-> 0, unlinked |-> 0] \in [made : 0..MaxCustomers, unlinked : 0..1]
      BY <3>2
    <3>4. overlap \in BOOLEAN
      BY <3>1
    <3> QED BY <3>1, <3>3, <3>4
  <2>3. history \in Seq(HistoryRow) /\ Len(history) <= MaxHistory
    BY <1>0, <1>3
  <2> QED BY <1>1, <1>2, <2>1, <2>2, <2>3 DEF FlowTypeOK
<1>5. HandsTyped /\ HandsAreFresh /\ LegacyHands
  BY <1>2 DEF FlowInit, HandsTyped, HandsAreFresh, LegacyHands
<1>6. StagesEntered /\ HistoryEnds /\ StagesInOrder /\ HistoryIsAChain
  BY <1>0, <1>1, <1>2, <1>3 DEF StagesEntered, HistoryEnds, StagesInOrder, HistoryIsAChain, Entered, Ordered
<1>7. CustomersCounted
  BY <1>1 DEF FlowInit, CustomersCounted
<1>8. LegacyAgrees /\ HoldRemembers
  BY <1>0, <1>1 DEF LegacyAgrees, HoldRemembers, OnHold, Ordered
<1> QED BY <1>4, <1>5, <1>6, <1>7, <1>8 DEF FlowInv

-----------------------------------------------------------------------------
LEMMA Taken ==
  ASSUME HandsTyped, NEW u \in Users, NEW what, Take(u, what)
  PROVE  /\ hand' = [v \in Users |-> hand'[v]]
         /\ \A v \in Users : hand'[v] = IF v = u THEN what ELSE hand[v]
BY DEF HandsTyped, Take

(* A request that loads the row.                                           *)
LEMMA ReadStep ==
  ASSUME FlowInv, NEW u \in Users,
         (\E t \in Stages : MoveRead(u, t)) \/ StatusRead(u) \/ ConvertRead(u) \/ GiveUp(u)
  PROVE  FlowInv'
<1>0. /\ LastStage \in Nat /\ LastStage >= 2 /\ FlowTypeOK /\ HandsTyped /\ HandsAreFresh /\ StagesEntered
      /\ StagesInOrder
  BY ProjectFlowAssumption DEF ProjectFlowAssumption, FlowInv
<1>1. UNCHANGED <<project, history, facts, customers, overlap>>
  BY DEF MoveRead, StatusRead, ConvertRead, GiveUp
<1>2. /\ project \in ProjectRow /\ project.stage \in Stages /\ project.previous \in 0..Cancelled
      /\ project.status \in Ordered
  BY <1>0 DEF FlowTypeOK, ProjectRow
<1> DEFINE h == hand'[u]
(* What it loads is the row.                                               *)
<1>3. /\ Loads(h)
      /\ h.step = "move" =>
           /\ h.from = project.stage /\ h.seen = project.previous
           /\ ~Terminal(project.stage)
           /\ Edge(project.stage, h.to) \/ IsResume(h.to)
           /\ h.previous = IF h.to = OnHold THEN project.stage
                           ELSE IF IsResume(h.to) THEN 0 ELSE project.previous
      /\ h.step = "status" => h.seen = project.stage /\ h.status = project.status
      /\ h.step = "convert" => project.customer = 0
      /\ h.step = "status" => h.status \in 1..(LastStage - 1)
      /\ h.step \in {"idle", "move", "status", "convert"}
  <2>1. CASE StatusRead(u)
    <3>1. h = [step |-> "status", seen |-> project.stage, status |-> project.status]
      BY <1>0, <2>1, Taken DEF StatusRead
    <3>2. project.status \in 1..(LastStage - 1)
      BY <1>0, <1>2, <2>1 DEF StatusRead, Ordered
    <3> HIDE DEF h
    <3> QED BY <1>2, <3>1, <3>2 DEF Loads
  <2>2. CASE ConvertRead(u)
    <3>1. h = [step |-> "convert"] /\ project.customer = 0
      BY <1>0, <2>2, Taken DEF ConvertRead
    <3> HIDE DEF h
    <3> QED BY <3>1 DEF Loads
  <2>3. CASE GiveUp(u)
    <3>1. h = Empty
      BY <1>0, <2>3, Taken DEF GiveUp
    <3> HIDE DEF h
    <3> QED BY <3>1 DEF Loads, Empty
  <2>4. ASSUME NEW t \in Stages, MoveRead(u, t)
        PROVE  /\ Loads(h) /\ h.step = "move"
               /\ h.from = project.stage /\ h.seen = project.previous
               /\ ~Terminal(project.stage)
               /\ Edge(project.stage, h.to) \/ IsResume(h.to)
               /\ h.previous = IF h.to = OnHold THEN project.stage
                               ELSE IF IsResume(h.to) THEN 0 ELSE project.previous
    <3> DEFINE p == IF t = OnHold THEN project.stage ELSE IF IsResume(t) THEN 0 ELSE project.previous
    <3>1. h = [step |-> "move", from |-> project.stage, to |-> t, seen |-> project.previous,
               previous |-> p]
      BY <1>0, <2>4, Taken DEF MoveRead
    <3>2. p \in 0..Cancelled
      BY <1>0, <1>2 DEF Stages, Cancelled
    <3>3. ~Terminal(project.stage) /\ (IsResume(t) \/ Edge(project.stage, t))
      BY <2>4 DEF MoveRead
    <3>4. p = IF t = OnHold THEN project.stage ELSE IF IsResume(t) THEN 0 ELSE project.previous
      OBVIOUS
    <3> HIDE DEF h, p
    <3>5. Loads(h)
      BY <1>2, <3>1, <3>2 DEF Loads
    <3> QED BY <3>1, <3>3, <3>4, <3>5
  <2> QED BY <2>1, <2>2, <2>3, <2>4
<1>4. hand' = [v \in Users |-> hand'[v]] /\ \A v \in Users \ {u} : hand'[v] = hand[v]
  BY <1>0 DEF HandsTyped, Take, MoveRead, StatusRead, ConvertRead, GiveUp
<1> HIDE DEF h
<1>5. HandsTyped'
  <2>1. \A v \in Users : Loads(hand'[v])
    BY <1>0, <1>3, <1>4 DEF HandsTyped, h
  <2> QED BY <1>4, <2>1 DEF HandsTyped
<1>6. FlowTypeOK'
  <2>1. \A v \in Users : hand'[v].step \in {"idle", "move", "status", "convert"}
    BY <1>0, <1>3, <1>4 DEF FlowTypeOK, h
  <2> QED BY <1>0, <1>1, <2>1 DEF FlowTypeOK
<1>7. HandsAreFresh'
  <2> SUFFICES ASSUME ~overlap, NEW v \in Users
      PROVE  /\ hand'[v].step = "move" =>
                  /\ hand'[v].from = project.stage /\ hand'[v].seen = project.previous
                  /\ ~Terminal(project.stage)
                  /\ Edge(project.stage, hand'[v].to) \/ IsResume(hand'[v].to)
                  /\ hand'[v].previous = IF hand'[v].to = OnHold THEN project.stage
                                         ELSE IF IsResume(hand'[v].to) THEN 0 ELSE project.previous
             /\ hand'[v].step = "status" => hand'[v].seen = project.stage /\ hand'[v].status = project.status
             /\ hand'[v].step = "convert" => project.customer = 0
    BY <1>1 DEF HandsAreFresh, IsResume
  <2>1. CASE v = u
    BY <1>3, <2>1 DEF h
  <2>2. CASE v # u
    BY <1>0, <1>4, <2>2 DEF HandsAreFresh
  <2> QED BY <2>1, <2>2
(* A step forward is one from a stage that was entered.                    *)
<1>8. StagesEntered'
  <2> SUFFICES ASSUME ~project.legacy, NEW v \in Users, hand'[v].step = "move"
      PROVE  /\ hand'[v].to \in Ordered \ {1} => hand'[v].to = 2 \/ Entered(hand'[v].to - 1)
             /\ hand'[v].previous \in Ordered => Entered(hand'[v].previous)
    BY <1>0, <1>1 DEF StagesEntered, Entered
  <2>1. CASE v # u
    BY <1>0, <1>4, <2>1 DEF StagesEntered
  <2>2. CASE v = u
    <3>1. /\ h.step = "move"
          /\ Edge(project.stage, h.to) \/ IsResume(h.to)
          /\ h.previous \in {project.stage, 0, project.previous}
      BY <1>3, <2>2 DEF h
    <3>2. h.previous \in Ordered => Entered(h.previous)
      BY <1>0, <3>1 DEF StagesEntered, Ordered
    <3>3. ASSUME h.to \in Ordered \ {1}, h.to # 2
          PROVE  Entered(h.to - 1)
      <4>1. CASE Edge(project.stage, h.to)
        <5>1. project.stage \in Ordered /\ h.to = project.stage + 1
          BY <1>0, <3>3, <4>1 DEF Edge, OnHold, Cancelled, Ordered
        <5> QED BY <1>0, <5>1 DEF StagesEntered, Ordered
      <4>2. CASE IsResume(h.to)
        <5>1. project.previous = h.to /\ Entered(h.to)
          BY <1>0, <3>3, <4>2 DEF IsResume, StagesEntered
        <5>2. PICK i \in 1..Len(history) : history[i].to = h.to
          BY <3>3, <5>1 DEF Entered
        <5>3. \E j \in 1..(i - 1) : history[j].to = h.to - 1
          BY <1>0, <3>3, <5>2 DEF StagesInOrder
        <5>4. Len(history) \in Nat
          BY <1>0 DEF FlowTypeOK
        <5> QED BY <5>3, <5>4 DEF Entered
      <4> QED BY <3>1, <4>1, <4>2
    <3> QED BY <2>2, <3>2, <3>3 DEF h
  <2> QED BY <2>1, <2>2
<1>9. /\ HistoryEnds' /\ CustomersCounted' /\ LegacyAgrees' /\ HoldRemembers' /\ StagesInOrder'
      /\ HistoryIsAChain'
  BY <1>1 DEF FlowInv, HistoryEnds, CustomersCounted, LegacyAgrees, HoldRemembers, StagesInOrder, HistoryIsAChain
<1>10. LegacyHands'
  <2> SUFFICES ASSUME project.legacy, NEW v \in Users, hand'[v].step = "status"
      PROVE  hand'[v].seen # hand'[v].status + 1
    BY <1>1 DEF LegacyHands
  <2>1. CASE v # u
    BY <1>4, <2>1 DEF FlowInv, LegacyHands
  <2>2. CASE v = u
    <3>1. h.seen = project.stage /\ h.status = project.status /\ h.status \in 1..(LastStage - 1)
      BY <1>3, <2>2 DEF h
    <3>2. project.stage \in Ordered => project.stage = project.status
      BY DEF FlowInv, LegacyAgrees
    <3>3. h.seen # h.status + 1
      BY <1>0, <1>2, <3>1, <3>2 DEF Ordered, Stages, Cancelled
    <3> QED BY <2>2, <3>3 DEF h
  <2> QED BY <2>1, <2>2
<1> QED BY <1>5, <1>6, <1>7, <1>8, <1>9, <1>10 DEF FlowInv

-----------------------------------------------------------------------------
(* A request that writes: whoever had the row loaded too overlapped.       *)
LEMMA WriteHands ==
  ASSUME FlowInv, NEW u \in Users, Written(u), Take(u, Empty)
  PROVE  /\ HandsTyped' /\ HandsAreFresh'
         /\ \A v \in Users : hand'[v].step \in {"idle", "move", "status", "convert"}
         /\ overlap' \in BOOLEAN /\ (~overlap' => ~overlap)
         /\ \A v \in Users : hand'[v].step \in {"move", "status"} => hand'[v] = hand[v]
<1>1. HandsTyped /\ FlowTypeOK
  BY DEF FlowInv
<1>2. Loads(Empty) /\ Empty.step = "idle"
  BY DEF Loads, Empty
<1>3. /\ hand' = [v \in Users |-> hand'[v]]
      /\ \A v \in Users : hand'[v] = IF v = u THEN Empty ELSE hand[v]
  BY <1>1, Taken
<1>4. HandsTyped'
  <2>1. \A v \in Users : Loads(hand'[v])
    BY <1>1, <1>2, <1>3 DEF HandsTyped
  <2> QED BY <1>3, <2>1 DEF HandsTyped
<1>5. ~overlap' => \A v \in Users : hand'[v].step = "idle"
  BY <1>2, <1>3 DEF Written, Free
<1>6. HandsAreFresh'
  BY <1>5 DEF HandsAreFresh
<1>7. \A v \in Users : /\ hand'[v].step \in {"idle", "move", "status", "convert"}
                       /\ hand'[v].step \in {"move", "status"} => hand'[v] = hand[v]
  BY <1>1, <1>2, <1>3 DEF FlowTypeOK
<1>8. \E b \in BOOLEAN : b = (overlap \/ \E v \in Users \ {u} : ~Free(v))
  BY Zenon
<1>9. overlap' \in BOOLEAN
  BY <1>8 DEF Written
<1>10. ~overlap' => ~overlap
  BY DEF Written
<1> QED BY <1>4, <1>6, <1>7, <1>9, <1>10

(* What is appended is the last entry, and the others stay.                *)
LEMMA Appended ==
  ASSUME history \in Seq(HistoryRow), NEW x \in HistoryRow, history' = Append(history, x)
  PROVE  /\ history' \in Seq(HistoryRow) /\ Len(history') = Len(history) + 1 /\ history' # <<>>
         /\ Len(history) \in Nat
         /\ \A i \in 1..Len(history) : history'[i] = history[i]
         /\ history'[Len(history) + 1] = x
OBVIOUS

LEMMA MoveStep ==
  ASSUME FlowInv, NEW u \in Users, MoveWrite(u)
  PROVE  FlowInv'
<1> DEFINE m == hand[u]
           n == Len(history)
<1>0. /\ LastStage \in Nat /\ LastStage >= 2 /\ FlowTypeOK /\ HandsTyped /\ HandsAreFresh /\ StagesEntered
      /\ StagesInOrder
  BY ProjectFlowAssumption DEF ProjectFlowAssumption, FlowInv
<1>1. /\ m.step = "move" /\ n < MaxHistory /\ history' = Append(history, [from |-> m.from, to |-> m.to])
      /\ Written(u) /\ Take(u, Empty) /\ UNCHANGED <<facts, customers>>
      /\ project' = Moved(m)
  BY DEF MoveWrite
<1>2. /\ m.from \in Stages /\ m.to \in Stages /\ m.seen \in 0..Cancelled
      /\ m.previous \in 0..Cancelled
  BY <1>0, <1>1 DEF HandsTyped, Loads
<1>3. /\ HandsTyped' /\ HandsAreFresh' /\ overlap' \in BOOLEAN /\ (~overlap' => ~overlap)
      /\ \A v \in Users : hand'[v].step \in {"idle", "move", "status", "convert"}
      /\ \A v \in Users : hand'[v].step \in {"move", "status"} => hand'[v] = hand[v]
  BY <1>1, WriteHands
<1>4. project \in ProjectRow
  BY <1>0 DEF FlowTypeOK
<1>5. /\ project'.stage = m.to
      /\ project'.previous = IF m.previous = m.seen THEN project.previous ELSE m.previous
      /\ project'.status = IF project.legacy /\ m.to \in Ordered THEN m.to ELSE project.status
      /\ project'.legacy = project.legacy /\ project'.customer = project.customer
      /\ project' \in ProjectRow
  BY <1>1, <1>2, <1>4 DEF Moved, ProjectRow
<1>6. /\ history' \in Seq(HistoryRow) /\ Len(history') = n + 1 /\ history' # <<>> /\ n \in Nat
      /\ \A i \in 1..n : history'[i] = history[i]
      /\ history'[n + 1].from = m.from /\ history'[n + 1].to = m.to
  <2>1. [from |-> m.from, to |-> m.to] \in HistoryRow
    BY <1>2 DEF HistoryRow
  <2> HIDE DEF m
  <2> QED BY <1>0, <1>1, <2>1, Appended DEF FlowTypeOK
<1>7. ~overlap =>
        /\ m.from = project.stage /\ m.seen = project.previous
        /\ ~Terminal(project.stage)
        /\ Edge(project.stage, m.to) \/ IsResume(m.to)
        /\ m.previous = IF m.to = OnHold THEN project.stage
                        ELSE IF IsResume(m.to) THEN 0 ELSE project.previous
  BY <1>0, <1>1 DEF HandsAreFresh
<1>8. ~project.legacy =>
        /\ m.to \in Ordered \ {1} => m.to = 2 \/ Entered(m.to - 1)
        /\ m.previous \in Ordered => Entered(m.previous)
  BY <1>0, <1>1 DEF StagesEntered
<1> HIDE DEF m, n
<1>9. FlowTypeOK'
  <2>1. Len(history') <= MaxHistory
    BY <1>1, <1>6, ProjectFlowAssumption DEF ProjectFlowAssumption
  <2> QED BY <1>0, <1>1, <1>3, <1>5, <1>6, <2>1 DEF FlowTypeOK
<1>10. ASSUME NEW s, Entered(s)
       PROVE  s = 1 \/ \E j \in 1..Len(history') : history'[j].to = s
  <2>1. CASE s = 1
    BY <2>1
  <2>2. CASE \E j \in 1..Len(history) : history[j].to = s
    <3>1. PICK j \in 1..n : history[j].to = s
      BY <2>2 DEF n
    <3>2. j \in 1..Len(history') /\ history'[j].to = s
      BY <1>6, <3>1
    <3> QED BY <3>2
  <2> QED BY <1>10, <2>1, <2>2 DEF Entered
<1>11. StagesEntered'
  <2> SUFFICES ASSUME ~project.legacy
               PROVE  /\ project'.stage \in Ordered => Entered(project.stage)'
                      /\ project'.previous \in Ordered => Entered(project.previous)'
                      /\ \A v \in Users : hand'[v].step = "move" =>
                           /\ hand'[v].to \in Ordered \ {1} => hand'[v].to = 2 \/ Entered(hand[v].to - 1)'
                           /\ hand'[v].previous \in Ordered => Entered(hand[v].previous)'
    BY <1>5 DEF StagesEntered
  <2>1. Entered(project.stage)'
    BY <1>5, <1>6 DEF Entered
  <2>2. project'.previous \in Ordered => Entered(project.previous)'
    BY ZenonT(40), <1>0, <1>5, <1>8, <1>10 DEF StagesEntered, Entered
  <2>3. ASSUME NEW v \in Users, hand'[v].step = "move"
        PROVE  /\ hand'[v].to \in Ordered \ {1} => hand'[v].to = 2 \/ Entered(hand[v].to - 1)'
               /\ hand'[v].previous \in Ordered => Entered(hand[v].previous)'
    <3>1. hand'[v] = hand[v]
      BY <1>3, <2>3
    <3>2. /\ hand[v].to \in Ordered \ {1} => hand[v].to = 2 \/ Entered(hand[v].to - 1)
          /\ hand[v].previous \in Ordered => Entered(hand[v].previous)
      BY <1>0, <2>3, <3>1 DEF StagesEntered
    <3>3. PICK a, b : a = hand[v].to /\ b = hand[v].previous
      OBVIOUS
    <3>4. /\ a \in Ordered \ {1} => a = 2 \/ Entered(a - 1)'
          /\ b \in Ordered => Entered(b)'
      BY <1>10, <3>2, <3>3 DEF Entered
    <3> QED BY <3>1, <3>3, <3>4 DEF Entered
  <2> QED BY <2>1, <2>2, <2>3
<1>12. StagesInOrder'
  <2> SUFFICES ASSUME ~project.legacy, NEW i \in 1..(n + 1), history'[i].to \in Ordered \ {1}, history'[i].to # 2
               PROVE  \E j \in 1..(i - 1) : history'[j].to = history'[i].to - 1
    BY <1>5, <1>6 DEF StagesInOrder
  <2>1. CASE i \in 1..n
    <3>1. PICK j \in 1..(i - 1) : history[j].to = history[i].to - 1
      BY <1>0, <1>6, <2>1 DEF StagesInOrder, n
    <3> QED BY <1>6, <2>1, <3>1
  <2>2. CASE i = n + 1
    <3>1. Entered(m.to - 1) /\ m.to - 1 # 1
      BY <1>6, <1>8, <2>2 DEF Ordered
    <3>2. PICK j \in 1..n : history[j].to = m.to - 1
      BY <3>1 DEF Entered, n
    <3> QED BY <1>6, <2>2, <3>2
  <2> QED BY <1>6, <2>1, <2>2
<1>13. HistoryEnds' /\ CustomersCounted'
  BY <1>1, <1>3, <1>5, <1>6 DEF FlowInv, HistoryEnds, CustomersCounted
<1>14. HistoryIsAChain'
  <2> SUFFICES ASSUME ~overlap, ~project.legacy, NEW i \in 1..(n + 1)
               PROVE  history'[i].from = IF i = 1 THEN 1 ELSE history'[i - 1].to
    BY <1>3, <1>5, <1>6 DEF HistoryIsAChain
  <2>1. CASE i \in 1..n
    <3>1. history[i].from = IF i = 1 THEN 1 ELSE history[i - 1].to
      BY <2>1 DEF FlowInv, HistoryIsAChain, n
    <3>2. i = 1 \/ i - 1 \in 1..n
      BY <1>6, <2>1
    <3> QED BY <1>6, <2>1, <3>1, <3>2
  <2>2. CASE i = n + 1
    <3>1. m.from = IF history = <<>> THEN 1 ELSE history[n].to
      BY <1>7 DEF FlowInv, HistoryEnds, n
    <3>2. history = <<>> <=> n = 0
      BY <1>0 DEF FlowTypeOK, n
    <3> QED BY <1>6, <2>2, <3>1, <3>2
  <2> QED BY <1>6, <2>1, <2>2
<1>15. LegacyAgrees' /\ LegacyHands'
  BY <1>3, <1>5 DEF FlowInv, LegacyAgrees, LegacyHands
<1>16. HoldRemembers'
  <2> SUFFICES ASSUME ~overlap, m.to = OnHold
               PROVE  project'.previous \in Ordered \ {LastStage}
    BY <1>3, <1>5 DEF HoldRemembers
  <2>1. CASE IsResume(m.to)
    BY <1>0, <2>1 DEF FlowInv, IsResume, HoldRemembers, OnHold, Ordered
  <2>2. CASE Edge(project.stage, m.to)
    <3>1. project.stage \in Ordered \ {LastStage}
      BY <1>0, <2>2 DEF Edge, Terminal, OnHold, Cancelled
    <3> QED BY <1>5, <1>7, <3>1
  <2> QED BY <1>7, <2>1, <2>2
<1> QED BY <1>3, <1>9, <1>11, <1>12, <1>13, <1>14, <1>15, <1>16 DEF FlowInv

LEMMA StatusStep ==
  ASSUME FlowInv, NEW u \in Users, StatusWrite(u)
  PROVE  FlowInv'
<1> DEFINE m == hand[u]
           n == Len(history)
<1>0. /\ LastStage \in Nat /\ LastStage >= 2 /\ FlowTypeOK /\ HandsTyped /\ HandsAreFresh /\ StagesEntered
  BY ProjectFlowAssumption DEF ProjectFlowAssumption, FlowInv
<1>1. /\ m.step = "status" /\ n < MaxHistory
      /\ Written(u) /\ Take(u, Empty) /\ UNCHANGED <<facts, customers>>
      /\ project' = Advanced(m)
  BY DEF StatusWrite
<1>2. m.seen \in Stages /\ m.status \in 1..(LastStage - 1)
  BY <1>0, <1>1 DEF HandsTyped, Loads
<1>3. /\ HandsTyped' /\ HandsAreFresh' /\ overlap' \in BOOLEAN /\ (~overlap' => ~overlap)
      /\ \A v \in Users : hand'[v].step \in {"idle", "move", "status", "convert"}
      /\ \A v \in Users : hand'[v].step \in {"move", "status"} => hand'[v] = hand[v]
  BY <1>1, WriteHands
<1>4. project \in ProjectRow
  BY <1>0 DEF FlowTypeOK
<1>a. m.status + 1 \in Ordered /\ m.status + 1 \in Stages /\ m.status \in Stages
  BY <1>0, <1>2 DEF Ordered, Stages, Cancelled
<1>5. /\ project'.stage = IF project.legacy /\ m.seen # m.status + 1 THEN m.status + 1 ELSE project.stage
      /\ project'.previous = project.previous
      /\ project'.status = m.status + 1
      /\ project'.legacy = project.legacy /\ project'.customer = project.customer
      /\ project' \in ProjectRow
  BY <1>1, <1>4, <1>a DEF Advanced, ProjectRow
<1>6. history' \in Seq(HistoryRow) /\ Len(history') <= MaxHistory /\ (~project.legacy => history' = history)
  <2>1. CASE project.legacy
    <3> DEFINE x == [from |-> m.status, to |-> m.status + 1]
    <3>1. history' = Append(history, x) /\ x \in HistoryRow
      BY <1>a, <2>1 DEF StatusWrite, HistoryRow
    <3> HIDE DEF x
    <3>2. history' \in Seq(HistoryRow) /\ Len(history') = n + 1 /\ n \in Nat
      BY <1>0, <3>1, Appended DEF FlowTypeOK
    <3> HIDE DEF n
    <3> QED BY <1>1, <2>1, <3>2, ProjectFlowAssumption DEF ProjectFlowAssumption
  <2>2. CASE ~project.legacy
    BY <1>0, <2>2 DEF StatusWrite, FlowTypeOK
  <2> QED BY <2>1, <2>2
<1>7. /\ ~overlap => m.seen = project.stage /\ m.status = project.status
      /\ project.legacy => m.seen # m.status + 1
  BY <1>0, <1>1 DEF FlowInv, HandsAreFresh, LegacyHands
<1> HIDE DEF m, n
<1>8. FlowTypeOK'
  BY <1>0, <1>1, <1>3, <1>5, <1>6 DEF FlowTypeOK
<1>9. StagesEntered'
  <2> SUFFICES ASSUME ~project.legacy
               PROVE  StagesEntered'
    BY <1>5 DEF StagesEntered
  <2>1. history' = history /\ project'.stage = project.stage /\ project'.previous = project.previous
    BY <1>5, <1>6
  <2>2. \A v \in Users : hand'[v].step = "move" =>
          /\ hand'[v].to \in Ordered \ {1} => hand'[v].to = 2 \/ Entered(hand'[v].to - 1)
          /\ hand'[v].previous \in Ordered => Entered(hand'[v].previous)
    BY <1>0, <1>3 DEF StagesEntered
  <2>3. \A s : Entered(s) <=> s = 1 \/ \E j \in 1..Len(history') : history'[j].to = s
    BY <2>1 DEF Entered
  <2>4. /\ project'.stage \in Ordered => Entered(project'.stage)
        /\ project'.previous \in Ordered => Entered(project'.previous)
    BY <1>0, <2>1 DEF StagesEntered
  <2> QED BY <2>2, <2>3, <2>4 DEF StagesEntered, Entered
<1>10. StagesInOrder' /\ HistoryIsAChain' /\ HistoryEnds'
  BY <1>3, <1>5, <1>6 DEF FlowInv, StagesInOrder, HistoryIsAChain, HistoryEnds
<1>11. CustomersCounted'
  BY <1>1, <1>3, <1>5 DEF FlowInv, CustomersCounted
<1>12. LegacyAgrees' /\ LegacyHands'
  BY <1>3, <1>5, <1>7 DEF FlowInv, LegacyAgrees, LegacyHands
<1>13. HoldRemembers'
  BY <1>0, <1>3, <1>5, <1>7, <1>a DEF FlowInv, HoldRemembers, OnHold, Ordered
<1> QED BY <1>3, <1>8, <1>9, <1>10, <1>11, <1>12, <1>13 DEF FlowInv

(* A step that leaves stage, status and history alone.                     *)
LEMMA ElsewhereStep ==
  ASSUME FlowInv, FlowTypeOK', HandsTyped', HandsAreFresh', CustomersCounted',
         UNCHANGED history, ~overlap' => ~overlap,
         project'.legacy = project.legacy, project'.stage = project.stage,
         project'.previous = project.previous, project'.status = project.status,
         \A v \in Users : hand'[v].step \in {"move", "status"} => hand'[v] = hand[v]
  PROVE  FlowInv'
<1>1. StagesEntered'
  <2> SUFFICES ASSUME ~project.legacy
               PROVE  StagesEntered'
    BY DEF StagesEntered
  <2>1. StagesEntered
    BY DEF FlowInv
  <2>2. \A v \in Users : hand'[v].step = "move" =>
          /\ hand'[v].to \in Ordered \ {1} => hand'[v].to = 2 \/ Entered(hand'[v].to - 1)
          /\ hand'[v].previous \in Ordered => Entered(hand'[v].previous)
    BY <2>1 DEF StagesEntered
  <2>3. \A s : Entered(s) <=> s = 1 \/ \E j \in 1..Len(history') : history'[j].to = s
    BY DEF Entered
  <2>4. /\ project'.stage \in Ordered => Entered(project'.stage)
        /\ project'.previous \in Ordered => Entered(project'.previous)
    BY <2>1 DEF StagesEntered
  <2> QED BY <2>2, <2>3, <2>4 DEF StagesEntered, Entered
<1>2. HistoryEnds' /\ LegacyHands' /\ LegacyAgrees' /\ HoldRemembers' /\ StagesInOrder' /\ HistoryIsAChain'
  BY DEF FlowInv, HistoryEnds, LegacyHands, LegacyAgrees, HoldRemembers, StagesInOrder, HistoryIsAChain
<1> QED BY <1>1, <1>2 DEF FlowInv

LEMMA ConvertStep ==
  ASSUME FlowInv, NEW u \in Users, ConvertWrite(u)
  PROVE  FlowInv'
<1>0. /\ FlowTypeOK /\ HandsAreFresh /\ CustomersCounted /\ project \in ProjectRow
      /\ customers \in [made : 0..MaxCustomers, unlinked : 0..1]
      /\ MaxCustomers \in Nat
  BY ProjectFlowAssumption DEF ProjectFlowAssumption, FlowInv, FlowTypeOK
<1>1. /\ hand[u].step = "convert" /\ customers.made < MaxCustomers
      /\ Written(u) /\ Take(u, Empty) /\ UNCHANGED <<history, facts>>
      /\ customers' = [customers EXCEPT !.made = @ + 1]
      /\ project' = [project EXCEPT !.customer = customers.made + 1]
  BY DEF ConvertWrite
<1>2. /\ customers'.made = customers.made + 1 /\ customers'.unlinked = customers.unlinked
      /\ customers' \in [made : 0..MaxCustomers, unlinked : 0..1]
  BY <1>0, <1>1
<1>a. customers.made + 1 \in 0..MaxCustomers /\ customers.made + 1 # 0
  BY <1>0, <1>1
<1>3. /\ project' \in ProjectRow /\ project'.customer # 0 /\ project'.legacy = project.legacy
      /\ project'.stage = project.stage /\ project'.previous = project.previous /\ project'.status = project.status
  BY <1>0, <1>1, <1>a DEF ProjectRow
<1>4. /\ HandsTyped' /\ HandsAreFresh' /\ overlap' \in BOOLEAN /\ (~overlap' => ~overlap)
      /\ \A v \in Users : hand'[v].step \in {"idle", "move", "status", "convert"}
      /\ \A v \in Users : hand'[v].step \in {"move", "status"} => hand'[v] = hand[v]
  BY <1>1, WriteHands
<1>5. FlowTypeOK'
  BY <1>0, <1>1, <1>2, <1>3, <1>4 DEF FlowTypeOK
<1>6. CustomersCounted'
  <2>1. ~overlap => customers.made <= customers.unlinked
    BY <1>0, <1>1 DEF CustomersCounted, HandsAreFresh
  <2> QED BY <1>0, <1>2, <1>3, <1>4, <2>1 DEF CustomersCounted
<1> QED BY <1>1, <1>3, <1>4, <1>5, <1>6, ElsewhereStep

LEMMA UnlinkStep ==
  ASSUME FlowInv, Unlink
  PROVE  FlowInv'
<1>0. /\ FlowTypeOK /\ HandsTyped /\ HandsAreFresh /\ CustomersCounted /\ project \in ProjectRow
      /\ customers \in [made : 0..MaxCustomers, unlinked : 0..1] /\ MaxCustomers \in Nat
  BY ProjectFlowAssumption DEF ProjectFlowAssumption, FlowInv, FlowTypeOK
<1>1. /\ customers.unlinked = 0 /\ project.customer # 0 /\ UNCHANGED <<history, facts, hand, overlap>>
      /\ project' = [project EXCEPT !.customer = 0]
      /\ customers' = [customers EXCEPT !.unlinked = 1]
  BY DEF Unlink
<1>2. /\ customers'.made = customers.made /\ customers'.unlinked = 1
      /\ customers' \in [made : 0..MaxCustomers, unlinked : 0..1]
  BY <1>0, <1>1
<1>a. 0 \in 0..MaxCustomers
  BY <1>0
<1>3. /\ project' \in ProjectRow /\ project'.customer = 0 /\ project'.legacy = project.legacy
      /\ project'.stage = project.stage /\ project'.previous = project.previous /\ project'.status = project.status
  BY <1>0, <1>1, <1>a DEF ProjectRow
<1>4. FlowTypeOK' /\ HandsTyped'
  BY <1>0, <1>1, <1>2, <1>3 DEF FlowTypeOK, HandsTyped
<1>5. HandsAreFresh'
  BY <1>0, <1>1, <1>3 DEF HandsAreFresh, IsResume
<1>6. CustomersCounted'
  BY <1>0, <1>1, <1>2, <1>3 DEF CustomersCounted
<1> QED BY <1>1, <1>3, <1>4, <1>5, <1>6, ElsewhereStep

LEMMA FlowKept ==
  ASSUME FlowInv, [FlowNext]_flowVars
  PROVE  FlowInv'
<1>1. CASE UNCHANGED <<project, history, customers, hand, overlap>> /\ (facts' = facts \/ facts' \subseteq GateTypes)
  <2>1. FlowTypeOK' /\ HandsTyped' /\ HandsAreFresh' /\ CustomersCounted'
    BY <1>1 DEF FlowInv, FlowTypeOK, HandsTyped, HandsAreFresh, CustomersCounted, IsResume
  <2> QED BY <1>1, <2>1, ElsewhereStep
<1>2. CASE FactChanges
  BY <1>1, <1>2 DEF FactChanges
<1>3. CASE UNCHANGED flowVars
  BY <1>1, <1>3 DEF flowVars
<1> QED BY <1>2, <1>3, ReadStep, MoveStep, StatusStep, ConvertStep, UnlinkStep DEF FlowNext

LEMMA FlowSound ==
  ASSUME FlowInv
  PROVE  FlowTypeOK /\ FlowIsSound
<1>1. OneCustomer
  BY DEF FlowInv, FlowTypeOK, CustomersCounted, OneCustomer
<1> QED BY <1>1 DEF FlowInv, FlowIsSound

LEMMA FlowFinishes ==
  ASSUME FlowInv, [FlowNext]_flowVars, ~overlap', ~project.legacy, Terminal(project.stage)
  PROVE  project'.stage = project.stage
<1>0. FlowTypeOK /\ HandsAreFresh /\ project \in ProjectRow
  BY DEF FlowInv, FlowTypeOK
<1>1. ASSUME NEW u \in Users, MoveWrite(u)
      PROVE  FALSE
  <2>1. ~overlap
    BY <1>1 DEF MoveWrite, Written
  <2> QED BY <1>0, <1>1, <2>1 DEF MoveWrite, HandsAreFresh
<1>2. ASSUME NEW u \in Users, StatusWrite(u)
      PROVE  project'.stage = project.stage
  BY <1>0, <1>2 DEF StatusWrite, Advanced, ProjectRow
<1>3. CASE \/ Unlink \/ \E u \in Users : ConvertWrite(u)
  BY <1>0, <1>3 DEF Unlink, ConvertWrite, ProjectRow
<1>4. CASE \/ FactChanges \/ UNCHANGED flowVars
           \/ \E u \in Users : \/ StatusRead(u) \/ ConvertRead(u) \/ GiveUp(u) \/ \E t \in Stages : MoveRead(u, t)
  BY <1>4 DEF FactChanges, flowVars, StatusRead, ConvertRead, GiveUp, MoveRead
<1> QED BY <1>1, <1>2, <1>3, <1>4 DEF FlowNext

(***************************************************************************)
(* Variations                                                              *)
(***************************************************************************)

(* What a request has in hand at each of its steps.                        *)
InHand(h) ==
  \/ h \in [step : {"idle", "check"}]
  \/ h \in [step : {"items"}, amount : Amounts]
  \/ h \in [step : {"edit"}, seen : VariationRow]
  \/ h \in [step : {"decide", "tell"}, target : Targets]

ClerksTyped == clerk = [c \in Clerks |-> clerk[c]] /\ \A c \in Clerks : InHand(clerk[c])

(* Unless requests overlapped, whoever has the variation in hand sees it   *)
(* as it is, and it has not left the statuses its request starts from.     *)
ClerksSee ==
  ~trouble.overlap =>
    \A c \in Clerks :
      /\ Doing(c, "items") => variation.status = "draft" /\ clerk[c].amount = variation.amount
      /\ Doing(c, "edit") => variation.status = "draft" /\ clerk[c].seen = variation
      /\ Doing(c, "decide") => /\ variation.status \in {"draft", "sent"}
                               /\ clerk[c].target \in Allowed[variation.status]

(* The lines are those of the totals, but for a request about to write.    *)
LinesFollow ==
  Undisturbed => variation.amount = lines \/ \E c \in Clerks : Doing(c, "items")

RateFollows == ~trouble.overlap => trouble.rateAlone \/ variation.at = variation.rate

(* An approval is told by the request that made it, and there is one.      *)
Approver(c) == Doing(c, "tell") /\ clerk[c].target = "approved"

ApprovalTold ==
  ~trouble.overlap =>
    /\ variation.dated <=> variation.status = "approved"
    /\ told["approved"] <= 1
    /\ variation.status # "approved" => told["approved"] = 0 /\ \A c \in Clerks : ~Approver(c)
    /\ \A c \in Clerks : Approver(c) => told["approved"] = 0 /\ \A d \in Clerks : Approver(d) => c = d

WorkInv ==
  /\ WorkTypeOK /\ IsFiniteSet(costs) /\ ClerksTyped /\ ClerksSee /\ LinesFollow /\ RateFollows /\ ApprovalTold

-----------------------------------------------------------------------------
LEMMA InitWork ==
  ASSUME WorkInit
  PROVE  WorkInv
<1>0. 0 \in Amounts /\ MaxTold \in Nat /\ MaxTold >= 1
  BY VariationsAssumption DEF VariationsAssumption
<1>1. PICK a \in Amounts, r \in Rates :
        /\ variation = [status |-> "none", amount |-> a, at |-> r, rate |-> r, dated |-> FALSE]
        /\ lines = a
  BY DEF WorkInit
<1>2. /\ variation \in VariationRow /\ variation.status = "none" /\ variation.amount = lines
      /\ variation.at = variation.rate /\ ~variation.dated /\ lines \in Amounts
  BY <1>1 DEF VariationRow
<1>3. \A c \in Clerks : clerk[c].step = "idle" /\ InHand(clerk[c])
  BY DEF WorkInit, Unoccupied, InHand
<1>4. /\ told \in [Triggers -> 0..MaxTold] /\ told["approved"] = 0
      /\ trouble \in [overlap : BOOLEAN, died : BOOLEAN, rateAlone : BOOLEAN]
  <2>1. told = [t \in Triggers |-> 0]
    BY DEF WorkInit
  <2>2. trouble = [overlap |-> FALSE, died |-> FALSE, rateAlone |-> FALSE]
    BY DEF WorkInit
  <2>3. told \in [Triggers -> 0..MaxTold] /\ told["approved"] = 0
    BY <1>0, <2>1 DEF Triggers
  <2> QED BY <2>2, <2>3
<1>5. costs \subseteq Entries /\ unseen \subseteq costs /\ IsFiniteSet(costs) /\ clerk = [c \in Clerks |-> clerk[c]]
  BY FS_EmptySet DEF WorkInit
<1>6. WorkTypeOK
  BY <1>2, <1>3, <1>4, <1>5 DEF WorkTypeOK
<1>7. ClerksTyped /\ ClerksSee
  BY <1>3, <1>5 DEF ClerksTyped, ClerksSee, Doing
<1>8. LinesFollow /\ RateFollows
  BY <1>2 DEF LinesFollow, RateFollows
<1>9. ApprovalTold
  BY <1>2, <1>3, <1>4 DEF ApprovalTold, Approver, Doing
<1> QED BY <1>5, <1>6, <1>7, <1>8, <1>9 DEF WorkInv

LEMMA Resumed ==
  ASSUME ClerksTyped, NEW c \in Clerks, NEW next, Resume(c, next)
  PROVE  /\ clerk' = [d \in Clerks |-> clerk'[d]]
         /\ \A d \in Clerks : clerk'[d] = IF d = c THEN next ELSE clerk[d]
BY DEF ClerksTyped, Resume

(* A request writes while nobody else has the variation in hand, or the    *)
(* requests overlap: what there is to show is about this request alone.    *)
LEMMA Alone ==
  ASSUME WorkInv, NEW c \in Clerks, NEW next, Resume(c, next), InHand(next),
         trouble'.overlap <=> (trouble.overlap \/ Clashes(c))
  PROVE  /\ ClerksTyped' /\ \A d \in Clerks : clerk'[d] = IF d = c THEN next ELSE clerk[d]
         /\ \A d \in Clerks : clerk'[d].step \in {"idle", "items", "edit", "decide", "tell", "check"}
         /\ ~trouble'.overlap =>
              ~trouble.overlap /\ \A d \in Clerks \ {c} : clerk'[d].step \notin {"items", "edit", "decide"}
<1>1. ClerksTyped
  BY DEF WorkInv
<1>2. /\ clerk' = [d \in Clerks |-> clerk'[d]]
      /\ \A d \in Clerks : clerk'[d] = IF d = c THEN next ELSE clerk[d]
  BY <1>1, Resumed
<1>3. \A d \in Clerks : InHand(clerk'[d])
  BY <1>1, <1>2 DEF ClerksTyped
<1>4. ClerksTyped'
  BY <1>2, <1>3 DEF ClerksTyped
<1>5. \A h : InHand(h) => h.step \in {"idle", "items", "edit", "decide", "tell", "check"}
  BY DEF InHand
<1>6. ASSUME ~trouble'.overlap, NEW d \in Clerks \ {c}
      PROVE  clerk'[d].step \notin {"items", "edit", "decide"}
  <2>1. ~Loaded(d)
    BY <1>6 DEF Clashes
  <2> QED BY <1>2, <2>1 DEF Loaded, Doing
<1> QED BY <1>2, <1>3, <1>4, <1>5, <1>6

Troubles == [overlap : BOOLEAN, died : BOOLEAN, rateAlone : BOOLEAN]

LEMMA TroubleStep ==
  ASSUME trouble \in Troubles, NEW c \in Clerks,
         \/ trouble' = [trouble EXCEPT !.overlap = @ \/ Clashes(c)]
         \/ trouble' = [trouble EXCEPT !.overlap = @ \/ Clashes(c), !.rateAlone = TRUE]
  PROVE  /\ trouble' \in Troubles /\ (trouble'.overlap <=> (trouble.overlap \/ Clashes(c)))
         /\ trouble'.died = trouble.died
         /\ \/ trouble'.rateAlone = trouble.rateAlone /\ trouble' = [trouble EXCEPT !.overlap = @ \/ Clashes(c)]
            \/ trouble'.rateAlone
<1>1. PICK b \in BOOLEAN : b = (trouble.overlap \/ Clashes(c))
  BY Zenon
<1>2. \/ trouble' = [trouble EXCEPT !.overlap = b] /\ trouble' = [trouble EXCEPT !.overlap = @ \/ Clashes(c)]
      \/ trouble' = [trouble EXCEPT !.overlap = b, !.rateAlone = TRUE]
  BY <1>1
<1>3. /\ trouble' \in Troubles /\ trouble'.overlap = b /\ trouble'.died = trouble.died
      /\ \/ trouble'.rateAlone = trouble.rateAlone /\ trouble' = [trouble EXCEPT !.overlap = @ \/ Clashes(c)]
         \/ trouble'.rateAlone
  <2> HIDE <1>1
  <2> QED BY <1>2 DEF Troubles
<1> QED BY <1>1, <1>3

LEMMA ItemsStep ==
  ASSUME WorkInv, NEW c \in Clerks, WriteItems(c)
  PROVE  WorkInv'
<1>0. /\ WorkTypeOK /\ ClerksTyped /\ ClerksSee /\ trouble \in Troubles
  BY DEF WorkInv, WorkTypeOK, Troubles
<1>1. /\ clerk[c].step = "items" /\ lines' = clerk[c].amount /\ Resume(c, Unoccupied)
      /\ trouble' = [trouble EXCEPT !.overlap = @ \/ Clashes(c)] /\ UNCHANGED <<variation, costs, unseen, told>>
  BY DEF WriteItems, Doing
<1>2. InHand(Unoccupied) /\ Unoccupied.step = "idle"
  BY DEF InHand, Unoccupied
<1>3. /\ trouble' \in Troubles /\ (trouble'.overlap <=> (trouble.overlap \/ Clashes(c)))
      /\ trouble'.died = trouble.died /\ (trouble'.rateAlone \/ ~trouble.rateAlone)
  BY <1>0, <1>1, TroubleStep
<1>4. /\ ClerksTyped' /\ \A d \in Clerks : clerk'[d] = IF d = c THEN Unoccupied ELSE clerk[d]
      /\ \A d \in Clerks : clerk'[d].step \in {"idle", "items", "edit", "decide", "tell", "check"}
      /\ ~trouble'.overlap =>
           ~trouble.overlap /\ \A d \in Clerks \ {c} : clerk'[d].step \notin {"items", "edit", "decide"}
  BY <1>1, <1>2, <1>3, Alone
<1>5. clerk[c].amount \in Amounts
  BY <1>0, <1>1 DEF ClerksTyped, InHand
<1>6. WorkTypeOK' /\ IsFiniteSet(costs)'
  BY <1>0, <1>1, <1>3, <1>4, <1>5 DEF WorkInv, WorkTypeOK, Troubles
<1>7. ClerksSee'
  BY <1>2, <1>4 DEF ClerksSee, Doing
<1>8. LinesFollow'
  BY <1>0, <1>1, <1>4 DEF ClerksSee, LinesFollow, Undisturbed, Doing
<1>9. RateFollows'
  BY <1>1, <1>3, <1>4 DEF WorkInv, RateFollows
<1>10. ApprovalTold'
  <2>1. \A d \in Clerks : Approver(d)' => Approver(d)
    BY <1>2, <1>4 DEF Approver, Doing
  <2> QED BY <1>1, <1>4, <2>1 DEF WorkInv, ApprovalTold
<1> QED BY <1>4, <1>6, <1>7, <1>8, <1>9, <1>10 DEF WorkInv

LEMMA EditStep ==
  ASSUME WorkInv, NEW c \in Clerks, NEW rate \in Rates, EditWrite(c, rate)
  PROVE  WorkInv'
<1>0. /\ WorkTypeOK /\ ClerksTyped /\ ClerksSee /\ trouble \in Troubles /\ variation \in VariationRow
  BY DEF WorkInv, WorkTypeOK, Troubles
<1>1. clerk[c].step = "edit" /\ UNCHANGED <<lines, costs, unseen, told>>
  BY DEF EditWrite, Doing
<1>2. clerk[c].seen \in VariationRow
  BY <1>0, <1>1 DEF ClerksTyped, InHand
<1>3. InHand(Unoccupied) /\ Unoccupied.step = "idle"
  BY DEF InHand, Unoccupied
(* What is common to both kinds of edit: the request goes to next.         *)
<1>4. ASSUME NEW next, Resume(c, next), InHand(next), next.step \in {"idle", "items"},
             ~trouble.overlap /\ next.step = "items" => next.amount = variation'.amount,
             \/ trouble' = [trouble EXCEPT !.overlap = @ \/ Clashes(c)]
             \/ trouble' = [trouble EXCEPT !.overlap = @ \/ Clashes(c), !.rateAlone = TRUE],
             variation' \in VariationRow, variation'.status = variation.status,
             variation'.dated = variation.dated,
             ~trouble.overlap => \/ next.step = "items" /\ variation'.at = variation'.rate
                                 \/ variation'.amount = variation.amount /\ trouble'.rateAlone
      PROVE  WorkInv'
  <2>1. /\ trouble' \in Troubles /\ (trouble'.overlap <=> (trouble.overlap \/ Clashes(c)))
        /\ trouble'.died = trouble.died
    BY <1>0, <1>4, TroubleStep
  <2>2. /\ ClerksTyped' /\ \A d \in Clerks : clerk'[d] = IF d = c THEN next ELSE clerk[d]
        /\ \A d \in Clerks : clerk'[d].step \in {"idle", "items", "edit", "decide", "tell", "check"}
        /\ ~trouble'.overlap =>
             ~trouble.overlap /\ \A d \in Clerks \ {c} : clerk'[d].step \notin {"items", "edit", "decide"}
    BY <1>4, <2>1, Alone
  <2>3. WorkTypeOK' /\ IsFiniteSet(costs)'
    BY <1>0, <1>1, <1>4, <2>1, <2>2 DEF WorkInv, WorkTypeOK, Troubles
  <2>4. ClerksSee'
    BY <1>0, <1>1, <1>4, <2>2 DEF ClerksSee, Doing
  <2>5. LinesFollow'
    <3> SUFFICES ASSUME ~trouble'.overlap, ~trouble'.died, \A d \in Clerks : clerk'[d].step # "items"
                 PROVE  variation'.amount = lines'
      BY DEF LinesFollow, Undisturbed, Doing
    <3>1. ~trouble.overlap /\ ~trouble.died /\ variation'.amount = variation.amount
      BY <1>4, <2>1, <2>2
    <3>2. \A d \in Clerks : ~Doing(d, "items")
      BY <1>1, <2>2 DEF Doing
    <3> QED BY <1>1, <3>1, <3>2 DEF WorkInv, LinesFollow, Undisturbed
  <2>6. RateFollows'
    BY <1>4, <2>2 DEF RateFollows
  <2>7. ApprovalTold'
    <3>1. \A d \in Clerks : Approver(d)' => Approver(d)
      BY <1>4, <2>2 DEF Approver, Doing
    <3> QED BY <1>1, <1>4, <2>2, <3>1 DEF WorkInv, ApprovalTold
  <2> QED BY <2>2, <2>3, <2>4, <2>5, <2>6, <2>7 DEF WorkInv
<1>5. ~trouble.overlap => clerk[c].seen = variation
  BY <1>0, <1>1 DEF ClerksSee, Doing
<1>6. CASE /\ rate # clerk[c].seen.rate /\ variation' = [variation EXCEPT !.rate = rate] /\ Resume(c, Unoccupied)
           /\ trouble' = [trouble EXCEPT !.overlap = @ \/ Clashes(c), !.rateAlone = TRUE]
  <2>1. /\ variation' \in VariationRow /\ variation'.status = variation.status
        /\ variation'.dated = variation.dated /\ variation'.amount = variation.amount
    BY <1>0, <1>6 DEF VariationRow
  <2>2. trouble'.rateAlone
    BY <1>0, <1>6 DEF Troubles
  <2> QED BY <1>3, <1>4, <1>6, <2>1, <2>2
<1>7. ASSUME NEW a \in Amounts,
             LET seen == clerk[c].seen IN
               variation' = [variation EXCEPT
                 !.amount = Set(a, seen.amount, @),
                 !.at     = IF <<a, rate>> = <<seen.amount, seen.at>> THEN @ ELSE rate,
                 !.rate   = Set(rate, seen.rate, @)],
             Resume(c, [step |-> "items", amount |-> a]),
             trouble' = [trouble EXCEPT !.overlap = @ \/ Clashes(c)]
      PROVE  WorkInv'
  <2> DEFINE next == [step |-> "items", amount |-> a]
             seen == clerk[c].seen
  <2>1. InHand(next) /\ next.step = "items" /\ next.amount = a
    BY DEF InHand
  <2>2. /\ variation'.amount = Set(a, seen.amount, variation.amount)
        /\ variation'.at = IF a = seen.amount /\ rate = seen.at THEN variation.at ELSE rate
        /\ variation'.rate = Set(rate, seen.rate, variation.rate)
        /\ variation'.status = variation.status /\ variation'.dated = variation.dated
        /\ variation' \in VariationRow
    BY <1>0, <1>7 DEF VariationRow, Set
  <2>3. ~trouble.overlap => variation'.at = variation'.rate /\ variation'.amount = a
    BY <1>5, <2>2 DEF Set
  <2> HIDE DEF next
  <2> QED BY <1>4, <1>7, <2>1, <2>2, <2>3 DEF next
<1> QED BY <1>6, <1>7 DEF EditWrite

LEMMA DecideStep ==
  ASSUME WorkInv, NEW c \in Clerks, DecideWrite(c)
  PROVE  WorkInv'
<1>0. /\ WorkTypeOK /\ ClerksTyped /\ ClerksSee /\ ApprovalTold /\ trouble \in Troubles
      /\ variation \in VariationRow
  BY DEF WorkInv, WorkTypeOK, Troubles
<1> DEFINE target == clerk[c].target
           next == [step |-> "tell", target |-> target]
<1>1. /\ clerk[c].step = "decide" /\ UNCHANGED <<lines, costs, unseen, told>> /\ Resume(c, next)
      /\ trouble' = [trouble EXCEPT !.overlap = @ \/ Clashes(c)]
  BY DEF DecideWrite, Doing
<1>2. target \in Targets
  BY <1>0, <1>1 DEF ClerksTyped, InHand
<1>3. /\ InHand(next) /\ next.step = "tell" /\ next.target = target
  BY <1>2 DEF InHand
<1>4. /\ variation' \in VariationRow /\ variation'.status = target /\ variation'.amount = variation.amount
      /\ variation'.at = variation.at /\ variation'.rate = variation.rate
      /\ variation'.dated <=> (variation.dated \/ target = "approved")
  <2>1. PICK b \in BOOLEAN : b = (variation.dated \/ target = "approved")
    BY Zenon
  <2>2. variation' = [variation EXCEPT !.status = target, !.dated = b]
    BY <2>1 DEF DecideWrite
  <2>3. target \in VariationStatuses
    BY <1>2 DEF Targets, VariationStatuses
  <2>4. /\ variation' \in VariationRow /\ variation'.status = target /\ variation'.amount = variation.amount
        /\ variation'.at = variation.at /\ variation'.rate = variation.rate /\ variation'.dated = b
    <3> HIDE <2>1
    <3> QED BY <1>0, <2>2, <2>3 DEF VariationRow
  <2> QED BY <2>1, <2>4
<1> HIDE DEF next, target
<1>5. /\ trouble' \in Troubles /\ (trouble'.overlap <=> (trouble.overlap \/ Clashes(c)))
      /\ trouble'.died = trouble.died /\ (trouble'.rateAlone \/ ~trouble.rateAlone)
  BY <1>0, <1>1, TroubleStep
<1>6. /\ ClerksTyped' /\ \A d \in Clerks : clerk'[d] = IF d = c THEN next ELSE clerk[d]
      /\ \A d \in Clerks : clerk'[d].step \in {"idle", "items", "edit", "decide", "tell", "check"}
      /\ ~trouble'.overlap =>
           ~trouble.overlap /\ \A d \in Clerks \ {c} : clerk'[d].step \notin {"items", "edit", "decide"}
  BY <1>1, <1>3, <1>5, Alone
<1>7. WorkTypeOK' /\ IsFiniteSet(costs)'
  BY <1>0, <1>1, <1>4, <1>5, <1>6 DEF WorkInv, WorkTypeOK, Troubles
<1>8. ClerksSee'
  BY <1>3, <1>6 DEF ClerksSee, Doing
<1>9. LinesFollow'
  <2> SUFFICES ASSUME ~trouble'.overlap, ~trouble'.died
               PROVE  variation'.amount = lines'
    BY DEF LinesFollow, Undisturbed
  <2>1. ~trouble.overlap /\ ~trouble.died /\ variation.status \in {"draft", "sent"}
    BY <1>0, <1>1, <1>5, <1>6 DEF ClerksSee, Doing
  <2>2. \A d \in Clerks : ~Doing(d, "items")
    BY <1>1, <1>6 DEF Doing
  <2> QED BY <1>1, <1>4, <2>1, <2>2 DEF WorkInv, LinesFollow, Undisturbed
<1>10. RateFollows'
  BY <1>4, <1>5, <1>6 DEF WorkInv, RateFollows
<1>11. ApprovalTold'
  <2> SUFFICES ASSUME ~trouble'.overlap
               PROVE  ApprovalTold'
    BY DEF ApprovalTold
  <2>1. ~trouble.overlap /\ variation.status \in {"draft", "sent"}
    BY <1>0, <1>1, <1>6 DEF ClerksSee, Doing
  <2>2. told["approved"] = 0 /\ ~variation.dated /\ \A d \in Clerks : ~Approver(d)
    BY <1>0, <2>1 DEF ApprovalTold
  <2>3. \A d \in Clerks : Approver(d)' => d = c /\ target = "approved"
    BY <1>3, <1>6, <2>2 DEF Approver, Doing
  <2> QED BY <1>1, <1>4, <2>2, <2>3 DEF ApprovalTold
<1> QED BY <1>6, <1>7, <1>8, <1>9, <1>10, <1>11 DEF WorkInv

LEMMA CreateStep ==
  ASSUME WorkInv, NEW c \in Clerks, NEW a \in Amounts, Create(c, a)
  PROVE  WorkInv'
<1>0. /\ WorkTypeOK /\ ClerksTyped /\ ClerksSee /\ ApprovalTold /\ trouble \in Troubles
      /\ variation \in VariationRow /\ 0 \in Amounts
  BY VariationsAssumption DEF WorkInv, WorkTypeOK, Troubles, VariationsAssumption
<1> DEFINE next == [step |-> "items", amount |-> a]
<1>1. /\ clerk[c].step = "idle" /\ variation.status = "none" /\ Resume(c, next) /\ lines' = 0
      /\ variation' = [variation EXCEPT !.status = "draft", !.amount = a] /\ UNCHANGED <<costs, unseen, told, trouble>>
  BY DEF Create, Doing
<1>2. InHand(next) /\ next.step = "items" /\ next.amount = a
  BY DEF InHand
<1> HIDE DEF next
<1>3. /\ variation' \in VariationRow /\ variation'.status = "draft" /\ variation'.amount = a
      /\ variation'.dated = variation.dated /\ variation'.at = variation.at /\ variation'.rate = variation.rate
  BY <1>0, <1>1 DEF VariationRow, VariationStatuses
<1>4. /\ clerk' = [d \in Clerks |-> clerk'[d]]
      /\ \A d \in Clerks : clerk'[d] = IF d = c THEN next ELSE clerk[d]
  BY <1>0, <1>1, Resumed
<1>5. ClerksTyped' /\ \A d \in Clerks : clerk'[d].step \in {"idle", "items", "edit", "decide", "tell", "check"}
  <2>1. \A d \in Clerks : InHand(clerk'[d])
    BY <1>0, <1>2, <1>4 DEF ClerksTyped
  <2>2. \A d \in Clerks : clerk'[d].step \in {"idle", "items", "edit", "decide", "tell", "check"}
    BY <2>1 DEF InHand
  <2> QED BY <1>4, <2>1, <2>2 DEF ClerksTyped
<1>6. WorkTypeOK' /\ IsFiniteSet(costs)'
  BY <1>0, <1>1, <1>3, <1>5 DEF WorkInv, WorkTypeOK
<1>7. ClerksSee'
  <2> SUFFICES ASSUME ~trouble.overlap, NEW d \in Clerks \ {c}
               PROVE  clerk'[d].step \notin {"items", "edit", "decide"}
    BY <1>1, <1>2, <1>3, <1>4 DEF ClerksSee, Doing
  <2> QED BY <1>0, <1>1, <1>4 DEF ClerksSee, Doing
<1>8. LinesFollow'
  BY <1>2, <1>4 DEF LinesFollow, Doing
<1>9. RateFollows'
  BY <1>1, <1>3 DEF WorkInv, RateFollows
<1>10. ApprovalTold'
  <2>1. \A d \in Clerks : Approver(d)' => Approver(d)
    BY <1>2, <1>4 DEF Approver, Doing
  <2> QED BY <1>0, <1>1, <1>3, <2>1 DEF ApprovalTold
<1> QED BY <1>5, <1>6, <1>7, <1>8, <1>9, <1>10 DEF WorkInv

(* Steps that leave the variation and its lines alone: a request that was  *)
(* not telling an approval does not begin to.                              *)
LEMMA TalkStep ==
  ASSUME WorkInv, UNCHANGED <<variation, lines>>, ClerksTyped', ClerksSee',
         costs' \subseteq Entries, unseen' \subseteq costs', IsFiniteSet(costs'), told' \in [Triggers -> 0..MaxTold],
         trouble' \in Troubles, trouble'.overlap = trouble.overlap, trouble'.rateAlone = trouble.rateAlone,
         trouble.died => trouble'.died,
         ~trouble'.died => \A c \in Clerks : Doing(c, "items") => clerk'[c].step = "items",
         ~trouble.overlap => \A c \in Clerks : Approver(c)' => Approver(c) /\ told'["approved"] = told["approved"],
         \/ told'["approved"] = told["approved"]
         \/ told'["approved"] = told["approved"] + 1 /\ \E c \in Clerks : Approver(c)
  PROVE  WorkInv'
<1>1. WorkTypeOK'
  <2>1. \A c \in Clerks : InHand(clerk'[c])
    BY DEF ClerksTyped
  <2>2. \A c \in Clerks : clerk'[c].step \in {"idle", "items", "edit", "decide", "tell", "check"}
    BY <2>1 DEF InHand
  <2> QED BY <2>2 DEF WorkInv, WorkTypeOK, Troubles
<1>2. LinesFollow' /\ RateFollows'
  BY DEF WorkInv, LinesFollow, RateFollows, Undisturbed, Doing
<1>3. ApprovalTold'
  BY DEF WorkInv, ApprovalTold
<1> QED BY <1>1, <1>2, <1>3 DEF WorkInv

(* One request goes on to what it may have in hand.                        *)
MayGoOn(c, next) ==
  /\ InHand(next) /\ next.step # "items" /\ ~Doing(c, "items")
  /\ next.step = "edit" => variation.status = "draft" /\ next.seen = variation
  /\ next.step = "decide" => variation.status \in {"draft", "sent"} /\ next.target \in Allowed[variation.status]
  /\ next.step = "tell" => next.target # "approved"

\* Triggers are counted: an approval's, when its approver tells it.
CountsUp(c) ==
  /\ told' \in [Triggers -> 0..MaxTold]
  /\ \/ told'["approved"] = told["approved"]
     \/ Approver(c) /\ told'["approved"] = told["approved"] + 1

LEMMA GoesOn ==
  ASSUME WorkInv, UNCHANGED <<variation, lines, trouble>>, NEW c \in Clerks, NEW next, Resume(c, next),
         MayGoOn(c, next), CountsUp(c), costs' \subseteq Entries, unseen' \subseteq costs',
         IsFiniteSet(costs')
  PROVE  WorkInv'
<1>0. /\ ClerksTyped /\ ClerksSee /\ ApprovalTold /\ trouble \in Troubles
  BY DEF WorkInv, WorkTypeOK, Troubles
<1>1. /\ clerk' = [d \in Clerks |-> clerk'[d]]
      /\ \A d \in Clerks : clerk'[d] = IF d = c THEN next ELSE clerk[d]
  BY <1>0, Resumed
<1>2. ClerksTyped'
  <2>1. \A d \in Clerks : InHand(clerk'[d])
    BY <1>0, <1>1 DEF ClerksTyped, MayGoOn
  <2> QED BY <1>1, <2>1 DEF ClerksTyped
<1>3. ClerksSee'
  BY <1>0, <1>1 DEF ClerksSee, Doing, MayGoOn
<1>4. \A d \in Clerks : Doing(d, "items") => clerk'[d].step = "items"
  BY <1>1 DEF Doing, MayGoOn
<1>5. \A d \in Clerks : Approver(d)' => d # c /\ Approver(d)
  BY <1>1 DEF Approver, Doing, MayGoOn
<1>6. ~trouble.overlap => \A d \in Clerks : Approver(d)' => Approver(d) /\ told'["approved"] = told["approved"]
  BY <1>0, <1>5 DEF ApprovalTold, CountsUp
<1> QED BY <1>0, <1>2, <1>3, <1>4, <1>6, TalkStep DEF CountsUp

LEMMA TalksStep ==
  ASSUME WorkInv, NEW c \in Clerks,
         \/ EditRead(c) \/ Tell(c) \/ CheckRisk(c)
         \/ \E t \in Targets : DecideRead(c, t)
         \/ \E e \in Entries : CostWrite(c, e)
  PROVE  WorkInv'
<1>0. /\ WorkTypeOK /\ ClerksTyped /\ IsFiniteSet(costs) /\ costs \subseteq Entries /\ unseen \subseteq costs
      /\ variation \in VariationRow /\ told \in [Triggers -> 0..MaxTold] /\ MaxTold \in Nat /\ MaxTold >= 1
  BY VariationsAssumption DEF WorkInv, WorkTypeOK, VariationsAssumption
<1>1. InHand(Unoccupied) /\ Unoccupied.step = "idle"
  BY DEF InHand, Unoccupied
<1>a. UNCHANGED told => \A d \in Clerks : CountsUp(d)
  BY <1>0 DEF CountsUp
<1>2. CASE EditRead(c)
  <2> DEFINE next == [step |-> "edit", seen |-> variation]
  <2>1. InHand(next) /\ next.step = "edit" /\ next.seen = variation
    BY <1>0 DEF InHand
  <2>2. Resume(c, next) /\ variation.status = "draft" /\ UNCHANGED <<variation, lines, costs, unseen, told, trouble>>
        /\ ~Doing(c, "items")
    BY <1>2 DEF EditRead, Doing
  <2> HIDE DEF next
  <2>3. MayGoOn(c, next)
    BY <2>1, <2>2 DEF MayGoOn
  <2> QED BY <1>0, <1>a, <2>2, <2>3, GoesOn
<1>3. ASSUME NEW t \in Targets, DecideRead(c, t)
      PROVE  WorkInv'
  <2> DEFINE decide == [step |-> "decide", target |-> t]
             tell == [step |-> "tell", target |-> t]
  <2>1. /\ InHand(decide) /\ decide.step = "decide" /\ decide.target = t
        /\ InHand(tell) /\ tell.step = "tell" /\ tell.target = t
    BY DEF InHand
  <2>2. /\ UNCHANGED <<variation, lines, costs, unseen, told, trouble>> /\ ~Doing(c, "items") /\ variation.status # "none"
        /\ \/ t \in Allowed[variation.status] /\ Resume(c, decide)
           \/ t # "approved" /\ Resume(c, tell)
    BY <1>3 DEF DecideRead, Doing
  <2>3. t \in Allowed[variation.status] => variation.status \in {"draft", "sent"}
    BY <1>0, <2>2 DEF Allowed, VariationRow, VariationStatuses
  <2> HIDE DEF decide, tell
  <2>4. CASE t \in Allowed[variation.status] /\ Resume(c, decide)
    <3>1. MayGoOn(c, decide)
      BY <2>1, <2>2, <2>3, <2>4 DEF MayGoOn
    <3> QED BY <1>0, <1>a, <2>2, <2>4, <3>1, GoesOn
  <2>5. CASE t # "approved" /\ Resume(c, tell)
    <3>1. MayGoOn(c, tell)
      BY <2>1, <2>2, <2>5 DEF MayGoOn
    <3> QED BY <1>0, <1>a, <2>2, <2>5, <3>1, GoesOn
  <2> QED BY <2>2, <2>4, <2>5
<1>4. CASE Tell(c)
  <2>1. /\ UNCHANGED <<variation, lines, costs, unseen, trouble>> /\ Resume(c, Unoccupied)
        /\ Doing(c, "tell") /\ ~Doing(c, "items")
    BY <1>4 DEF Tell, Doing
  <2>2. /\ told' \in [Triggers -> 0..MaxTold]
        /\ \/ told'["approved"] = told["approved"]
           \/ Approver(c) /\ told'["approved"] = told["approved"] + 1
    <3>1. CASE clerk[c].target = "void"
      BY <1>0, <1>4, <3>1 DEF Tell
    <3>2. CASE clerk[c].target # "void"
      <4>1. PICK t : t = clerk[c].target
        OBVIOUS
      <4>2. t \in Triggers
        BY <1>0, <2>1, <3>2, <4>1 DEF ClerksTyped, InHand, Doing, Targets, Triggers
      <4>3. told[t] < MaxTold /\ told' = [told EXCEPT ![t] = @ + 1]
        BY <1>4, <3>2, <4>1 DEF Tell
      <4>4. told[t] + 1 \in 0..MaxTold /\ "approved" \in Triggers
        BY <1>0, <4>2, <4>3 DEF Triggers
      <4> QED BY <1>0, <2>1, <4>1, <4>2, <4>3, <4>4 DEF Approver
    <3> QED BY <3>1, <3>2
  <2>3. MayGoOn(c, Unoccupied) /\ CountsUp(c)
    BY <1>1, <2>1, <2>2 DEF MayGoOn, CountsUp
  <2> QED BY <1>0, <2>1, <2>3, GoesOn
<1>5. CASE CheckRisk(c)
  <2>1. /\ UNCHANGED <<variation, lines, costs, trouble>> /\ unseen' = {} /\ Resume(c, Unoccupied)
        /\ ~Doing(c, "items") /\ told' = [told EXCEPT !["risk"] = IF Risky(costs) THEN 1 ELSE @]
    BY <1>5 DEF CheckRisk, Doing
  <2>2. told' \in [Triggers -> 0..MaxTold] /\ told'["approved"] = told["approved"]
    <3>1. PICK k : k = IF Risky(costs) THEN 1 ELSE told["risk"]
      OBVIOUS
    <3>2. k \in 0..MaxTold
      BY <1>0, <3>1 DEF Triggers
    <3>3. told' = [told EXCEPT !["risk"] = k]
      BY <2>1, <3>1
    <3> HIDE <2>1, <3>1
    <3> QED BY <1>0, <3>2, <3>3 DEF Triggers
  <2>3. MayGoOn(c, Unoccupied) /\ CountsUp(c)
    BY <1>1, <2>1, <2>2 DEF MayGoOn, CountsUp
  <2> QED BY <1>0, <2>1, <2>3, GoesOn
<1>6. ASSUME NEW e \in Entries, CostWrite(c, e)
      PROVE  WorkInv'
  <2> DEFINE next == [step |-> "check"]
  <2>1. InHand(next) /\ next.step = "check"
    BY DEF InHand
  <2>2. /\ UNCHANGED <<variation, lines, told, trouble>> /\ Resume(c, next) /\ ~Doing(c, "items")
        /\ costs' = costs \cup {e} /\ unseen' = unseen
    BY <1>6 DEF CostWrite, Doing
  <2>3. costs' \subseteq Entries /\ unseen' \subseteq costs' /\ IsFiniteSet(costs')
    BY <1>0, <2>2, FS_AddElement
  <2> HIDE DEF next
  <2>4. MayGoOn(c, next)
    BY <2>1, <2>2 DEF MayGoOn
  <2> QED BY <1>a, <2>2, <2>3, <2>4, GoesOn
<1> QED BY <1>2, <1>3, <1>4, <1>5, <1>6

LEMMA WorkKept ==
  ASSUME WorkInv, [WorkNext]_workVars
  PROVE  WorkInv'
<1>0. /\ WorkTypeOK /\ ClerksTyped /\ ClerksSee /\ IsFiniteSet(costs) /\ costs \subseteq Entries
      /\ unseen \subseteq costs /\ trouble \in Troubles /\ told \in [Triggers -> 0..MaxTold]
  BY DEF WorkInv, WorkTypeOK, Troubles
<1>1. CASE ClerksDie
  <2>1. /\ clerk' = [c \in Clerks |-> Unoccupied] /\ UNCHANGED <<variation, lines, costs, unseen, told>>
        /\ trouble' = [trouble EXCEPT !.died = @ \/ \E c \in Clerks : Doing(c, "items") \/ Doing(c, "check")]
    BY <1>1 DEF ClerksDie
  <2>2. InHand(Unoccupied) /\ Unoccupied.step = "idle"
    BY DEF InHand, Unoccupied
  <2>3. PICK b \in BOOLEAN : b = (trouble.died \/ \E c \in Clerks : Doing(c, "items") \/ Doing(c, "check"))
    BY Zenon
  <2>4. trouble' = [trouble EXCEPT !.died = b]
    BY <2>1, <2>3
  <2>5. /\ trouble' \in Troubles /\ trouble'.died = b /\ trouble'.overlap = trouble.overlap
        /\ trouble'.rateAlone = trouble.rateAlone
    <3> HIDE <2>1, <2>3
    <3> QED BY <1>0, <2>4 DEF Troubles
  <2>6. ClerksTyped' /\ ClerksSee'
    BY <2>1, <2>2 DEF ClerksTyped, ClerksSee, Doing
  <2>7. \A c \in Clerks : ~Approver(c)'
    BY <2>1, <2>2 DEF Approver, Doing
  <2>8. ~trouble'.died => \A c \in Clerks : ~Doing(c, "items")
    BY <2>3, <2>5
  <2>9. trouble.died => trouble'.died
    BY <2>3, <2>5
  <2> QED BY <1>0, <2>1, <2>5, <2>6, <2>7, <2>8, <2>9, TalkStep
<1>2. CASE \/ UNCHANGED workVars
           \/ \E e \in Entries : OrderCost(e) \/ CostDelete(e)
  <2>1. UNCHANGED <<variation, lines, told, clerk, trouble>>
    BY <1>2 DEF workVars, OrderCost, CostDelete
  <2>2. costs' \subseteq Entries /\ unseen' \subseteq costs' /\ IsFiniteSet(costs')
    <3>1. CASE UNCHANGED workVars
      BY <1>0, <3>1 DEF workVars
    <3>2. ASSUME NEW e \in Entries, OrderCost(e)
          PROVE  costs' \subseteq Entries /\ unseen' \subseteq costs' /\ IsFiniteSet(costs')
      BY <1>0, <3>2, FS_AddElement DEF OrderCost
    <3>3. ASSUME NEW e \in Entries, CostDelete(e)
          PROVE  costs' \subseteq Entries /\ unseen' \subseteq costs' /\ IsFiniteSet(costs')
      BY <1>0, <3>3, FS_RemoveElement DEF CostDelete
    <3> QED BY <1>2, <3>1, <3>2, <3>3
  <2>3. ClerksTyped' /\ ClerksSee'
    BY <1>0, <2>1 DEF ClerksTyped, ClerksSee, Doing
  <2>4. \A c \in Clerks : Approver(c)' => Approver(c)
    BY <2>1 DEF Approver, Doing
  <2>5. \A c \in Clerks : Doing(c, "items") => clerk'[c].step = "items"
    BY <2>1 DEF Doing
  <2> QED BY <1>0, <2>1, <2>2, <2>3, <2>4, <2>5, TalkStep
<1> QED BY <1>1, <1>2, ItemsStep, EditStep, DecideStep, CreateStep, TalksStep DEF WorkNext

LEMMA WorkSound ==
  ASSUME WorkInv
  PROVE  WorkTypeOK /\ VariationIsSound
<1>1. TotalsAreOfLines
  BY DEF WorkInv, ClerksSee, LinesFollow, RateFollows, TotalsAreOfLines, Undisturbed
<1>2. ApprovedOnce
  BY DEF WorkInv, ApprovalTold, ApprovedOnce
<1> QED BY <1>1, <1>2 DEF WorkInv, VariationIsSound

LEMMA DecisionStays ==
  ASSUME WorkInv, [WorkNext]_workVars, ~trouble'.overlap, variation.status \in {"approved", "rejected", "void"}
  PROVE  variation'.status = variation.status /\ variation'.amount = variation.amount
<1>0. ClerksSee /\ trouble \in Troubles
  BY DEF WorkInv, WorkTypeOK, Troubles
<1>1. ASSUME NEW c \in Clerks, DecideWrite(c) \/ \E r \in Rates : EditWrite(c, r)
      PROVE  FALSE
  <2>1. trouble'.overlap <=> (trouble.overlap \/ Clashes(c))
    BY <1>0, <1>1, TroubleStep DEF DecideWrite, EditWrite
  <2> QED BY <1>0, <1>1, <2>1 DEF DecideWrite, EditWrite, ClerksSee
<1>2. CASE UNCHANGED workVars
  BY <1>2 DEF workVars
<1> QED BY <1>1, <1>2 DEF WorkNext, ClerksDie, OrderCost, CostDelete, WriteItems, EditRead, Tell, CheckRisk, Create, DecideRead,
        CostWrite

-----------------------------------------------------------------------------
(* The costs that users recorded, and those of orders that a check has     *)
(* come across.                                                            *)
Noticed == costs \ unseen

(* A risk that nobody has told of is about to be found.                    *)
RiskFound == Risky(Noticed) /\ Undisturbed => told["risk"] = 1 \/ \E c \in Clerks : Doing(c, "check")

LEMMA WorthTypes ==
  ASSUME WorkInv
  PROVE  /\ Contract \in Nat /\ Forecast(Noticed) \in Nat
         /\ IsFiniteSet(Noticed) /\ Cardinality(Noticed) \in Nat
         /\ Contract >= Base /\ Base \in Nat /\ Cost \in Nat
         /\ variation.status # "approved" => Contract = Base
<1>1. /\ Base \in Nat /\ Cost \in Nat /\ variation.amount \in Nat
  BY VariationsAssumption DEF VariationsAssumption, WorkInv, WorkTypeOK, VariationRow
<1>2. IsFiniteSet(Noticed) /\ Cardinality(Noticed) \in Nat
  BY FS_Subset, FS_CardinalityType DEF WorkInv, Noticed
<1>3. Forecast(Noticed) \in Nat
  BY <1>1, <1>2 DEF Forecast
<1> QED BY <1>1, <1>2, <1>3 DEF Contract

(* Once there is a contract, only a cost makes its margin worse.           *)
LEMMA RiskStep ==
  ASSUME Base # 0, WorkInv, RiskFound, [WorkNext]_workVars
  PROVE  RiskFound'
<1>0. /\ ClerksTyped /\ ClerksSee /\ trouble \in Troubles /\ told \in [Triggers -> 0..MaxTold]
      /\ IsFiniteSet(costs)
  BY DEF WorkInv, WorkTypeOK, Troubles
<1>1. WorkInv'
  BY WorkKept
<1>2. /\ Contract \in Nat /\ Forecast(Noticed) \in Nat /\ Cardinality(Noticed) \in Nat
      /\ IsFiniteSet(Noticed) /\ Base \in Nat /\ Cost \in Nat
      /\ Contract >= Base /\ (variation.status # "approved" => Contract = Base)
  BY WorthTypes
<1>3. /\ Contract' \in Nat /\ Forecast(Noticed') \in Nat
      /\ Contract' >= Base /\ (variation'.status # "approved" => Contract' = Base)
  <2>1. variation'.amount \in Nat
    BY <1>1, VariationsAssumption DEF VariationsAssumption, WorkInv, WorkTypeOK, VariationRow
  <2>2. Cardinality(Noticed') \in Nat
    BY <1>1, FS_Subset, FS_CardinalityType DEF WorkInv, Noticed
  <2>3. Forecast(Noticed') \in Nat
    BY <1>2, <2>2 DEF Forecast
  <2> QED BY <1>2, <2>1, <2>2, <2>3 DEF Contract
<1>m. ASSUME Contract' >= Contract, Forecast(Noticed') <= Forecast(Noticed), Noticed = {} => Noticed' = {}
      PROVE  Risky(Noticed)' => Risky(Noticed)
  <2>1. \A c, d, f, g \in Nat : d >= c /\ g <= f /\ (d - g) * 100 < 15 * d => (c - f) * 100 < 15 * c
    OBVIOUS
  <2>2. Contract > 0
    BY <1>2
  <2>3. (Contract' - Forecast(Noticed')) * 100 < 15 * Contract' => (Contract - Forecast(Noticed)) * 100 < 15 * Contract
    BY <1>2, <1>3, <1>m, <2>1
  <2> QED BY <1>m, <2>2, <2>3 DEF Risky, Forecast
(* A contract worth no less, costs no higher: no risk that was not there.  *)
<1>4. ASSUME Contract' >= Contract, Forecast(Noticed') <= Forecast(Noticed), Noticed = {} => Noticed' = {},
             trouble'.overlap = trouble.overlap, trouble'.died = trouble.died,
             told'["risk"] = told["risk"], \A c \in Clerks : Doing(c, "check") => Doing(c, "check")'
      PROVE  RiskFound'
  <2>1. Risky(Noticed)' => Risky(Noticed)
    BY <1>4, <1>m
  <2> QED BY <1>4, <2>1 DEF RiskFound, Undisturbed
<1>a. ASSUME NEW c \in Clerks, NEW next, Resume(c, next), ~Doing(c, "check")
      PROVE  \A d \in Clerks : Doing(d, "check") => Doing(d, "check")'
  BY <1>0, <1>a, Resumed DEF Doing
(* The variation as it is.                                                 *)
<1>b. ASSUME variation' = variation, Noticed' = Noticed
      PROVE  Contract' >= Contract /\ Forecast(Noticed') <= Forecast(Noticed) /\ (Noticed = {} => Noticed' = {})
  <2>1. Contract' = Contract /\ Forecast(Noticed') = Forecast(Noticed)
    BY <1>b DEF Contract
  <2> QED BY <1>2, <1>b, <2>1
<1>5. CASE UNCHANGED workVars
  BY <1>4, <1>5, <1>b DEF workVars, Doing, Noticed
<1>6. CASE ClerksDie
  <2>1. PICK b \in BOOLEAN : b = (trouble.died \/ \E c \in Clerks : Doing(c, "items") \/ Doing(c, "check"))
    BY Zenon
  <2>2. trouble' = [trouble EXCEPT !.died = b] /\ UNCHANGED <<variation, costs, unseen, told>>
    BY <1>6, <2>1 DEF ClerksDie
  <2>3. trouble'.died = b /\ trouble'.overlap = trouble.overlap
    <3> HIDE <2>1
    <3> QED BY <1>0, <2>2 DEF Troubles
  <2>4. Risky(Noticed)' = Risky(Noticed)
    BY <2>2 DEF Risky, Contract, Forecast, Noticed
  <2> QED BY <2>1, <2>2, <2>3, <2>4 DEF RiskFound, Undisturbed
<1>7. ASSUME NEW e \in Entries, CostDelete(e)
      PROVE  RiskFound'
  <2>1. Noticed' = Noticed \ {e} /\ UNCHANGED <<variation, told, clerk, trouble>>
    BY <1>7 DEF CostDelete, Noticed
  <2>2. Cardinality(Noticed') = Cardinality(Noticed) \/ Cardinality(Noticed') = Cardinality(Noticed) - 1
    BY <1>2, <2>1, FS_RemoveElement
  <2>3. Forecast(Noticed') <= Forecast(Noticed)
    <3>1. \A n \in Nat, k \in Nat : k * (n - 1) <= k * n
      OBVIOUS
    <3> QED BY <1>2, <2>2, <3>1 DEF Forecast
  <2>4. Contract' = Contract
    BY <2>1 DEF Contract
  <2> QED BY <1>2, <1>4, <2>1, <2>3, <2>4 DEF Doing
<1>8. ASSUME NEW c \in Clerks, WriteItems(c) \/ DecideWrite(c) \/ \E r \in Rates : EditWrite(c, r)
      PROVE  RiskFound'
  <2>1. /\ trouble'.overlap <=> (trouble.overlap \/ Clashes(c))
        /\ trouble'.died = trouble.died
    BY <1>0, <1>8, TroubleStep DEF WriteItems, DecideWrite, EditWrite
  <2>2. UNCHANGED <<costs, unseen, told>> /\ ~Doing(c, "check") /\ \E next : Resume(c, next)
    BY <1>8 DEF WriteItems, DecideWrite, EditWrite, Doing
  <2>3. SUFFICES ASSUME ~trouble.overlap
                 PROVE  Contract' >= Contract
    <3>1. Noticed' = Noticed
      BY <2>2 DEF Noticed
    <3>2. \A d \in Clerks : Doing(d, "check") => Doing(d, "check")'
      BY <1>a, <2>2
    <3>3. CASE ~trouble.overlap
      <4>1. Risky(Noticed)' => Risky(Noticed)
        BY <1>2, <2>2, <2>3, <3>1, <3>3, <1>m
      <4> QED BY <2>1, <2>2, <3>2, <3>3, <4>1 DEF RiskFound, Undisturbed
    <3>4. CASE trouble.overlap
      BY <2>1, <3>4 DEF RiskFound, Undisturbed
    <3> QED BY <3>3, <3>4
  <2>4. CASE WriteItems(c)
    BY <1>2, <2>4 DEF WriteItems, Contract
  <2>5. CASE DecideWrite(c) \/ \E r \in Rates : EditWrite(c, r)
    <3>1. variation.status # "approved"
      BY <1>0, <2>3, <2>5 DEF DecideWrite, EditWrite, ClerksSee
    <3> QED BY <1>2, <1>3, <3>1
  <2> QED BY <1>8, <2>4, <2>5
<1>9. ASSUME NEW c \in Clerks, NEW a \in Amounts, Create(c, a)
      PROVE  RiskFound'
  <2>1. UNCHANGED <<costs, unseen, told, trouble>> /\ ~Doing(c, "check") /\ \E next : Resume(c, next)
        /\ variation.status # "approved"
    BY <1>9 DEF Create, Doing
  <2>2. \A d \in Clerks : Doing(d, "check") => Doing(d, "check")'
    BY <1>a, <2>1
  <2>3. Noticed' = Noticed
    BY <2>1 DEF Noticed
  <2> QED BY <1>2, <1>3, <1>4, <2>1, <2>2, <2>3
<1>10. ASSUME NEW c \in Clerks, EditRead(c) \/ Tell(c) \/ \E t \in Targets : DecideRead(c, t)
       PROVE  RiskFound'
  <2>1. UNCHANGED <<variation, costs, unseen, trouble>> /\ ~Doing(c, "check") /\ \E next : Resume(c, next)
    BY <1>10 DEF EditRead, Tell, DecideRead, Doing
  <2>2. told'["risk"] = told["risk"]
    <3>1. CASE Tell(c)
      <4>1. clerk[c].target \in Targets
        BY <1>0, <3>1 DEF Tell, Doing, ClerksTyped, InHand
      <4> QED BY <1>0, <3>1, <4>1 DEF Tell, Targets, Triggers
    <3> QED BY <1>10, <3>1 DEF EditRead, DecideRead
  <2>3. \A d \in Clerks : Doing(d, "check") => Doing(d, "check")'
    BY <1>a, <2>1
  <2>4. Noticed' = Noticed
    BY <2>1 DEF Noticed
  <2> QED BY <1>4, <1>b, <2>1, <2>2, <2>3, <2>4
(* After a check every cost has been noticed.                              *)
<1>11. ASSUME NEW c \in Clerks, CheckRisk(c)
       PROVE  RiskFound'
  <2>1. Risky(Noticed)' => Risky(costs)
    BY <1>11 DEF CheckRisk, Risky, Contract, Forecast, Noticed
  <2>2. Risky(costs) => told'["risk"] = 1
    BY <1>0, <1>11 DEF CheckRisk, Triggers
  <2> QED BY <2>1, <2>2 DEF RiskFound
<1>12. ASSUME NEW c \in Clerks, NEW e \in Entries, CostWrite(c, e)
       PROVE  RiskFound'
  <2>1. Doing(c, "check")'
    BY <1>0, <1>12, Resumed DEF CostWrite, Doing
  <2> QED BY <2>1 DEF RiskFound
(* What an order adds, nobody has noticed.                                 *)
<1>13. ASSUME NEW e \in Entries, OrderCost(e)
       PROVE  RiskFound'
  <2>1. Noticed' = Noticed /\ UNCHANGED <<variation, told, clerk, trouble>>
    BY <1>13 DEF OrderCost, Noticed, WorkInv, WorkTypeOK
  <2> QED BY <1>4, <1>b, <2>1 DEF Doing
<1> QED BY <1>5, <1>6, <1>7, <1>8, <1>9, <1>10, <1>11, <1>12, <1>13 DEF WorkNext

-----------------------------------------------------------------------------
(* Each behaviour follows the project or the change order.                 *)
WorksInv == FlowInv /\ WorkInv

LEMMA WorksKept ==
  /\ Init => WorksInv /\ RiskFound
  /\ WorksInv /\ [Next]_vars => WorksInv' /\ [FlowNext]_flowVars /\ [WorkNext]_workVars
<1>1. Init => FlowInit /\ WorkInit
  BY DEF Init, StillFlow, StillWork
<1>2. WorkInit => RiskFound
  BY DEF WorkInit, RiskFound, Risky, Noticed
<1>3. [Next]_vars => [FlowNext]_flowVars /\ [WorkNext]_workVars
  BY DEF Next, vars
<1> QED BY <1>1, <1>2, <1>3, InitFlow, InitWork, FlowKept, WorkKept DEF WorksInv

(* Rows, histories, costs and what a request has loaded have their types   *)
(* (WorksTypeOK).                                                          *)
THEOREM WorksAreTyped == Spec => []WorksTypeOK
<1>1. WorksInv => WorksTypeOK
  BY FlowSound, WorkSound DEF WorksInv, WorksTypeOK
<1> QED BY <1>1, WorksKept, PTL DEF Spec

(* In any template and any interleaving no stage is entered before the one *)
(* in front of it, and the two positions of a legacy project agree; and    *)
(* unless requests overlapped, a hold knows where to resume, an enquiry    *)
(* becomes one customer and the history is a chain of moves (FlowIsSound). *)
THEOREM FlowsAreSound == Spec => []FlowIsSound
<1>1. WorksInv => FlowIsSound
  BY FlowSound DEF WorksInv
<1> QED BY <1>1, WorksKept, PTL DEF Spec

(* What the customer sees of a change order adds up, and an approval is    *)
(* dated and told once, unless requests overlap or die half way            *)
(* (VariationIsSound).                                                     *)
THEOREM VariationsAddUp == Spec => []VariationIsSound
<1>1. WorksInv => VariationIsSound
  BY WorkSound DEF WorksInv
<1> QED BY <1>1, WorksKept, PTL DEF Spec

(* On a contract worth something, a margin put at risk by what users       *)
(* recorded, and by the costs of orders that a check has come across, has  *)
(* been reported as soon as no cost entry's check is under way             *)
(* (RiskIsTold): no other step makes that margin worse.  What an order has *)
(* added since the last check is not covered, nor is an approved quote     *)
(* worth nothing: an order's approval, and there a variation's, brings the *)
(* risk and checks nothing.                                                *)
THEOREM RisksAreTold ==
  ASSUME Base # 0
  PROVE  Spec => []RiskIsTold
<1>1. WorksInv /\ RiskFound /\ [Next]_vars => RiskFound'
  BY WorksKept, RiskStep DEF WorksInv
<1>2. RiskFound => RiskIsTold
  BY DEF RiskFound, RiskIsTold, Noticed
<1> QED BY <1>1, <1>2, WorksKept, PTL DEF Spec

(* A finished trade project stays where it is, and a decided change order  *)
(* as it is, unless requests overlap (FinalStays).                         *)
THEOREM FinalsStay == Spec => FinalStays
<1>1. WorksInv /\ [Next]_vars =>
        [~overlap' /\ ~project.legacy /\ Terminal(project.stage) => project'.stage = project.stage]_flowVars
  BY WorksKept, FlowFinishes DEF WorksInv
<1>2. WorksInv /\ [Next]_vars =>
        [~trouble'.overlap /\ variation.status \in {"approved", "rejected", "void"} =>
           variation'.status = variation.status /\ variation'.amount = variation.amount]_workVars
  BY WorksKept, DecisionStays DEF WorksInv
<1> QED BY <1>1, <1>2, WorksKept, PTL DEF Spec, FinalStays, FinishedTradeStays, DecisionsAreFinal
=============================================================================
