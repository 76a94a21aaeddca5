------------------------- MODULE AutomationsProofs -------------------------
(***************************************************************************)
(* Theorems about Automations, for any rules, occasions and evaluations,   *)
(* however they overlap, fail and die.                                     *)
(*                                                                         *)
(* A recorded success says something about rows that were written long     *)
(* before, by several evaluations perhaps.  Progress(e) is what ties them  *)
(* together: an evaluation that is past an action has its row, its own or  *)
(* another's.  It needs RowsFit, because a row found under the action's    *)
(* key may stand for another action once the rule has been edited.         *)
(***************************************************************************)
EXTENDS Automations, FiniteSetTheorems, TLAPS

Acting(e)  == At(e, "perform") \/ At(e, "mail")
Reached(e) == Acting(e) \/ At(e, "record")

\* What is said of action a, the i-th of its rule, is true.
Told(o, i, a, said, rows, quote) ==
  /\ said = "done" => \E m \in rows : m.occasion = o /\ m.index = i /\ m.action = a
  /\ said # "done" => a \in Mails
  /\ said = "answered" => ~quote.awaiting
  /\ said = "unreachable" => ~quote.reachable

\* A copy that says the quote has its answer is right, as answers are not taken back.
Progress(e) ==
  /\ ~At(e, "idle") => eval[e].occasion \in Occasions
  /\ At(e, "changed") \/ At(e, "lookup") => eval[e].said = <<>>
  /\ eval[e].copy = "answered" => ~subject.awaiting
  /\ Reached(e) => /\ eval[e].actions \in Rules /\ eval[e].index # 0
                   /\ Len(eval[e].said) = eval[e].index - 1
  /\ Acting(e) => eval[e].index <= Len(eval[e].actions)
  /\ At(e, "mail") => ActionOf(e) \in Mails /\ eval[e].copy = "awaiting"
  /\ At(e, "record") => eval[e].index > Len(eval[e].actions)
  /\ Reached(e) /\ ~rule.edited =>
       /\ eval[e].actions = rule.actions
       /\ \A i \in 1..Len(rule.actions) :
            i < eval[e].index =>
              Told(eval[e].occasion, i, rule.actions[i], eval[e].said[i], made, subject)

RowsFit ==
  ~rule.edited =>
    \A m \in made : m.index \in 1..Len(rule.actions) /\ m.action = rule.actions[m.index]

IInv ==
  /\ TypeOK
  /\ \A e \in Evals : Progress(e)
  /\ RowsFit
  /\ WorkIsDoneOnce
  /\ SucceededIsDone

-----------------------------------------------------------------------------
(* The actions of a rule are actions.                                      *)
LEMMA RuleActions ==
  ASSUME NEW a \in Rules, NEW i \in 1..Len(a)
  PROVE  a[i] \in Actions
BY AutomationsAssumption DEF AutomationsAssumption, Actions

LEMMA LenIsNat ==
  ASSUME NEW a \in Rules
  PROVE  Len(a) \in Nat
BY AutomationsAssumption DEF AutomationsAssumption

(* What is said of one more action.                                        *)
LEMMA Appended ==
  ASSUME NEW said \in Seq(Outcomes), NEW x \in Outcomes
  PROVE  /\ Append(said, x) \in Seq(Outcomes)
         /\ Len(Append(said, x)) = Len(said) + 1
         /\ Append(said, x)[Len(said) + 1] = x
         /\ \A i \in 1..Len(said) : Append(said, x)[i] = said[i]
OBVIOUS

(* What write does: it adds one row at most, under a key nobody had, and   *)
(* afterwards the action's row is there, or that of the action that had    *)
(* its key.                                                                *)
LEMMA Written ==
  ASSUME IInv, NEW e \in Evals, Acting(e), Write(e), UNCHANGED rule
  PROVE  /\ made \subseteq made'
         /\ made' \subseteq Row
         /\ RowsFit'
         /\ WorkIsDoneOnce'
         /\ ~rule.edited =>
              \E m \in made' : /\ m.occasion = eval[e].occasion
                               /\ m.index = eval[e].index
                               /\ m.action = ActionOf(e)
         /\ \A r \in made' \ made : r.action = ActionOf(e)
<1> DEFINE n == NewRow(e)
<1>1. /\ eval[e].occasion \in Occasions /\ eval[e].actions \in Rules
      /\ eval[e].index \in 1..Len(eval[e].actions)
      /\ ~rule.edited => eval[e].actions = rule.actions
  BY LenIsNat DEF IInv, Progress, Reached, Acting, At, TypeOK, Eval, Steps
<1>2. ActionOf(e) \in Actions
  BY <1>1, RuleActions DEF ActionOf
<1>3. CASE Keyed(e) # {}
  <2>1. made' = made
    BY <1>3 DEF Write
  <2>2. PICK r \in made : /\ r.occasion = eval[e].occasion /\ r.index = eval[e].index
    BY <1>3 DEF Keyed
  <2>3. ~rule.edited => r.action = ActionOf(e)
    BY <1>1, <2>2 DEF IInv, RowsFit, ActionOf
  <2> QED BY <2>1, <2>2, <2>3 DEF IInv, TypeOK, RowsFit, WorkIsDoneOnce
<1>4. CASE Keyed(e) = {}
  <2>1. made' = made \cup {n}
    BY <1>4 DEF Write
  <2>2. /\ n.occasion = eval[e].occasion /\ n.index = eval[e].index
        /\ n.action = ActionOf(e) /\ n.copy = 0
    BY <1>4, FS_EmptySet DEF NewRow
  <2>3. n \in Row
    BY <1>1, <1>2, <1>4, LenIsNat, FS_EmptySet DEF NewRow, Row
  <2>4. made' \subseteq Row
    BY <2>1, <2>3 DEF IInv, TypeOK
  <2>5. RowsFit'
    BY <1>1, <2>1, <2>2 DEF IInv, RowsFit, ActionOf
  <2>6. \A r \in made : ~ (/\ r.occasion = n.occasion /\ r.index = n.index
                           /\ SameTable(r.action, n.action))
    BY <1>4, <2>2 DEF Keyed
  <2>7. WorkIsDoneOnce'
    BY <2>1, <2>6 DEF IInv, WorkIsDoneOnce, SameTable
  <2> QED BY <2>1, <2>2, <2>4, <2>5, <2>7
<1> QED BY <1>3, <1>4
-----------------------------------------------------------------------------
(* An evaluation that does not move keeps what it relies on while others   *)
(* write rows, the customer answers or the rule is edited: rows stay, an   *)
(* answer is not taken back, and an edited rule is compared no more.       *)
Others(e) ==
  /\ made \subseteq made'
  /\ subject'.awaiting => subject.awaiting
  /\ subject'.reachable = subject.reachable
  /\ rule' = rule \/ rule'.edited
  /\ eval'[e] = eval[e]

LEMMA Kept ==
  ASSUME NEW e \in Evals, Progress(e), Others(e)
  PROVE  Progress(e)'
BY DEF Progress, Others, Reached, Acting, At, ActionOf, Told

(* A success stays a success while rows are added.                         *)
LEMMA SuccessKept ==
  ASSUME IInv, made \subseteq made', subject'.awaiting => subject.awaiting,
         subject'.reachable = subject.reachable,
         rule' = rule \/ rule'.edited, UNCHANGED runs
  PROVE  SucceededIsDone'
BY DEF IInv, SucceededIsDone

-----------------------------------------------------------------------------
LEMMA EmptySaid == <<>> \in Seq(Outcomes)
OBVIOUS

LEMMA InitIInv ==
  ASSUME Init
  PROVE  IInv
<1>1. Idle \in Eval
  BY EmptySaid DEF Idle, Eval, Steps, Copies
<1>2. TypeOK
  <2>1. subject \in [occasion : Occasions, awaiting : BOOLEAN, fits : BOOLEAN,
                  reachable : BOOLEAN]
    BY DEF Init
  <2>2. rule \in [actions : Rules, enabled : BOOLEAN, edited : BOOLEAN]
    BY AutomationsAssumption DEF Init, AutomationsAssumption
  <2>3. eval \in [Evals -> Eval]
    BY <1>1 DEF Init
  <2>4. failures \in 0..MaxFailures
    BY AutomationsAssumption DEF Init, AutomationsAssumption
  <2> QED BY <2>1, <2>2, <2>3, <2>4 DEF Init, TypeOK
<1>3. \A e \in Evals : Progress(e)
  BY DEF Init, Progress, Idle, Reached, Acting, At
<1> QED BY <1>2, <1>3 DEF Init, IInv, RowsFit, WorkIsDoneOnce, SucceededIsDone

(* The workspace edits the rule, or the subject moves: no evaluation does. *)
LEMMA MeanwhileKeeps ==
  ASSUME IInv, EditRule \/ Answer \/ Reschedule \/ Drift
  PROVE  IInv'
<1>1. CASE EditRule
  <2>1. UNCHANGED <<scanned, made, eval, runs, subject, failures>>
    BY <1>1 DEF EditRule
  <2>2. rule' \in [actions : Rules, enabled : BOOLEAN, edited : BOOLEAN] /\ rule'.edited
    BY <1>1 DEF EditRule, IInv, TypeOK
  <2>3. TypeOK' /\ rule'.edited
    BY <2>1, <2>2 DEF IInv, TypeOK
  <2>4. \A e \in Evals : Progress(e)'
    BY <2>1, <2>3, Kept DEF IInv, Others
  <2>5. RowsFit' /\ WorkIsDoneOnce' /\ SucceededIsDone'
    BY <2>1, <2>3 DEF IInv, RowsFit, WorkIsDoneOnce, SucceededIsDone
  <2> QED BY <2>3, <2>4, <2>5 DEF IInv
<1>2. CASE Answer \/ Reschedule \/ Drift
  <2>1. /\ subject' \in [occasion : Occasions, awaiting : BOOLEAN, fits : BOOLEAN,
                  reachable : BOOLEAN]
        /\ subject'.awaiting => subject.awaiting
        /\ subject'.reachable = subject.reachable
    BY <1>2 DEF IInv, TypeOK, Answer, Reschedule, Drift
  <2>2. UNCHANGED <<scanned, rule, made, eval, runs, failures>>
    BY <1>2 DEF Answer, Reschedule, Drift
  <2>3. TypeOK'
    BY <2>1, <2>2 DEF IInv, TypeOK
  <2>4. \A e \in Evals : Progress(e)'
    BY <2>1, <2>2, Kept DEF IInv, Others
  <2>5. RowsFit' /\ WorkIsDoneOnce' /\ SucceededIsDone'
    BY <2>1, <2>2, SuccessKept DEF IInv, RowsFit, WorkIsDoneOnce
  <2> QED BY <2>3, <2>4, <2>5 DEF IInv
<1> QED BY <1>1, <1>2

-----------------------------------------------------------------------------
(* A step of evaluation e: what has to be shown of the next state is what  *)
(* e relies on there, the types, and the rows and runs it has added.       *)
LEMMA StepKeeps ==
  ASSUME IInv, NEW e \in Evals,
         UNCHANGED <<scanned, rule, subject>>, failures' \in 0..MaxFailures,
         NEW v \in Eval, eval' = [eval EXCEPT ![e] = v],
         made \subseteq made', made' \subseteq Row, RowsFit', WorkIsDoneOnce',
         runs' \subseteq Run, SucceededIsDone',
         Progress(e)'
  PROVE  IInv'
<1>1. TypeOK'
  BY DEF IInv, TypeOK
<1>2. ASSUME NEW d \in Evals PROVE Progress(d)'
  <2>1. CASE d = e
    BY <2>1
  <2>2. CASE d # e
    <3>1. eval'[d] = eval[d]
      BY <2>2 DEF IInv, TypeOK
    <3> QED BY <3>1, Kept DEF IInv, Others
  <2> QED BY <2>1, <2>2
<1> QED BY <1>1, <1>2 DEF IInv

(* The same for a step that writes neither a row nor a run.                *)
LEMMA QuietStep ==
  ASSUME IInv, NEW e \in Evals,
         UNCHANGED <<scanned, rule, subject, made, runs>>, failures' \in 0..MaxFailures,
         NEW v \in Eval, eval' = [eval EXCEPT ![e] = v],
         Progress(e)'
  PROVE  IInv'
<1>1. made' \subseteq Row /\ runs' \subseteq Run
  BY DEF IInv, TypeOK
<1>2. RowsFit' /\ WorkIsDoneOnce' /\ SucceededIsDone'
  BY SuccessKept DEF IInv, RowsFit, WorkIsDoneOnce
<1> QED BY <1>1, <1>2, StepKeeps

(* One that leaves: nothing is relied on any more.                         *)
LEMMA IdleRelies ==
  ASSUME IInv, NEW e \in Evals, Leave(e)
  PROVE  /\ Idle \in Eval
         /\ eval' = [eval EXCEPT ![e] = Idle]
         /\ Progress(e)'
<1>1. Idle \in Eval
  BY EmptySaid DEF Idle, Eval, Steps, Copies
<1>2. eval'[e] = Idle
  BY DEF Leave, IInv, TypeOK
<1> QED BY <1>1, <1>2 DEF Leave, Progress, Idle, Reached, Acting, At
-----------------------------------------------------------------------------
(* An evaluation begins: it holds an occasion, and has performed nothing.  *)
LEMMA BeginningKeeps ==
  ASSUME IInv, NEW e \in Evals, Change(e) \/ Scan(e) \/ Begin(e)
  PROVE  IInv'
<1>1. CASE Change(e) \/ Scan(e)
  <2>1. PICK s \in {"changed", "lookup"} :
          eval' = [eval EXCEPT ![e] = [Idle EXCEPT !.step = s, !.occasion = subject.occasion,
                                                   !.fits = subject.fits, !.copy = Live]]
    BY <1>1 DEF Change, Scan, HandOver
  <2> DEFINE v == [Idle EXCEPT !.step = s, !.occasion = subject.occasion, !.fits = subject.fits,
                               !.copy = Live]
  <2>2. /\ v \in Eval /\ v.step = s /\ v.occasion \in Occasions /\ v.said = <<>>
        /\ v.copy = "answered" => ~subject.awaiting
    BY EmptySaid DEF IInv, TypeOK, Eval, Idle, Steps, Copies, Live
  <2>3. eval'[e] = v
    BY <2>1 DEF IInv, TypeOK
  <2>5. UNCHANGED <<scanned, rule, subject, made, runs, failures>>
    BY <1>1 DEF Change, Scan
  <2>4. Progress(e)'
    <3> HIDE DEF v
    <3> QED BY <2>2, <2>3, <2>5 DEF Progress, Reached, Acting, At
  <2>6. failures' \in 0..MaxFailures
    BY <2>5 DEF IInv, TypeOK
  <2> HIDE DEF v
  <2> QED BY <2>1, <2>2, <2>4, <2>5, <2>6, QuietStep DEF v
<1>2. CASE Begin(e)
  <2> DEFINE next == IF rule.actions = <<>> THEN "record" ELSE "perform"
             v == [eval[e] EXCEPT !.step = next, !.actions = rule.actions, !.index = 1]
  <2>1. eval' = [eval EXCEPT ![e] = v]
    BY <1>2 DEF Begin, IInv, TypeOK
  <2>2. /\ v \in Eval /\ v.step = next /\ v.occasion = eval[e].occasion
        /\ v.actions = rule.actions /\ v.index = 1 /\ v.said = eval[e].said /\ v.copy = eval[e].copy
    BY ZenonT(40) DEF IInv, TypeOK, Eval, Steps
  <2>3. eval'[e] = v
    BY <2>1 DEF IInv, TypeOK
  <2>4. /\ rule.actions \in Rules /\ eval[e].occasion \in Occasions /\ Len(eval[e].said) = 0
        /\ eval[e].copy = "answered" => ~subject.awaiting
    BY <1>2 DEF Begin, IInv, TypeOK, Progress, At
  <2>5. rule.actions \in Seq(Tasks \cup Mails)
    BY <2>4, AutomationsAssumption DEF AutomationsAssumption
  <2>6. rule.actions # <<>> => 1 <= Len(rule.actions)
    BY <2>5
  <2>7. rule.actions = <<>> => Len(rule.actions) = 0
    OBVIOUS
  <2>8. UNCHANGED <<scanned, rule, subject, made, runs, failures>>
    BY <1>2 DEF Begin
  <2> HIDE DEF v
  <2>9. Progress(e)'
    BY <2>2, <2>3, <2>4, <2>6, <2>7, <2>8 DEF Progress, Reached, Acting, At
  <2>10. failures' \in 0..MaxFailures
    BY <2>8 DEF IInv, TypeOK
  <2> QED BY <2>1, <2>2, <2>8, <2>9, <2>10, QuietStep
<1> QED BY <1>1, <1>2

(* An evaluation whose rule is enabled moves on to look for its run.       *)
LEMMA LookingKeeps ==
  ASSUME IInv, NEW e \in Evals, At(e, "changed"), Step(e, "lookup"),
         UNCHANGED <<scanned, rule, subject, made, runs>>, failures' \in 0..MaxFailures
  PROVE  IInv'
<1> DEFINE v == [eval[e] EXCEPT !.step = "lookup"]
<1>1. eval' = [eval EXCEPT ![e] = v]
  BY DEF Step, IInv, TypeOK
<1>2. /\ v \in Eval /\ v.step = "lookup" /\ v.occasion = eval[e].occasion
      /\ v.said = eval[e].said /\ v.copy = eval[e].copy
  BY ZenonT(40) DEF IInv, TypeOK, Eval, Steps
<1>3. eval'[e] = v
  BY <1>1 DEF IInv, TypeOK
<1> HIDE DEF v
<1>4. Progress(e)'
  BY <1>2, <1>3 DEF IInv, Progress, Reached, Acting, At
<1> QED BY <1>1, <1>2, <1>4, QuietStep

(* One that fails waits to be recorded, and relies on nothing more.        *)
LEMMA BreakingKeeps ==
  ASSUME IInv, NEW e \in Evals, Break(e)
  PROVE  IInv'
<1> DEFINE v == [Idle EXCEPT !.step = "fail", !.occasion = eval[e].occasion]
<1>1. eval' = [eval EXCEPT ![e] = v]
  BY DEF Break
<1>2. eval[e].occasion \in Occasions
  BY DEF Break, At, IInv, Progress
<1>3. v \in Eval /\ v.step = "fail" /\ v.occasion \in Occasions /\ v.copy = "expired"
  BY <1>2, EmptySaid DEF Eval, Idle, Steps, Copies
<1>4. eval'[e] = v
  BY <1>1 DEF IInv, TypeOK
<1> HIDE DEF v
<1>5. Progress(e)'
  BY <1>3, <1>4 DEF Progress, Reached, Acting, At
<1>6. UNCHANGED <<scanned, rule, subject, made, runs>> /\ failures' \in 0..MaxFailures
  BY AutomationsAssumption DEF Break, IInv, TypeOK, AutomationsAssumption
<1> QED BY <1>1, <1>3, <1>5, <1>6, QuietStep

(* One that leaves with a run recorded, or without any.                    *)
LEMMA LeavingKeeps ==
  ASSUME IInv, NEW e \in Evals, Leave(e), runs' \subseteq Run, SucceededIsDone',
         UNCHANGED <<scanned, rule, subject, made>>, failures' \in 0..MaxFailures
  PROVE  IInv'
<1>1. made' \subseteq Row /\ RowsFit' /\ WorkIsDoneOnce'
  BY DEF IInv, TypeOK, RowsFit, WorkIsDoneOnce
<1> QED BY <1>1, IdleRelies, StepKeeps
(* One that goes on to the next action, the present one being done.        *)
LEMMA ProceedingKeeps ==
  ASSUME IInv, NEW e \in Evals, Acting(e),
         NEW outcome \in Outcomes, NEW copy \in Copies, Proceed(e, outcome, copy),
         copy = "answered" => ~subject.awaiting,
         UNCHANGED <<scanned, rule, subject, runs, failures>>,
         made \subseteq made', made' \subseteq Row, RowsFit', WorkIsDoneOnce',
         NEW o, NEW n, NEW act,
         o = eval[e].occasion, n = eval[e].index, act = ActionOf(e),
         ~rule.edited => Told(o, n, act, outcome, made', subject')
  PROVE  IInv'
<1> DEFINE i == eval[e].index
           a == eval[e].actions
           told == Append(eval[e].said, outcome)
           next == IF i < Len(a) THEN "perform" ELSE "record"
           v == [eval[e] EXCEPT !.said = told, !.copy = copy, !.index = i + 1, !.step = next]
<1>1. /\ eval[e] \in Eval /\ a \in Rules /\ i \in Nat \ {0} /\ i <= Len(a)
      /\ eval[e].occasion \in Occasions /\ eval[e].said \in Seq(Outcomes)
      /\ Len(eval[e].said) = i - 1
  BY DEF IInv, TypeOK, Progress, Reached, Acting, At, Eval
<1>2. eval' = [eval EXCEPT ![e] = v]
  BY SMTT(30) DEF Proceed
<1>3. /\ told \in Seq(Outcomes) /\ Len(told) = i /\ told[i] = outcome
      /\ \A j \in 1..(i - 1) : told[j] = eval[e].said[j]
  <2>1. (i - 1) + 1 = i
    BY <1>1
  <2> QED BY <1>1, <2>1, Appended
<1>4. /\ v \in Eval /\ v.step = next /\ v.index = i + 1 /\ v.actions = a
      /\ v.occasion = eval[e].occasion /\ v.said = told /\ v.copy = copy
  <2>1. next \in Steps /\ i + 1 \in Nat
    BY <1>1 DEF Steps
  <2> HIDE DEF next, told
  <2> QED BY <1>1, <1>3, <2>1 DEF Eval
<1>5. eval'[e] = v
  BY <1>2 DEF IInv, TypeOK
<1>6. Len(a) \in Nat
  BY <1>1, LenIsNat
<1> HIDE DEF v, told
<1>7. ASSUME ~rule.edited
      PROVE  /\ a = rule.actions
             /\ \A j \in 1..Len(rule.actions) :
                  j < n + 1 => Told(o, j, rule.actions[j], told[j], made', subject')
  <2>1. /\ a = rule.actions
        /\ \A j \in 1..Len(rule.actions) :
              j < n => Told(o, j, rule.actions[j], eval[e].said[j], made, subject)
    BY <1>7 DEF IInv, Progress, Reached
  <2>2. ASSUME NEW j \in 1..Len(rule.actions), j < n + 1
        PROVE  Told(o, j, rule.actions[j], told[j], made', subject')
    <3>1. CASE j < n
      <4>1. Told(o, j, rule.actions[j], eval[e].said[j], made, subject)
        BY <2>1, <3>1
      <4>2. told[j] = eval[e].said[j]
        BY <1>1, <1>3, <1>6, <2>2, <3>1
      <4> QED BY <4>1, <4>2 DEF Told
    <3>2. CASE j = n
      <4>1. act = rule.actions[j] /\ told[j] = outcome
        BY <1>3, <2>1, <3>2 DEF ActionOf
      <4> QED BY <1>7, <3>2, <4>1
    <3> QED BY <1>1, <1>6, <2>2, <3>1, <3>2
  <2> QED BY <2>1, <2>2
<1>8. Progress(e)'
  BY SMTT(40), <1>1, <1>3, <1>4, <1>5, <1>6, <1>7 DEF Progress, Reached, Acting, At
<1>9. runs' \subseteq Run /\ SucceededIsDone' /\ failures' \in 0..MaxFailures
  BY SuccessKept DEF IInv, TypeOK
<1> QED BY <1>2, <1>4, <1>8, <1>9, StepKeeps
-----------------------------------------------------------------------------
(* Every step of an evaluation.                                            *)
LEMMA EvaluationKeeps ==
  ASSUME IInv, NEW e \in Evals, Change(e) \/ Scan(e) \/ Evaluate(e) \/ Break(e) \/ Die(e)
  PROVE  IInv'
<1>0. failures \in 0..MaxFailures /\ runs \subseteq Run /\ MaxFailures \in Nat
  BY AutomationsAssumption DEF IInv, TypeOK, AutomationsAssumption
<1>1. CASE Change(e) \/ Scan(e) \/ Begin(e)
  BY <1>1, BeginningKeeps
<1>2. CASE Dispatch(e)
  <2>1. UNCHANGED <<scanned, rule, subject, made, runs>> /\ failures' \in 0..MaxFailures
    BY <1>0, <1>2 DEF Dispatch
  <2>2. CASE Leave(e)
    BY <1>0, <2>1, <2>2, SuccessKept, LeavingKeeps
  <2>3. CASE Step(e, "lookup")
    BY <1>2, <2>1, <2>3, LookingKeeps DEF Dispatch
  <2> QED BY <1>2, <2>2, <2>3 DEF Dispatch
<1>3. CASE Found(e) \/ Die(e)
  <2>1. /\ UNCHANGED <<scanned, rule, subject, made, runs>> /\ Leave(e)
        /\ failures' \in 0..MaxFailures
    BY <1>0, <1>3 DEF Found, Die
  <2> QED BY <1>0, <2>1, SuccessKept, LeavingKeeps
<1>4. CASE Skip(e) \/ Fail(e)
  <2>1. /\ UNCHANGED <<scanned, rule, subject, made, failures>> /\ Leave(e)
        /\ Log(e, "unkeyed", <<>>) /\ ~At(e, "idle")
    BY <1>4 DEF Skip, Fail, At
  <2>2. eval[e].occasion \in Occasions
    BY <2>1 DEF IInv, Progress
  <2>3. runs' \subseteq Run
    <3> DEFINE empty == <<>>
    <3>1. empty \in Seq(Outcomes) /\ Log(e, "unkeyed", empty)
      BY <2>1, EmptySaid
    <3> HIDE DEF empty
    <3> QED BY <1>0, <2>2, <3>1 DEF Log, Run, Statuses
  <2>4. SucceededIsDone'
    BY <2>1 DEF IInv, SucceededIsDone, Log
  <2> QED BY <1>0, <2>1, <2>3, <2>4, LeavingKeeps
<1>5. CASE Record(e)
  <2>1. /\ UNCHANGED <<scanned, rule, subject, made, failures>> /\ Leave(e) /\ At(e, "record")
        /\ runs' = runs \/ Log(e, "succeeded", eval[e].said)
    BY <1>5 DEF Record
  <2>2. CASE runs' = runs
    BY <1>0, <2>1, <2>2, SuccessKept, LeavingKeeps
  <2>3. CASE Log(e, "succeeded", eval[e].said)
    <3>1. eval[e].occasion \in Occasions /\ eval[e].said \in Seq(Outcomes)
      BY <2>1 DEF IInv, TypeOK, Eval, Progress, At
    <3>2. runs' \subseteq Run
      BY <1>0, <2>3, <3>1 DEF Log, Run, Statuses
    <3>3. ~rule.edited => \A i \in 1..Len(rule.actions) :
            /\ i <= Len(eval[e].said)
            /\ Told(eval[e].occasion, i, rule.actions[i], eval[e].said[i], made, subject)
      <4>1. eval[e].index \in Nat /\ rule.actions \in Rules
        BY DEF IInv, TypeOK, Eval
      <4> QED BY <2>1, <4>1, LenIsNat DEF IInv, Progress, Reached
    <3>4. SucceededIsDone'
      BY <2>1, <2>3, <3>3 DEF IInv, SucceededIsDone, Log, Told
    <3> QED BY <1>0, <2>1, <3>2, <3>4, LeavingKeeps
  <2> QED BY <2>1, <2>2, <2>3
<1>6. CASE PerformTask(e) \/ PerformMail(e)
  <2>1. /\ UNCHANGED <<scanned, rule, subject, runs, failures>>
        /\ Acting(e) /\ Write(e)
    BY <1>6 DEF PerformTask, PerformMail, Acting
  <2>2. PICK c \in {"expired", eval[e].copy} : Proceed(e, "done", c)
    BY <1>6 DEF PerformTask, PerformMail
  <2>3. c \in Copies /\ (c = "answered" => ~subject.awaiting)
    BY DEF IInv, TypeOK, Eval, Copies, Progress
  <2> DEFINE o == eval[e].occasion
             n == eval[e].index
             act == ActionOf(e)
  <2>4. /\ made \subseteq made' /\ made' \subseteq Row /\ RowsFit' /\ WorkIsDoneOnce'
        /\ ~rule.edited => \E m \in made' : m.occasion = o /\ m.index = n /\ m.action = act
    BY <2>1, Written
  <2>5. ~rule.edited => Told(o, n, act, "done", made', subject')
    BY <2>4 DEF Told
  <2>6. "done" \in Outcomes
    BY DEF Outcomes
  <2> HIDE DEF o, n, act
  <2>7. \A oo, nn, aa : oo = o /\ nn = n /\ aa = act => IInv'
    <3> SUFFICES ASSUME NEW oo, NEW nn, NEW aa, oo = o, nn = n, aa = act PROVE IInv'
      OBVIOUS
    <3>1. ~rule.edited => Told(oo, nn, aa, "done", made', subject')
      BY <2>5
    <3>2. oo = eval[e].occasion /\ nn = eval[e].index /\ aa = ActionOf(e)
      BY DEF o, n, act
    <3> QED BY <2>1, <2>2, <2>3, <2>4, <2>6, <3>1, <3>2, ProceedingKeeps
  <2> QED BY <2>7
<1>7. CASE Recheck(e)
  <2> DEFINE seen == IF eval[e].copy = "expired" THEN Live ELSE eval[e].copy
  <2>1. /\ UNCHANGED <<scanned, rule, subject, runs, made, failures>>
        /\ At(e, "perform") /\ ActionOf(e) \in Mails
    BY <1>7 DEF Recheck
  <2>2. /\ seen \in {"awaiting", "answered"}
        /\ seen = "answered" => ~subject.awaiting
    BY DEF IInv, TypeOK, Eval, Copies, Progress, Live
  <2>3. \/ seen = "answered" /\ Proceed(e, "answered", seen)
        \/ ~subject.reachable /\ Proceed(e, "unreachable", seen)
        \/ seen = "awaiting" /\ eval' = [eval EXCEPT ![e] = [eval[e] EXCEPT !.step = "mail", !.copy = seen]]
    BY <1>7, <2>2 DEF Recheck
  <2> HIDE DEF seen
  <2>4. CASE seen = "awaiting" /\ eval' = [eval EXCEPT ![e] = [eval[e] EXCEPT !.step = "mail", !.copy = seen]]
    <3> DEFINE v == [eval[e] EXCEPT !.step = "mail", !.copy = seen]
    <3>1. eval' = [eval EXCEPT ![e] = v]
      BY <2>4 DEF IInv, TypeOK
    <3>2. /\ v \in Eval /\ v.step = "mail" /\ v.occasion = eval[e].occasion
          /\ v.actions = eval[e].actions /\ v.index = eval[e].index
          /\ v.said = eval[e].said /\ v.copy = "awaiting"
      BY <2>4, ZenonT(40) DEF IInv, TypeOK, Eval, Steps, Copies
    <3>3. eval'[e] = v
      BY <3>1 DEF IInv, TypeOK
    <3> HIDE DEF v
    <3>4. Progress(e)
      BY DEF IInv
    <3>5. Progress(e)'
      BY <2>1, <3>2, <3>3, <3>4 DEF Progress, Reached, Acting, At, ActionOf
    <3> QED BY <1>0, <2>1, <3>1, <3>2, <3>5, QuietStep
  <2>5. ASSUME NEW s \in {"answered", "unreachable"}, Proceed(e, s, seen),
               s = "answered" => ~subject.awaiting, s = "unreachable" => ~subject.reachable
        PROVE  IInv'
    <3>1. /\ made' \subseteq Row /\ RowsFit' /\ WorkIsDoneOnce' /\ made \subseteq made'
          /\ s \in Outcomes /\ seen \in Copies /\ Acting(e)
      BY <2>1, <2>2 DEF IInv, TypeOK, RowsFit, WorkIsDoneOnce, Outcomes, Copies, Acting
    <3>2. \A oo, nn, aa : aa = ActionOf(e) => Told(oo, nn, aa, s, made', subject')
      BY <2>1, <2>5 DEF Told
    <3>3. \A oo, nn, aa : oo = eval[e].occasion /\ nn = eval[e].index /\ aa = ActionOf(e) => IInv'
      <4> SUFFICES ASSUME NEW oo, NEW nn, NEW aa, oo = eval[e].occasion,
                          nn = eval[e].index, aa = ActionOf(e)
                   PROVE  IInv'
        OBVIOUS
      <4>1. Told(oo, nn, aa, s, made', subject')
        BY <3>2
      <4> QED BY <2>1, <2>2, <2>5, <3>1, <4>1, ProceedingKeeps
    <3> QED BY <3>3
  <2> QED BY <2>2, <2>3, <2>4, <2>5
<1>8. CASE Break(e)
  BY <1>8, BreakingKeeps
<1> QED BY <1>1, <1>2, <1>3, <1>4, <1>5, <1>6, <1>7, <1>8 DEF Evaluate
LEMMA NextKeeps ==
  ASSUME IInv, [Next]_vars
  PROVE  IInv'
<1>1. CASE Next
  BY <1>1, MeanwhileKeeps, EvaluationKeeps DEF Next
<1>2. CASE UNCHANGED vars
  <2>1. UNCHANGED <<scanned, rule, subject, runs, made, eval, failures>>
    BY <1>2 DEF vars
  <2>2. \A e \in Evals : Progress(e)'
    BY <2>1, Kept DEF IInv, Others
  <2>3. RowsFit' /\ WorkIsDoneOnce' /\ SucceededIsDone' /\ TypeOK'
    BY <2>1 DEF IInv, RowsFit, WorkIsDoneOnce, SucceededIsDone, TypeOK
  <2> QED BY <2>2, <2>3 DEF IInv
<1> QED BY <1>1, <1>2

LEMMA Invariance == Spec => []IInv
BY InitIInv, NextKeeps, PTL DEF Spec

-----------------------------------------------------------------------------
(* The tables and the evaluations are well formed in every state of every  *)
(* behaviour: in particular a run and a row always have an occasion.       *)
THEOREM TypeCorrect == Spec => []TypeOK
<1>1. IInv => TypeOK
  BY DEF IInv
<1> QED BY <1>1, Invariance, PTL

(* However often and by however many an occasion is evaluated, an action   *)
(* leaves one row: the unique dedupe keys of engine.py are enough.         *)
THEOREM DoneOnce == Spec => []WorkIsDoneOnce
<1>1. IInv => WorkIsDoneOnce
  BY DEF IInv
<1> QED BY <1>1, Invariance, PTL

(* A run recorded as succeeded is right about each action of its rule: the *)
(* done have their rows, although an evaluation that failed or died may    *)
(* have left them, and only messages were skipped, for a reason that held. *)
THEOREM SuccessIsTrue == Spec => []SucceededIsDone
<1>1. IInv => SucceededIsDone
  BY DEF IInv
<1> QED BY <1>1, Invariance, PTL

-----------------------------------------------------------------------------
(* A step moves one evaluation.                                            *)
LEMMA MovedAlone ==
  ASSUME eval \in [Evals -> Eval], NEW d \in Evals, NEW e \in Evals,
         Change(d) \/ Scan(d) \/ Evaluate(d) \/ Break(d) \/ Die(d), eval'[e] # eval[e]
  PROVE  d = e
BY DEF Change, Scan, HandOver, Evaluate, Dispatch, Found, Skip, Begin, PerformTask, Recheck,
       PerformMail, Fail, Record, Break, Die, Step, Leave, Proceed

(* Only PerformMail adds a row for a message, and it starts from a copy    *)
(* that has the quote unanswered; no copy becomes so after the answer.     *)
LEMMA ChaseStep ==
  ASSUME IInv, [Next]_vars, ~subject.awaiting
  PROVE  /\ \A e \in Evals : eval'[e].copy = "awaiting" => eval[e].copy = "awaiting"
         /\ (\E r \in made' \ made : r.action \in Mails) =>
              \E e \in Evals : At(e, "mail") /\ eval[e].copy = "awaiting"
<1>1. ASSUME NEW r \in made' \ made, r.action \in Mails
      PROVE  \E e \in Evals : At(e, "mail") /\ eval[e].copy = "awaiting"
  <2>1. PICK e \in Evals : PerformTask(e) \/ PerformMail(e)
    BY <1>1 DEF Next, vars, EditRule, Answer, Reschedule, Drift, Change, Scan, Evaluate, Dispatch,
           Found, Skip, Begin, Recheck, Fail, Record, Break, Die
  <2>2. Acting(e) /\ Write(e) /\ UNCHANGED rule
    BY <2>1 DEF PerformTask, PerformMail, Acting
  <2>3. r.action = ActionOf(e)
    BY <1>1, <2>2, Written
  <2>4. At(e, "mail")
    BY <1>1, <2>1, <2>3, AutomationsAssumption DEF PerformTask, PerformMail, AutomationsAssumption
  <2> QED BY <2>4 DEF IInv, Progress
<1>2. ASSUME NEW e \in Evals, eval'[e].copy = "awaiting" PROVE eval[e].copy = "awaiting"
  <2>1. Idle.copy = "expired" /\ Live = "answered" /\ eval \in [Evals -> Eval]
    BY DEF Idle, Live, IInv, TypeOK
  <2>2. CASE eval'[e] = eval[e]
    BY <1>2, <2>2
  <2>3. CASE eval'[e] # eval[e]
    <3>1. PICK d \in Evals : Change(d) \/ Scan(d) \/ Evaluate(d) \/ Break(d) \/ Die(d)
      BY <2>3 DEF Next, vars, EditRule, Answer, Reschedule, Drift
    <3>2. d = e
      BY <2>1, <2>3, <3>1, MovedAlone
    <3>3. CASE Change(e) \/ Scan(e)
      BY <1>2, <2>1, <3>3 DEF Change, Scan, HandOver, Idle
    <3>4. CASE Dispatch(e) \/ Begin(e)
      BY <1>2, <2>1, <3>4 DEF Dispatch, Begin, Step, Leave, Eval
    <3>5. CASE Found(e) \/ Skip(e) \/ Fail(e) \/ Record(e) \/ Die(e) \/ Break(e)
      BY <1>2, <2>1, <3>5 DEF Found, Skip, Fail, Record, Die, Break, Leave, Idle
    <3>6. CASE PerformTask(e) \/ PerformMail(e)
      <4>1. PICK c \in {"expired", eval[e].copy} : Proceed(e, "done", c)
        BY <3>6 DEF PerformTask, PerformMail
      <4> QED BY <1>2, <2>1, <4>1 DEF Proceed, Eval
    <3>7. CASE Recheck(e)
      <4> DEFINE seen == IF eval[e].copy = "expired" THEN Live ELSE eval[e].copy
      <4>1. seen = "awaiting" => eval[e].copy = "awaiting"
        BY <2>1
      <4>2. \/ \E x \in Outcomes : Proceed(e, x, seen)
            \/ eval' = [eval EXCEPT ![e] = [eval[e] EXCEPT !.step = "mail", !.copy = seen]]
        BY <3>7 DEF Recheck, Outcomes
      <4> HIDE DEF seen
      <4>3. eval'[e].copy = seen
        <5>1. ASSUME NEW x, Proceed(e, x, seen) PROVE eval'[e].copy = seen
          BY <2>1, <5>1 DEF Proceed, Eval
        <5>2. CASE eval' = [eval EXCEPT ![e] = [eval[e] EXCEPT !.step = "mail", !.copy = seen]]
          BY <2>1, <5>2 DEF Eval
        <5> QED BY <4>2, <5>1, <5>2
      <4> QED BY <1>2, <4>1, <4>3
    <3> QED BY <3>1, <3>2, <3>3, <3>4, <3>5, <3>6, <3>7 DEF Evaluate
  <2> QED BY <2>2, <2>3
<1> QED BY <1>1, <1>2

(* An evaluation that ends without dying has found a success or records    *)
(* what came of it, as a success when it got through its actions.          *)
LEMMA TraceStep ==
  ASSUME IInv, [Next]_vars
  PROVE  \A e \in Evals :
           ~At(e, "idle") /\ ~At(e, "changed") /\ At(e, "idle")' /\ failures' = failures =>
             \/ Succeeded(eval[e].occasion)
             \/ \E r \in runs' : /\ r.occasion = eval[e].occasion
                                /\ At(e, "record") <=> r.status = "succeeded"
<1> SUFFICES ASSUME NEW e \in Evals, ~At(e, "idle"), ~At(e, "changed"), At(e, "idle")',
                    failures' = failures, ~Succeeded(eval[e].occasion)
             PROVE  \E r \in runs' : /\ r.occasion = eval[e].occasion
                                   /\ At(e, "record") <=> r.status = "succeeded"
  OBVIOUS
<1>1. eval'[e] # eval[e]
  BY DEF At
<1>2. PICK d \in Evals : Change(d) \/ Scan(d) \/ Evaluate(d) \/ Break(d) \/ Die(d)
  BY <1>1 DEF Next, vars, EditRule, Answer, Reschedule, Drift
<1>3. failures \in Nat
  BY AutomationsAssumption DEF IInv, TypeOK, AutomationsAssumption
<1>4. eval \in [Evals -> Eval]
  BY DEF IInv, TypeOK
<1>5. d = e
  BY <1>1, <1>2, <1>4, MovedAlone
<1>6. Skip(e) \/ Fail(e) \/ Record(e)
  <2>1. ~ Die(e) /\ ~ Found(e) /\ ~ Dispatch(e) /\ ~ Break(e)
    BY <1>3 DEF Die, Found, Dispatch, Break
  <2>2. ~ Change(e) /\ ~ Scan(e)
    BY DEF Change, Scan
  <2>3. ASSUME Begin(e) \/ PerformTask(e) \/ Recheck(e) \/ PerformMail(e) PROVE FALSE
    <3>1. \A x \in Outcomes, c \in Copies : Proceed(e, x, c) => eval'[e].step # "idle"
      BY <1>4 DEF Proceed, Eval
    <3>2. eval[e].copy \in Copies /\ "expired" \in Copies /\ Live \in Copies /\ "done" \in Outcomes
          /\ "answered" \in Outcomes /\ "unreachable" \in Outcomes
      BY <1>4 DEF Eval, Copies, Live, Outcomes
    <3>3. eval'[e].step # "idle"
      <4>1. CASE Begin(e)
        BY <1>4, <4>1 DEF Begin, Eval
      <4>2. CASE PerformTask(e) \/ PerformMail(e)
        BY <3>1, <3>2, <4>2 DEF PerformTask, PerformMail
      <4>3. CASE Recheck(e)
        <5> DEFINE seen == IF eval[e].copy = "expired" THEN Live ELSE eval[e].copy
        <5>1. seen \in Copies
          BY <3>2
        <5>2. \/ Proceed(e, "answered", seen)
              \/ Proceed(e, "unreachable", seen)
              \/ eval' = [eval EXCEPT ![e] = [eval[e] EXCEPT !.step = "mail", !.copy = seen]]
          BY <4>3 DEF Recheck
        <5> HIDE DEF seen
        <5>3. CASE eval' = [eval EXCEPT ![e] = [eval[e] EXCEPT !.step = "mail", !.copy = seen]]
          BY <1>4, <5>3 DEF Eval
        <5> QED BY <3>1, <3>2, <5>1, <5>2, <5>3
      <4> QED BY <2>3, <4>1, <4>2, <4>3
    <3> QED BY <3>3 DEF At
  <2> QED BY <1>2, <1>5, <2>1, <2>2, <2>3 DEF Evaluate
<1>7. CASE Skip(e) \/ Fail(e)
  <2>1. Log(e, "unkeyed", <<>>) /\ ~At(e, "record")
    BY <1>7 DEF Skip, Fail, At
  <2>2. [occasion |-> eval[e].occasion, status |-> "unkeyed", said |-> <<>>] \in runs'
    BY <2>1 DEF Log
  <2> QED BY <2>1, <2>2
<1>8. CASE Record(e)
  <2>1. Log(e, "succeeded", eval[e].said) /\ At(e, "record")
    BY <1>8 DEF Record
  <2>2. [occasion |-> eval[e].occasion, status |-> "succeeded", said |-> eval[e].said] \in runs'
    BY <2>1 DEF Log
  <2> QED BY <2>1, <2>2
<1> QED BY <1>6, <1>7, <1>8

(* After its answer a quote is chased only from a copy loaded before it,   *)
(* and an evaluation that gets to its end leaves a row unless the occasion *)
(* has succeeded.                                                          *)
THEOREM Fair == Spec => EvaluationsAreFair
<1>1. IInv /\ [Next]_vars =>
        /\ [~subject.awaiting =>
              /\ \A e \in Evals : eval'[e].copy = "awaiting" => eval[e].copy = "awaiting"
              /\ (\E r \in made' \ made : r.action \in Mails) =>
                   \E e \in Evals : At(e, "mail") /\ eval[e].copy = "awaiting"]_vars
        /\ [\A e \in Evals :
              ~At(e, "idle") /\ ~At(e, "changed") /\ At(e, "idle")' /\ failures' = failures =>
                \/ Succeeded(eval[e].occasion)
                \/ \E r \in runs' : /\ r.occasion = eval[e].occasion
                                   /\ At(e, "record") <=> r.status = "succeeded"]_vars
  BY ChaseStep, TraceStep
<1> QED BY <1>1, Invariance, PTL DEF Spec, EvaluationsAreFair, NoFollowUpAfterAnswer, AttemptIsVisible
=============================================================================
