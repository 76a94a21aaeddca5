SPECIFICATION FairSpec
CONSTANTS
  e1 = e1
  e2 = e2
  task = task
  chase = chase
  Evals <- TwoEvals
  Tasks = {task}
  Mails = {chase}
  Rules <- BothOrders
  FirstRule <- TaskThenMail
  Occasions = {1, 2}
  MaxFailures = 1
INVARIANTS TypeOK SucceededIsDone WorkIsDoneOnce
PROPERTIES EvaluationsAreFair DueIsDone
CHECK_DEADLOCK FALSE
