SPECIFICATION Spec
CONSTANTS
  u1 = u1
  u2 = u2
  k1 = k1
  k2 = k2
  c1 = c1
  c2 = c2
  Users = {u1}
  LastStage = 4
  GatesOf <- OneGate
  MaxHistory = 3
  MaxCustomers = 1
  Clerks <- TwoClerks
  Entries <- TwoEntries
  Amounts = {0, 2}
  Rates = {"zero", "full"}
  Base = 10
  Cost = 5
  MaxTold = 2
PROPERTY FinishedStays
CHECK_DEADLOCK FALSE
