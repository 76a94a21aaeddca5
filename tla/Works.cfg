SPECIFICATION Spec
CONSTANTS
  u1 = u1
  u2 = u2
  k1 = k1
  k2 = k2
  c1 = c1
  c2 = c2
  Users <- TwoUsers
  LastStage = 4
  GatesOf <- OneGate
  MaxHistory = 4
  MaxCustomers = 2
  Clerks <- TwoClerks
  Entries <- TwoEntries
  Amounts = {0, 2}
  Rates = {"zero", "full"}
  Base = 10
  Cost = 5
  MaxTold = 2
SYMMETRY Alike
INVARIANTS WorksTypeOK FlowIsSound VariationIsSound RiskIsTold
PROPERTIES FinalStays
CHECK_DEADLOCK FALSE
