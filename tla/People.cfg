SPECIFICATION Spec
CONSTANTS
  p1 = p1
  p2 = p2
  ann = ann
  bob = bob
  cid = cid
  w1 = w1
  w2 = w2
  Procs <- TwoProcs
  ResetTokens = {r1}
  VerifyTokens = {v1}
  MaxAttempts = 1
  MaxWrites = 3
  MaxSessions = 2
  Tenants = {t1}
  Emails <- Addresses
  MaxInvites = 3
  Workers <- TwoWorkers
  Seats = 2
SYMMETRY Alike
INVARIANTS PeopleTypeOK SessionFollowsPassword LimitsHold MembersAreInvited OwnerRemains
CHECK_DEADLOCK FALSE
