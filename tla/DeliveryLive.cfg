SPECIFICATION LiveSpec
CONSTANTS
  followUp = followUp
  alice = alice
  Processes = {p1, p2}
  Messages <- MCOneMessage
  Addresses <- MCAddresses
  Recipient <- MCOneRecipient
  Marketing <- MCOneMarketing
  MaxAttempts = 2
  MaxCalls = 1
  CrashAllowed = FALSE
  Listable = {a, b, c}
  Limit = 3
  MaxTries = 3
INVARIANTS
  SweepIsSound
PROPERTIES
  MailIsResolved
  EveryRowIsRetried
CHECK_DEADLOCK FALSE
