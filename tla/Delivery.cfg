SPECIFICATION Spec
CONSTANTS
  followUp = followUp
  alice = alice
  Processes = {p1, p2, p3}
  Messages <- MCOneMessage
  Addresses <- MCAddresses
  Recipient <- MCOneRecipient
  Marketing <- MCOneMarketing
  MaxAttempts = 3
  MaxCalls = 1
  CrashAllowed = TRUE
SYMMETRY Symmetry
INVARIANTS
  TypeOK
  LedgerIsTrue
  OneAtATime
PROPERTIES
  HandedIsFinal
  LedgerSpec
CHECK_DEADLOCK FALSE
