SPECIFICATION Spec
CONSTANTS
  Processes = {p1, p2}
  MaxVersions = 3
SYMMETRY Symmetry
INVARIANTS
  TypeOK
  OfferIsSound
  RecordsAgree
PROPERTIES
  SentIsEarned
  OfferIsFrozen
CHECK_DEADLOCK FALSE
