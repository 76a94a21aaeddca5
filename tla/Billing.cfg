SPECIFICATION Spec
CONSTANTS
  s1 = s1
  s2 = s2
  r1 = r1
  Subs <- MCSubs
  Requests <- OneRequest
  LateInvoices = {"paid"}
  MaxEvents = 7
  MaxReordered = 4
SYMMETRY Symmetry
INVARIANTS TypeOK AccessIsRight
PROPERTIES AccessMoves
CHECK_DEADLOCK FALSE
