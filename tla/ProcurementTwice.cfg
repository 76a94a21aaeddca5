SPECIFICATION Spec
CONSTANTS
  Procs = {p1}
  Items <- MCItems
  Quantity <- MCQuantity
  Requirements = {"r"}
  ReqOf <- MCReqOf
  ItemLists <- MCLists
  Deliveries <- MCTwiceDeliveries
  UserStatuses = {"consumed"}
  MaxEntries = 1
CHECK_DEADLOCK FALSE
INVARIANT NoOverReceipt
