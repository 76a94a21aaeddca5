SPECIFICATION Spec
CONSTANTS
  Procs = {p1, p2}
  Items <- MCItems
  Quantity <- MCQuantity
  Requirements = {"r"}
  ReqOf <- MCReqOf
  ItemLists <- MCLists
  Deliveries <- MCDeliveries
  UserStatuses = {"allocated"}
  MaxEntries = 2
CHECK_DEADLOCK FALSE
SYMMETRY Perms
CONSTRAINT FewEntries
INVARIANTS TypeOK OrderIsSound DeliveryUnblocks
PROPERTY OrderIsABook
