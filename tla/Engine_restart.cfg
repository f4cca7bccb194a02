SPECIFICATION Spec
CONSTANTS
  o1 = o1
  o2 = o2
  Orders = {o1}
  NoOrder = NoOrder
  Qty = 2
  MaxCrashes = 1
  BrokerDedups = FALSE
  LateDelivery = TRUE
  MissingLookup = FALSE
  AuditMayFail = FALSE
INVARIANTS
  PlacedAtMostOnce
