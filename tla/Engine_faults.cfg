SPECIFICATION Spec
CONSTANTS
  o1 = o1
  o2 = o2
  Orders = {o1, o2}
  NoOrder = NoOrder
  Qty = 2
  MaxCrashes = 1
  BrokerDedups = TRUE
  LateDelivery = TRUE
  MissingLookup = TRUE
  AuditMayFail = FALSE
SYMMETRY OrdersSymmetry
INVARIANTS
  OncePerProcess
  ApartOnlyByCancel
