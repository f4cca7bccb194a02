SPECIFICATION FairSpec
CONSTANTS
  o1 = o1
  o2 = o2
  Orders = {o1}
  NoOrder = NoOrder
  Qty = 3
  MaxCrashes = 2
  BrokerDedups = FALSE
  LateDelivery = FALSE
  MissingLookup = FALSE
  AuditMayFail = TRUE
INVARIANTS
  TypeOK
  PlacedAtMostOnce
  LedgersSound
PROPERTIES
  FillsNeverForgotten
  ImplementsPromise
  FillIsLearned
