SPECIFICATION Spec
CONSTANTS
  LastOrder = 3
  LastPayment = 3
  Buyers = {"buyer"}
  TimeoutJobs = {"job"}
  Channels = {"alipay", "mock"}
  Quantity <- MCQuantity
  WithCoupon = {2, 3}
  Abandoned = {3}
  RefundedPart = {1}
  OldPayment <- MCOldPayment
  CancelBatch = 1
  BackfillBatch = 1
  MaxFaults = 1
  NoPayment = NoPayment
  NoOrder = NoOrder
INVARIANTS
  TypeOK
  OrderKeptWhole
  BackfillVerifies
PROPERTIES
  PendingOrderResolved
