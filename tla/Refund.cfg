SPECIFICATION FairSpec
CONSTANTS
  o1 = o1
  o2 = o2
  i1 = i1
  i2 = i2
  Orders = {o1}
  Items = {i1, i2}
  OrderOf <- MCOrderOf
  ItemPayable <- MCItemPayable
  Allocated <- MCAllocated
  Commission <- MCCommission
  MaxAmount = 3
  MaxAfterSales = 2
  Channels = {"alipay", "mock"}
  Buyers = {"buyer"}
  Merchants = {"merchant"}
  Jobs = {"job"}
  MaxFaults = 1
  NoItem = NoItem
  NoAfterSale = NoAfterSale
INVARIANTS
  TypeOK
  RefundsAgree
PROPERTY
  RefundResolved
CHECK_DEADLOCK FALSE
