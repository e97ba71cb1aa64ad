SPECIFICATION Spec
CONSTANTS
  o1 = o1
  o2 = o2
  i1 = i1
  i2 = i2
  Orders = {o1, o2}
  Items = {i1, i2}
  OrderOf <- MCOrderOf
  ItemPayable <- MCItemPayable
  Allocated <- MCAllocated
  Commission <- MCCommission
  MaxAmount = 3
  MaxAfterSales = 3
  Channels = {"alipay"}
  Buyers = {"device1", "device2"}
  Merchants = {"merchant1", "merchant2"}
  Jobs = {}
  MaxFaults = 0
  NoItem = NoItem
  NoAfterSale = NoAfterSale
INVARIANT
  WithinAllocationAtProvider
CHECK_DEADLOCK FALSE
