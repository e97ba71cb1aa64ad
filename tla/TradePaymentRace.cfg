SPECIFICATION Spec
CONSTANTS
  t1 = t1
  t2 = t2
  t3 = t3
  m1 = m1
  m2 = m2
  s1 = s1
  s2 = s2
  c1 = c1
  c2 = c2
  p1 = p1
  p2 = p2
  Trades <- MCTrades
  Merchants <- MCMerchants
  Skus <- MCSkus
  UserCoupons <- MCUserCoupons
  PaymentIds = {p1, p2}
  Buyers = {"buyer"}
  TimeoutJobs = {"job"}
  Channels = {"alipay", "mock"}
  MerchantOf <- MCMerchantOf
  Wanted <- MCWanted
  MaxQuantity = 2
  PayableAmount <- MCPayableAmount
  UserCouponID <- MCUserCouponID
  IssuedBy <- MCIssuedBy
  InitialStock <- MCInitialStock
  MaxFaults = 1
  NoTrade = NoTrade
  NoPayment = NoPayment
  NoCoupon = NoCoupon
  NoOrder = NoOrder
INVARIANT
  NoMoneyForCancelledTrade
CHECK_DEADLOCK FALSE
