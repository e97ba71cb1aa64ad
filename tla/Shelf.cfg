SPECIFICATION ShelfSpec
CONSTANTS
  c1 = c1
  c2 = c2
  p1 = p1
  s1 = s1
  s2 = s2
  u1 = u1
  u2 = u2
  ann = ann
  bob = bob
  Categories = {c1, c2}
  Products = {p1}
  SKUs = {s1, s2}
  ProductOf <- MCProductOf
  w1 = w1
  w2 = w2
  Staff = {w1, w2}
  Stocks = {0, 2}
  Root = Root
  NoRequest = NoRequest
  CouponIds = {"k1"}
  UserCoupons = {u1, u2}
  Users = {ann, bob}
  CouponRequests <- MCCouponRequests
  MaxTime = 1
  NoCoupon = NoCoupon
  NoEdit = NoEdit
  NoClaim = NoClaim
  Orders = {"o1"}
  MaxQuantity = 1
  MaxEdits = 3
  Shops <- MCShops
  NoOrder = NoOrder
INVARIANTS
  ShelfTypeOK
  CountersExact
PROPERTY
  OnlyRacesSpoil
SYMMETRY Symmetry
CHECK_DEADLOCK FALSE
