SPECIFICATION PricingSpec
CONSTANTS
  MaxInt64 = 18
  MaxItems = 4
  Prices = {0, 1, 5}
  Quantities = {1, 4}
  Coupons <- MCCoupons
  NoCoupon = NoCoupon
  BasisPoints = 4
  Rates = {0, 3, 4}
INVARIANTS
  PricingTypeOK
  QuoteAddsUp
  RefusedForFractions
CHECK_DEADLOCK FALSE
