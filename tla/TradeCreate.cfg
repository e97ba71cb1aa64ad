SPECIFICATION Spec
CONSTANTS
  s1 = s1
  s2 = s2
  SKUs <- MCSKUs
  Baskets <- MCBaskets
  Tokens = {"k1"}
  Offers = {"cheap", "dear", "none"}
  NotForSale = "none"
  MaxQuantity = 2
  Requests = {"r1", "r2"}
  Devices = {"d1"}
  MaxFaults = 2
  NoQuote = NoQuote
  NoToken = NoToken
INVARIANTS
  TypeOK
  BoughtOnceAsPreviewed
PROPERTIES
  CartKeptUntilBought
  TokenSettles
