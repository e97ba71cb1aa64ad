SPECIFICATION Spec
CONSTANTS
  Names = {"pw", "wx"}
  WechatNames = {"wx"}
  Users = {"u1", "u2"}
  Tokens = {"t1", "t2"}
  Requests = {"r1", "r2"}
  Limit = 2
  RateLimit = 2
  MaxFaults = 1
  NoUser = NoUser
  NoToken = NoToken
INVARIANTS
  TypeOK
  LimitsHold
  BuyersKept
PROPERTY BlocksEnd
