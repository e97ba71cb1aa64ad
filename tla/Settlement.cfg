SPECIFICATION Spec
CONSTANTS
  Orders = {1, 2}
  Refunds = {1, 2}
  Merchants = {"m"}
  MerchantOf <- MCMerchantOf
  Payable <- MCPayable
  Commission <- MCCommission
  OrderOf <- MCOrderOf
  RefundAmount <- MCRefundAmount
  MaxAmount = 3
  Hold = 1
  Ahead = 1
  BatchSize = 1
  Periods <- MCPeriods
  Commands = {c1, c2}
  MaxTime = 2
  Never = Never
  NoPeriod = NoPeriod
SYMMETRY Symmetry
INVARIANTS
  TypeOK
  LedgerExact
PROPERTY
  LedgerOnlyGrows
CHECK_DEADLOCK FALSE
