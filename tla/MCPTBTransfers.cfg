SPECIFICATION Spec
CONSTANTS
  U16 = 64
  s = s
  r1 = r1
  c1 = c1
  c2 = c2
  Pool = Pool
  Sender = s
  Addresses <- MCAddresses
  CoinBalance <- MCCoinBalance
  GasBalance = 5
  Payments <- MCPayments
  Amounts = {0, 1, 3}
  Funds = 4
  MaxCalls = 2
INVARIANTS
  GaslessLeavesNoObject
  ExecutesAsPromised
  RenderingTells
PROPERTY
  RejectionLeavesBuilder
