SPECIFICATION Spec
CONSTANTS
  CoinValues = {1, 2, 4}
  MaxCoins = 2
  Wallets <- MCWallets
  Targets = {1, 10, 17}
  Budgets = {0, 1}
  Limits = {0}
  MoreCounts = {0}
  MAX_INPUT_COUNT_MERGE = 3
  DefaultMoreCount = 2
  MaxGas = 2
  U64 = 16
  KeepsSlice = FALSE
INVARIANT PickupCoversTarget
