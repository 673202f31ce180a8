SPECIFICATION Spec
CONSTANTS
  CoinValues = {1, 2, 4}
  MaxCoins = 3
  Wallets <- MCWallets
  Targets = {1, 3}
  Budgets = {1, 2}
  Limits = {0}
  MoreCounts = {0}
  MAX_INPUT_COUNT_MERGE = 3
  DefaultMoreCount = 2
  MaxGas = 2
  U64 = 16
  KeepsSlice = TRUE
INVARIANT GasCoinSeparate
