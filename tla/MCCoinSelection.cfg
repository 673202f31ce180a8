SPECIFICATION Spec
CONSTANTS
  CoinValues = {1, 2, 4}
  MaxCoins = 4
  Wallets <- MCWallets
  Targets = {0, 1, 3, 4, 7}
  Budgets = {0, 1, 3}
  Limits = {0, 1, 2}
  MoreCounts = {0, 1, 3}
  MAX_INPUT_COUNT_MERGE = 3
  DefaultMoreCount = 2
  MaxGas = 2
  U64 = 16
  KeepsSlice = FALSE
INVARIANTS
  SuggestedGasAffordable
  PickupTakesNoMore
  PickupErrorsJustified
  PickCoinsByMethod
  GasCoinSeparate
  PickWithGasComplete
  NoLessLeavesOthers
