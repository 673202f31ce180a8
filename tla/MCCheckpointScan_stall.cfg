SPECIFICATION Spec
CONSTANTS
  U64 = 8
  PageLimit = 2
  NodeMax = 2
  MaxTip = 3
  Starts <- MCStarts
  Limits <- MCLimits
  Masks <- MCMasks
  NodeMay <- StallingNode
INVARIANT
  CompleteToTip
