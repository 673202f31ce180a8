SPECIFICATION FairSpec
CONSTANTS
  U64 = 8
  PageLimit = 2
  NodeMax = 2
  MaxTip = 4
  Starts <- MCStarts
  Limits <- MCLimits
  Masks <- MCMasks
  NodeMay <- WorkingNode
INVARIANT
  NoSpuriousError
PROPERTY
  CallReturns
