SPECIFICATION Spec
CONSTANTS
  U64 = 8
  PageLimit = 2
  NodeMax = 2
  MaxTip = 4
  Starts <- MCStarts
  Limits <- MCLimits
  Masks <- MCMasks
  NodeMay <- AnyNode
INVARIANTS
  TypeOK
  ScanContiguous
  CompleteToTip
  PrunedJustified
PROPERTY
  ScanIsAtomic
