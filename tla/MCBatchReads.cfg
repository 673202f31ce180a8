SPECIFICATION FairSpec
CONSTANTS
  d1 = d1
  d2 = d2
  d3 = d3
  Unset = Unset
  Digests = {d1, d2, d3}
  DigestLists <- MCDigestLists
  Contents <- MCContents
  Items = {1, 2, 3}
  ItemObject <- MCItemObject
  Checkpoints <- MCCheckpoints
  CoinInfo <- MCCoinInfo
  ObjectLists <- MCObjectLists
  OptionSets <- MCOptionSets
  Limits <- MCLimits
  ChunkSize = 2
  PageSize = 2
  DefaultPage = 2
  U32 = 4
  NodeMay = {"fail", "short", "INTERNAL", "nothing", "malformed", "empty"}
  MaxChanges = 2
INVARIANTS
  TypeOK
  AllOrNothing
  ObjectsInPlace
  MaskFits
  ListingComplete
  PageWithinLimit
  ErrorsJustified
PROPERTY
  CallReturns
