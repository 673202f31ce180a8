SPECIFICATION Spec
CONSTANTS
  o1 = o1
  p1 = p1
  Unset = Unset
  Objects = {o1}
  Packages = {p1, "bad package"}
  Owners = {"ADDRESS", "UNKNOWN", "BAD_ADDRESS"}
  OptionSets <- MCOptionSets
  EventLists <- MCEventLists
  MaxTx = 2
INVARIANTS
  ViewFollowsChain
  ChangesTellWrites
  AskedIsAnswered
