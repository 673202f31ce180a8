SPECIFICATION Spec
CONSTANTS
  U16 = 8
  p1 = p1
  p2 = p2
  owned = owned
  shared = shared
  w1 = w1
  PureValues <- MCPureValues
  ObjectArgs <- MCObjectArgs
  Withdrawals <- MCWithdrawals
  MaxCalls = 3
  MaxCommands = 1
INVARIANT ObjAnswers
