SPECIFICATION Spec
CONSTANTS
  Unset = Unset
  a = a
  b = b
  Clients = {a, b}
  OptionLists <- MCOptionLists
  Endpoints <- MCEndpoints
  Txs = {"user"}
  Outcomes <- MCOutcomes
  Signers <- MCSigners
  SignatureLists <- MCSignatureLists
  ExecuteOptions <- MCExecuteOptions
  Prices = {1, 2}
  NodeMay = {"timeout", "empty"}
  MaxVersion = 2
INVARIANTS
  ConnectionAsAsked
  SuccessMeansExecuted
  DryRunForetells
  InspectionPriced
  InspectionTold
  NoSpuriousError
