# A TLA+ development for go-sui-sdk

go-sui-sdk is a Go client for a Sui full node. It reads the ledger over gRPC,
chooses coins, builds programmable transactions, and turns the node's protobuf
answers into the types of an older JSON API. This directory holds TLA+ models of
the parts of it that carry logic, the TLC runs that check them and TLAPS proofs
about each of them. Line numbers refer to the repository at the modelled commit.

## 1. Inventory

| Part | State | Operations | Interacts with | What is hard |
|---|---|---|---|---|
| Checkpoint scan, `client/checkpoints.go`, `client/query.go` | locals of one call: `collected`, `next`, `before`, `resumable` | `GetCheckpoints`, `prunedBelowRetention`, `scanMayContinue`, `checkpointScanMask` | several streams and a `GetServiceInfo` on a node whose ledger moves | resumption, early ends, pruning between requests, empty rounds |
| Builder inputs and commands, `sui_types/programmable_transaction_builder.go`, `messages.go` | `Inputs`, `InputsKeyOrder`, `Commands` | `Pure`, `ForceSeparatePure`, `Obj`, `Input`, `CreateFundsWithdrawalArgument`, `Command`, `Finish` | Arguments are handed to the caller and used later | an Argument is an index that must stay right; uint16 |
| Builder transfers, same file and `gasless_transfer.go` | the builder | `TransferObject`, `TransferSui`, `Pay`, `PaySui`, `PayAllSui`, `MoveCall`, `MakeObjList`, `WithdrawalTransfer`, `GaslessTransfer` and their helpers | share one builder; executed by the chain | Move values used once and all consumed; errors halfway |
| Coin selection, `types/coin.go` | the caller's slice | `PickupCoins`, `SuggestMaxGasBudget`, `PickCoins`, `PickSUICoinsWithGas`, `PickCoinNoLess` | results alias the slice | limits from two sides, truncation, aliasing |
| Transaction responses, `client/internal/pb/sui/rpc/v2/*_convert.go`, `convert_readmask.go` | none | `ResponseReadMaskPaths`, `ToInternalType` of transactions, effects, changes, owners, events | mask and conversion must agree | classification of object changes, dropped entries |
| Batch and paged reads, `client/transactions.go`, `checkpoints.go`, `objects.go`, `balances.go` | locals of one call | `MultiGetTransactionBlocks`, `GetCheckpoint`, `GetCheckpointTransactions`, `GetObject`, `MultiGetObjects`, `GetBalance`, `GetAllBalances` | several requests to a node that changes | partial failure, changes between pages |
| Coin and object reads, `client/coins.go`, `object_convert.go` | cursor held by the caller | `GetCoins`, `GetCoinMetadata`, `ObjectReadMaskPaths`, `ToInternalCoin` | as above | cursor across calls, page size cut to 32 bits, masks |
| Execution, `client/execution.go` | none | `ExecuteTransactionBlock`, `DryRunTransaction`, `DevInspectTransactionBlock` | responses, reference gas price, connection | a request that outlives its deadline, resubmission, price fetched before use, prefixed masks |
| Rendering, `convert_transactiondata.go`, `convert_ptbjson.go` | none | `toInternalTransactionBlock`, `pureValueTypes`, `commandJSON` | shows what the builder built | types of pure inputs are inferred from the commands |
| Constructors, `sui_types/transaction.go` | none | transaction data from a finished builder | builder, rendering | gas and expiration |
| Connection, `suiclient`, `client/client.go`, `auth.go` | options, the connection and who owns it | `New`, `With...`, `NewClient`, `Close` | calls in progress | order of options, closing a shared connection |
| Signing, serialisation, addresses, generated code | none | | | not logic a model can say much about |

What makes the parts correct is stated by the properties of section 3.
`PROJECT.json` lists the components, the hazards with their lines, and which
property is about which hazard.

## 2. Modules

| Module | Models |
|---|---|
| `CheckpointRange` | what `GetCheckpoints` promises: one atomic read of a range |
| `CheckpointScan`, `MCCheckpointScan` | `GetCheckpoints` in rounds, against a moving ledger |
| `CheckpointScan_proofs` | its proofs, among them that it implements `CheckpointRange` |
| `BuilderOps` | the primitives of the builder, as operators on a builder value |
| `PTBuilder`, `MCPTBuilder` | a caller of these primitives |
| `PTBuilder_proofs` | its proofs |
| `BuilderMethods` | the methods that build transfers, written with `BuilderOps` |
| `MoveExec` | external: the execution of a finished transaction |
| `PTBTransfers`, `MCPTBTransfers` | a caller of several transfers on one builder |
| `PTBTransfers_proofs` | its proofs, those about `BuilderMethods`, `MoveExec` and `Rendering` among them |
| `CoinSelection`, `MCCoinSelection` | the functions of `types/coin.go` on one slice |
| `CoinSelection_proofs` | its proofs |
| `Rendering` | the constructors of transaction data and the rendering of a programmable transaction; used by `PTBTransfers` |
| `ResponseOps` | mask and conversions of executed transactions, as operators |
| `TxResponse`, `MCTxResponse` | a chain and a reader that asks for every transaction |
| `TxResponse_proofs` | its proofs |
| `ObjectView` | masks and conversions of objects, coins, checkpoints and coin metadata |
| `BatchReads`, `MCBatchReads` | the client's reads, against a node that changes |
| `BatchReads_proofs` | its proofs |
| `ClientOptions` | the options of `suiclient.New`, endpoints, headers and the connection they make |
| `Execution`, `MCExecution` | clients that execute and simulate on a chain that moves |
| `Execution_proofs` | its proofs |
| `SeqFolds` | what `FoldLeft` computes, for any operator |

Definitions whose name has a suffix after an underscore and whose comment says
*Mutant* (`Shift_next`, `Fail_retry`, ...) are not part of a specification. Each
is a plausible mistake in the definition that follows it, and is known to
violate the property that `PROJECT.json` pairs it with.

**CheckpointScan.** `tip` and `lowest` are the ledger. `pc` is "open" at the head
of the loop, "recv" in the inner loop, "refused" before `prunedBelowRetention`,
"classify" after the loop. `collected`, `next` and `before` are the locals;
`resumable` is computed from `endReason`. Each `Recv` is a step (`RecvItem`,
`RecvGap`, `RecvEnd`, `RecvError`, `RecvEOF`), so the ledger can move between any
two frames. `NodeMay` says what the node may do besides answering in full. A
frame is delivered when it is sent, which loses nothing because the client sends
nothing while it reads.

**BuilderOps and PTBuilder.** A builder is `[inputs, order, commands]`. `Obj`
answers "panic" where the code dereferences a nil `SharedObject`. `issued`
remembers each Argument handed out with the value it was given for; that history
is what the properties talk about. A caller stops at a panic.

**BuilderMethods, MoveExec, PTBTransfers.** A method is a composition of
primitives with `Then`, the code's `if err != nil { return err }`, so what was
registered before an error stays. `MoveExec` runs the commands: coins are in
places, are taken once, and may not be left in a result. The caller names a coin
in one call only, does not spend more than it has and stays within the 2^16 inputs
and commands that an index can name (`Fits`); it may make calls that are rejected and
continue with the same builder.

**CoinSelection.** The caller's slice is state because `PickCoinNoLess` writes
into its backing array and `PickSUICoinsWithGas` returns a pointer into it.
`KeepsSlice` says whether callers go on with a slice after a call. `sort.Slice` is
not stable, so `Sorted` is the set of orders it may leave.

**TxResponse.** The chain moves objects between absent, live, wrapped and
deleted, and describes each move by an entry of `changed_objects`. A reader asks
for every transaction with some options and replays the effects. Owners may be
of a kind the client does not know, or have an address that does not parse; ids may
not parse either, which effects do not notice and object changes do. A nil
slice is `<<>>` (`NoObjectChanges`) and a field that is not in the answer is `Unset`;
`NilAssumption` says that it is none of the values such a field can have.

**Rendering.** `PureValueTypes` is the map from an input to the type a command
gives it; a pure input is printed as a number, an address or bytes according to
that type and the length of its bytes. `CommandJSON` has every kind of command;
`Publish` and `Upgrade`, which no method of the builder makes, occur in no run. `PTBTransfers` finishes its builder, makes
transaction data with the constructors and renders it.

**ObjectView and BatchReads.** One call at a time; every request is a step, and
between two the node executes, prunes, receives and spends. `NodeMay` again lists
its failures. `GetCoins` is called by a caller that follows `NextCursor` with a limit
of its choice for each page and asks again for a page that failed. `always` and
`ever` are histories: what was held throughout the call and at some time of it.

**ClientOptions and Execution.** Clients are made first, with any list of options,
and then call; one call is in progress at a time, and any client may be closed
meanwhile. A call whose deadline passes may leave its request on the way (`late`),
to be executed at any later time. The chain moves by other transactions
(`version`) and epochs (`price`); what a transaction does depends on the version
it meets, so a dry run and an execution can differ. `asked` remembers the options of
the client made, `done` the state each transaction was executed in and its signatures, as
sent and as their caller gave them, `dry` the last dry run, `quoted` the prices in force
during a call. The node executes a transaction once, and only if each of its `Signers`
has signed it, in whatever order; it answers a resubmission with what the transaction did
when it was executed, its signatures then included (external). Whether gRPC dials is a
choice of the environment (`dialled`). A Go pointer is `<<>>` when it is nil and `<<value>>` otherwise.

## 3. Runs

| Run | Checks | States | Bounds |
|---|---|---|---|
| `scan` | `TypeOK`, `ScanContiguous`, `CompleteToTip`, `PrunedJustified`, `ScanIsAtomic` | 28055 | ledger of 5, page limit 2, ranges of up to 3: one round is not enough, and both ends move during a scan; a start whose range wraps |
| `scan_working` | `NoSpuriousError`, `CallReturns` | 21719 | as `scan`, with a node that neither fails nor misreports but may stall |
| `scan_stall` | `CompleteToTip`, violated | | |
| `builder` | `TypeOK`, `OrderIsBijection`, `HandlesDenote`, `SeparateInputs`, `NoEscalation` | 36003 | 4 inputs and a command: each pair of kinds, repeated and mixed |
| `builder_panic` | `ObjAnswers`, violated | | |
| `transfers` | `GaslessLeavesNoObject`, `ExecutesAsPromised`, `RenderingTells`, `RejectionLeavesBuilder` | 7098 | every pair of calls, two coins, a repeated recipient, a length mismatch; three calls were run once as well (293322 states) |
| `coins` | seven invariants on the results | 45002 | wallets of up to 4 coins with 3 values, limits around the default |
| `coins_truncated` | `PickupCoversTarget`, violated | | |
| `coins_alias` | `GasCoinSeparate`, violated | | |
| `responses` | `ViewFollowsChain`, `ChangesTellWrites`, `AskedIsAnswered` | 469572 | two transactions on an object, a package and a package whose id does not parse, which reaches every bucket; three kinds of owner; three sets of options, each option without the others that read the same field; two events, one of which does not parse |
| `reads` | `TypeOK`, `AllOrNothing`, `ObjectsInPlace`, `MaskFits`, `ListingComplete`, `PageWithinLimit`, `ErrorsJustified`, `CallReturns` | 147288 | chunks and pages of 2, lists of up to 5, three items, two changes of the node in a call; uint32 scaled to 4, with limits of 4 and 5 |
| `execution` | `ConnectionAsAsked`, `SuccessMeansExecuted`, `DryRunForetells`, `InspectionPriced`, `InspectionTold`, `NoSpuriousError` | 441978 | every pair of eight options in both orders, dialled or not; two clients on one connection of the caller's or on their own; a sponsored transaction, with both orders and several forms of its two signatures, a missing one and one that is none; the chain moves by itself up to version 2, so the transaction meets every outcome; two prices |

Where `TypeOK` is not listed, the other invariants fix what the state looks like.

The properties in short:

- *Scan.* The result is a contiguous run from the start (`ScanContiguous`) that
  reaches the tip the ledger had at the call (`CompleteToTip`); pruning is
  reported only where it happened (`PrunedJustified`) and no other error appears
  without a cause (`NoSpuriousError`). All of it follows from `ScanIsAtomic`, the
  refinement of `CheckpointRange`.
- *Builder.* An Argument never changes its meaning (`HandlesDenote`), separate
  inputs are never shared (`SeparateInputs`), `InputsKeyOrder` and `Inputs` agree
  (`OrderIsBijection`) and mutability is not invented (`NoEscalation`).
- *Transfers.* The finished transaction executes and pays exactly what the
  accepted calls were to pay (`ExecutesAsPromised`), a gasless one writes no owned
  object (`GaslessLeavesNoObject`), a rejected withdrawal leaves the builder as it
  was (`RejectionLeavesBuilder`), and the rendered transaction shows amounts as
  numbers and recipients as addresses wherever a transfer put them, inputs shared
  between methods included (`RenderingTells`).
- *Coins.* `PickupCoins` covers its target with the gas budget suggested for it
  (`SuggestedGasAffordable`, which implies `PickupCoversTarget`), takes no more than it must and fails
  only where it must; `PickCoins` is optimal for its method; the greedy choice of a
  gas coin in `PickSUICoinsWithGas` never spoils a split that exists
  (`PickWithGasComplete`).
- *Responses.* Replaying effects gives the objects of the chain
  (`ViewFollowsChain`), object changes are the writes (`ChangesTellWrites`), and
  what was asked for is complete or reported (`AskedIsAnswered`).
- *Reads.* All or nothing for transactions, each object in its place, and a
  listing of balances or coins that holds everything held throughout and nothing
  never held (`ListingComplete`), in pages no larger than asked for
  (`PageWithinLimit`). What is shown through a mask is what the conversion makes of the
  whole message, and no path of the mask is idle (`MaskFits`).
- *Execution.* Success means the transaction was executed, with every signature that the
  caller of the request that arrived gave, converted, in their order, and tells what it did
  and who signed it, late requests and resubmissions with the signatures in another order
  notwithstanding (`SuccessMeansExecuted`); a dry run tells what an execution in the same state does
  (`DryRunForetells`); an inspection runs at a price that was in force and tells its
  outcome (`InspectionPriced`, `InspectionTold`); a client has the credentials, headers
  and connection its options ask for (`ConnectionAsAsked`); and no call fails because
  another client was closed or a mask was wrong (`NoSpuriousError`).

`AllOrNothing` and `MaskFits` make one exception each, which is the code's: an answer
without a checkpoint reads as a checkpoint of zeros that has no transactions.

### Where the code and its documentation differ

- `scan_stall`: `GetCheckpoints` is documented to end early at the tip only. A
  round that delivers nothing and is not final (SCAN_LIMIT, or no terminal frame)
  ends the scan wherever it is, without an error (`checkpoints.go:109`). The runs
  and theorems about completeness therefore exclude the behaviour "stall".
- `builder_panic`: `Obj` panics for an owned or receiving object that is already
  registered (`programmable_transaction_builder.go:119`), where it has an error
  for arguments that do not fit and would accept equal ones.
- `coins_truncated`: `PickupCoins` truncates the shortfall to 64 bits
  (`coin.go:155`) and so accepts targets far beyond the coins. The run `coins` keeps
  targets below 2^64, scaled to 16.
- `coins_alias`: the gas coin of `PickSUICoinsWithGas` is a pointer into a slice
  that `PickCoinNoLess` shifts (`coin.go:220`, `:179`). The run `coins` fetches the
  coins again for each call.

One more doc is imprecise without being contradicted by a run: `coin.go:114` names the case
that the total "is less than the target amount" for `ErrNeedMergeCoin`, where the code, and
`PickupErrorsJustified` with it, compares with the target and the gas budget together.

Two weak points of the code are out of the properties' sight. A node that
hands out the same page token again keeps `GetAllBalances` going until the context ends
(`balances.go:38`). And `DryRunTransaction` drops the `Errors` of the response
(`execution.go:86`), for which the type of a dry run has no field: `DryRunForetells`
compares it with an executed transaction that lacks the same entries.

### Fairness

`FairSpec` of `CheckpointScan` and `BatchReads` is weak fairness of the client's
steps taken together, answers of the node included: a goroutine in a call runs
until it returns, and a request ends with an answer or, at the latest when its
context expires, with an error. Nothing obliges the ledger to move. Under that
assumption what could still keep a call from returning is the client's own loop,
which is what `CallReturns` is about. `BatchReads` relies on page tokens that
advance: `GetAllBalances` has no guard of its own against a node that repeats one.

## 4. Proofs

The theorems hold for every value of the constants that satisfies the ASSUMEs.

**CheckpointScan_proofs** assumes `ScanConstants`: positive page limits, and no
wrap of `startSeqNum + limit` for a start that can be on the ledger (the code does
not guard against it; a start beyond the ledger may wrap). The inductive invariant `IInv` adds to the properties the position of the
open stream, `StreamPosition`: the stream and the scan stand at the same
checkpoint (`Position = next`), and what the stream may still send fits into what
the scan still wants. Without it neither contiguity nor the limit is inductive,
because an item is accepted by comparing it with `next` only. `RefusalSound` and
`StopSound` remember, in the steps between the node's last word and the return, why
the scan stopped; both are stable because `lowest` and `tip` only grow.
`TypeCorrect`, `ScanIsContiguous`, `PrunedIsJustified` and `ErrorsAreJustified` follow
for every node; `ScanReachesTip` and `ScanImplementsRange` for every node that does
not stall. The refinement maps `called` to "a call is in progress"; every step is a
stutter of `CheckpointRange` except the ledger's, the call and the return.

**PTBuilder_proofs** assumes that a builder has at most 2^16 inputs and commands
(`BuilderBounds`) and the form of object arguments. Its invariant says that map and
order agree (`Consistent`), that each kind of key holds its kind of value and the
names of separate inputs are below the number of inputs (`KeysHold`), which makes
`len(p.Inputs)` a fresh name, and that every handle in the history stands at its
index (`HandlesHold`). `InsertFullFacts` is the lemma on `insertFull` that every
operation rests on. `TypeCorrect`, `OrderAgrees`, `HandlesKeepDenoting`,
`SeparateInputsStaySeparate` and `MutabilityIsAskedFor` follow.

**PTBTransfers_proofs** has any addresses, coins, amounts, lists of payments and number of
calls. `TransferAssumptions` says what the Go types say (an amount is a number, an
address is none, a list of payments has no more amounts than a result index can name) and that
the sender owns finitely many coins. What the builder does not check is a guard of the
caller: `Fits`, no more than 2^16 inputs and commands, and that calls are affordable.

Neither `ExecutesAsPromised` nor `GaslessLeavesNoObject` is inductive: they say how the
transaction ends, not where its machine stands after the commands so far. The
invariant `IInv` is about that machine, `Run(b)`, which is `MoveExec` after the last command and
before anything is found missing or left over. It says that the builder is `Settled` and that
`Run(b).got = promised`. `Settled` means that the map and the order of the inputs agree and each
key holds its kind of value (`Sound`), that no command fails (`Live`), and that no result still
holds a coin: what is left is at inputs and in the gas coin, which is worth the
`gas` the caller counts. A conjunct for builders with gasless transfers only adds that
the gas coin alone is left and that nobody was given a coin.

The layers are these. A method only appends (`Grows`), so an Argument made earlier still
stands for the same input. Inputs registered later add places to the machine and leave the rest
of its run as it was; this frame is what lets calls be put one after another. For each kind
of command there is a lemma on what it does to a live machine, and for each helper
of the code (`PayMulInternal`, the merging of coins, the withdrawals) one that composes
them: the amounts split off are drawn from one coin, the pieces at `PositionsOf` a recipient
go to that recipient, and the sums over recipients and over amounts are the same. Each method
then keeps `IInv` whether it succeeds or fails halfway; `Pay` and `PaySui` with lists of unequal
length leave inputs behind and nothing else. Loops of the code are folds, and the
induction is `SetInduction`, as for `SeqFolds` below. `TransactionsExecuteAsPromised`, `GaslessTransactionsWriteNoObject` and
the action property `RejectedTransfersLeaveTheBuilder` follow.
`RenderingTellsTheTransaction` uses another part of `Live`: every command refers to inputs and results of
the kind it takes (`CmdsOK`), so that the types `PureValueTypes` infers, a fold over
commands and their arguments, never give one input two of them.

**CoinSelection_proofs** assumes what `CoinAssumptions` says of the constants: wallets are
slices of uint64 coins without a coin twice, of any length. `SumOver` adds up the coins
at a set of positions, and the lemmas about it (one position more, a union of disjoint
sets, a larger set is worth no less) relate it to `TotalBalance`, which is a fold.
`PickupsTakeNoMore`, `PickupErrorsHaveReasons` and `GasSplitsComplete` hold without
conditions: the choice of a gas coin that `PickSUICoinsWithGas` makes never spoils a
split that exists, which needs an exchange argument between any split and the one
taken. Three theorems have a hypothesis, and each is the line a violation run draws.
`SuggestionsAffordable` asks that target and budget together stay below 2^64, beyond which
`PickupCoins` truncates (`coins_truncated`). `PicksAreByMethod` and `GasCoinsSeparate` ask
that no caller goes on with a slice that `PickCoinNoLess` may have shifted (`coins_alias`).
`NoLessKeepsOthers` is an action property: the call leaves every other coin in the slice.

**TxResponse_proofs** has any number of objects, packages, accounts and transactions. The
invariant `IInv` is about the last transaction: the chain (`Chain`: versions grow, what
is live has one owner), what its entries say of it (`Told`: each entry describes the
move of its object, each object has at most one entry, and the reader's view lags by exactly
this transaction), and the answer (`Follows`). The effects, changes and events of an
answer are folds, and one lemma for each says which entries appear in them.
`ViewsFollow`, `ChangesAreWrites` and `AskedAnswered` follow.

**BatchReads_proofs** assumes what `ReadAssumptions`, `NodeAssumptions` and `WitnessAssumption` say of limits and items, and nothing about the node
beyond its action. The invariant relates, for a batch, `out` to the chunks of `todo` that
were answered (`ChunkJoins` is the lemma on joining them), and for a listing the token or cursor
to what was listed: everything held throughout the call and not after the token is
in the pages so far, and everything in them was held at some time. `ChunksAllOrNothing`,
`AnswersInPlace`, `MasksFit`, `ListingsComplete`, `PagesWithinLimit` and
`ReadErrorsJustified` follow.

**Execution_proofs** has any number of clients, transactions and options, and an unbounded chain.
The invariant says what a call in progress can be (`Waiting`), that every executed or late
request carries what its caller gave, converted (`Chain`), for any signers, and that the last answer of each kind is the answer to the
transaction as it was executed (`Executed`, `DryRan`, `Inspected`). `SuccessIsExecution`,
`DryRunsForetell`, `InspectionsPriced`, `InspectionsTold` and `ErrorsHaveACause` follow.
`ConnectionsAsAsked` is for any list of options. `Means(cfg, options, k)` says what the first
`k` options mean: the connection is the last one given, the dial options are those given so
far, each header has the last value for its key. Every option keeps it (`ConfigMeans`), and
of the dial options that `New` makes of the configuration the last credentials count. `ConnectionAssumptions`
lists the forms of an endpoint and, by `Options`, those of an option; the run has fewer.

**SeqFolds** says what a fold computes, for any operator: the operator is a CONSTANT, and a module that
folds instantiates it once for each. `FoldPrefix`, `FoldAppend` and `FoldKeeps` are proved from the
definition of `FoldLeft`, by way of the function its recursion chooses. The library's induction theorems take an
operator as a parameter and cannot be used. `SetInduction` is the same fact for a set of
numbers, proved from `WFMin` of the library; it stands in each module that folds, which
discharges with it the hypothesis `Induction` of `SeqFolds`. The module extends
so little because every obligation after an instance pays for all that the instance brings.

Only model-checked: liveness (`CallReturns`, in both runs) and the runs that expect a
violation. Every safety and action property of a passing run is a theorem.

## 5. Not modelled

- The bindings that protoc generated, about 25,000 of the repository's 31,500 lines
  of Go: descriptors and getters without behaviour. Their messages appear in the
  models as the node's answers, so the map covers a small share of all lines and
  about half of the hand-written ones.
- Signing and cryptography (`account`, `crypto`, `sui_types/crypto.go`, `intent.go`):
  no state and no order of steps.
- JSON and BCS layouts (`lib`, `types`), which tests cover. Two of them deserve a
  test: `types/common.go:50` prints a uint64 of 2^63 and more as a negative number,
  and `lib/json.go:60` selects a variant by a substring of a field's tag.
- Parsing and printing of addresses, digests and type tags, character by character.
- Renderings of system transactions and type tags, copied field by field, and
  `GetLatestCheckpointSequenceNumber`, one field of one answer.
- Mocks and protocol constants.

In the modelled parts, hashing of builder keys and BCS encoding are taken to be
injective, texts of errors are left out, and digests, Move types and gas figures of
responses are not represented. Dialling is external: it fails or not, and a connection is
its target, its security and its headers.

## 6. State of the development

Every part that keeps state or decides anything is modelled, and every safety property of a
passing run is proved. What remains to be done:

- Type tags and system transactions in `Rendering`, should their conversion come to
  decide anything.
- The two findings about 64 bits and about the panic of `Obj` are the code's to settle;
  the hypotheses of `SuggestionsAffordable` and the run `builder_panic` go when they are.
