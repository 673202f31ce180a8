---------------------------- MODULE PTBTransfers ----------------------------
(***************************************************************************)
(* One ProgrammableTransactionBuilder on which a caller makes several of   *)
(* the transfer calls before it finishes the transaction: payments from    *)
(* the gas coin, from owned coins and from the address balance share the   *)
(* builder's inputs and commands.  The calls are those of BuilderMethods;  *)
(* MoveExec runs the finished transaction, Rendering shows it.             *)
(*                                                                         *)
(* The caller keeps to what the methods ask of it: it names a coin in one  *)
(* call only (Obj does not take an owned object twice), spends the gas     *)
(* coin and the address balance no further than they reach, gives each     *)
(* call coins worth what it pays, and stays within 2^16 inputs, commands   *)
(* and payments in a list, which the builder does not check.  It may make  *)
(* calls the methods reject, and goes on with the same builder afterwards. *)
(***************************************************************************)
EXTENDS Rendering

CONSTANTS
  Sender,       \* the account the transaction is for
  Payments,     \* <<recipients, amounts>> lists given to Pay and PaySui
  Amounts,      \* amounts given to the other calls, 0 among them
  Funds,        \* the sender's address balance
  MaxCalls      \* bound: calls on one builder

(* An address is no amount: in BCS it has 32 bytes and a u64 has 8. *)
ASSUME TransferAssumptions ==
  /\ Sender \in Addresses /\ \A a \in Addresses : a \notin Nat
  /\ Payments \subseteq Seq(Addresses) \X Seq(Nat)
  /\ \A payment \in Payments : Len(payment[2]) <= U16
  /\ Amounts \subseteq Nat /\ Funds \in Nat /\ GasBalance \in Nat
  /\ IsFiniteSet(DOMAIN CoinBalance) /\ CoinBalance \in [DOMAIN CoinBalance -> Nat]

VARIABLES
  b,           \* the builder
  calls,       \* history: the accepted and rejected calls, [method, err]
  promised,    \* history: what the accepted calls were to deliver
  gas,         \* what is left of the gas coin, or Spent
  funds        \* what is left of the address balance

vars == <<b, calls, promised, gas, funds>>

Spent == -1

(* Coins not named in a call yet, each in one order. *)
FreeCoins == {c \in DOMAIN CoinBalance : ObjectKey(c) \notin DOMAIN b.inputs}
CoinLists == {SetToSeq(cs) : cs \in SUBSET FreeCoins}
Worth(coins) == Total([i \in DOMAIN coins |-> CoinBalance[coins[i]]])

Init ==
  /\ b = NewBuilder
  /\ calls = <<>>
  /\ promised = NothingPaid
  /\ gas = GasBalance
  /\ funds = Funds

(* The indices of inputs and commands are uint16. *)
Fits(builder) == Len(builder.order) <= U16 /\ Len(builder.commands) <= U16

(* A call with outcome r; if it is accepted it promises dues, a sequence of *)
(* <<account, amount>>.                                                     *)
Make(method, r, dues) ==
  /\ Len(calls) < MaxCalls
  /\ Fits(r.b)
  /\ b' = r.b
  /\ calls' = Append(calls, [method |-> method, err |-> r.err])
  /\ promised' = IF r.err # "none" THEN promised
                 ELSE [a \in Accounts |->
                         promised[a] + Total([i \in DOMAIN dues |->
                                                IF dues[i][1] = a THEN dues[i][2] ELSE 0])]

CoinDues(payment) ==
  [i \in DOMAIN payment[1] |-> <<<<payment[1][i], "coin">>, payment[2][i]>>]

(* Rejected calls need not be affordable. *)
Accepted(r) == r.err = "none"

CallTransferObject(recipient, coins) ==
  /\ coins # <<>>
  /\ Make("TransferObject", TransferObject(b, recipient, coins),
          <<<<<<recipient, "coin">>, Worth(coins)>>>>)
  /\ UNCHANGED <<gas, funds>>

CallDeposit(coins) ==
  /\ coins # <<>>
  /\ Make("MoveCall",
          MoveCall(b, "deposit", [i \in DOMAIN coins |-> ObjectCallArg(OwnedObject(coins[i]))]),
          <<<<<<Pool, "coin">>, Worth(coins)>>>>)
  /\ UNCHANGED <<gas, funds>>

(* The caller puts the Argument of MakeObjList into a command of its own. *)
CallDepositList(coins) ==
  /\ coins # <<>>
  /\ Make("MakeObjList",
          Then(MakeObjList(b, [i \in DOMAIN coins |-> OwnedObject(coins[i])]),
               LAMBDA b1, list : Command(b1, MoveCallCommand("deposit", <<list>>))),
          <<<<<<Pool, "coin">>, Worth(coins)>>>>)
  /\ UNCHANGED <<gas, funds>>

CallPayAllSui(recipient) ==
  /\ gas # Spent
  /\ Make("PayAllSui", PayAllSui(b, recipient), <<<<<<recipient, "coin">>, gas>>>>)
  /\ gas' = Spent
  /\ UNCHANGED funds

CallTransferSui(recipient, amount) ==
  /\ gas >= amount /\ gas # Spent
  /\ Make("TransferSui", TransferSui(b, recipient, amount),
          <<<<<<recipient, "coin">>, IF amount = NoAmount THEN gas ELSE amount>>>>)
  /\ gas' = IF amount = NoAmount THEN Spent ELSE gas - amount
  /\ UNCHANGED funds

CallPaySui(payment) ==
  LET r == PaySui(b, payment[1], payment[2])
  IN /\ Make("PaySui", r, CoinDues(payment))
     /\ Accepted(r) /\ payment[2] # <<>> => gas >= Total(payment[2])
     /\ gas' = IF Accepted(r) THEN gas - Total(payment[2]) ELSE gas
     /\ UNCHANGED funds

CallPay(coins, payment) ==
  LET r == Pay(b, coins, payment[1], payment[2])
  IN /\ Make("Pay", r, CoinDues(payment))
     /\ Accepted(r) => Worth(coins) >= Total(payment[2])
     /\ UNCHANGED <<gas, funds>>

CallWithdrawalTransfer(recipient, coins, amount, withdrawal) ==
  LET r == WithdrawalTransfer(b, recipient, coins, amount, withdrawal)
  IN /\ Make("WithdrawalTransfer", r, <<<<<<recipient, "coin">>, amount>>>>)
     /\ Accepted(r) => funds >= withdrawal /\ Worth(coins) + withdrawal >= amount
     /\ funds' = IF Accepted(r) THEN funds - withdrawal ELSE funds
     /\ UNCHANGED gas

CallGaslessTransfer(recipient, coins, total, withdrawal) ==
  LET r == GaslessTransfer(b, Sender, recipient, coins, total, withdrawal)
  IN /\ Make("GaslessTransfer", r,
             <<<<<<recipient, "balance">>, total>>,
               <<<<Sender, "balance">>, Worth(coins) + withdrawal - total>>>>)
     /\ Accepted(r) => funds >= withdrawal /\ Worth(coins) + withdrawal >= total
     /\ funds' = IF Accepted(r) THEN funds - withdrawal ELSE funds
     /\ UNCHANGED gas

New ==
  /\ calls # <<>>
  /\ b' = NewBuilder
  /\ calls' = <<>>
  /\ promised' = NothingPaid
  /\ gas' = GasBalance
  /\ funds' = Funds

Next ==
  \/ \E recipient \in Addresses, coins \in CoinLists : CallTransferObject(recipient, coins)
  \/ \E coins \in CoinLists : CallDeposit(coins)
  \/ \E coins \in CoinLists : CallDepositList(coins)
  \/ \E recipient \in Addresses : CallPayAllSui(recipient)
  \/ \E recipient \in Addresses, amount \in Amounts \cup {NoAmount} :
       CallTransferSui(recipient, amount)
  \/ \E payment \in Payments : CallPaySui(payment)
  \/ \E coins \in CoinLists, payment \in Payments : CallPay(coins, payment)
  \/ \E recipient \in Addresses, coins \in CoinLists, amount, withdrawal \in Amounts :
       CallWithdrawalTransfer(recipient, coins, amount, withdrawal)
  \/ \E recipient \in Addresses, coins \in CoinLists, total, withdrawal \in Amounts :
       CallGaslessTransfer(recipient, coins, total, withdrawal)
  \/ New

Spec == Init /\ [][Next]_vars

-----------------------------------------------------------------------------
(* However the transfer calls are combined on one builder, and whichever    *)
(* rejected calls come between them, the finished transaction executes (no  *)
(* coin used twice, split beyond its value or left in a result) and every   *)
(* account receives exactly what the accepted calls were to pay it, as a    *)
(* coin or as address balance as the method says.                           *)
ExecutesAsPromised ==
  LET end == Execute(Finish(b))
  IN end.err = "none" /\ end.got = promised

(* A transaction of GaslessTransfer calls only writes no owned object: no   *)
(* coin is handed to anyone, none of the supplied coins survives, and the   *)
(* gas coin is not touched.                                                 *)
GaslessLeavesNoObject ==
  (\A i \in DOMAIN calls : calls[i].method = "GaslessTransfer") =>
    LET pt == Finish(b)
        end == Execute(pt)
    IN /\ \A a \in Addresses : end.got[<<a, "coin">>] = 0
       /\ Survivors(pt, end) = {}
       /\ end.at[GasCoin] = GasBalance

(* A reader of the rendered transaction: the ProgrammableTransaction it     *)
(* takes the inputs and commands for.                                       *)
ReadArgument(j) ==
  CASE "GasCoin" \in DOMAIN j -> GasCoin
    [] "Input" \in DOMAIN j -> InputArg(j.Input)
    [] "Result" \in DOMAIN j -> ResultArg(j.Result)
    [] "NestedResult" \in DOMAIN j -> NestedResultArg(j.NestedResult[1], j.NestedResult[2])

ReadArguments(js) == [i \in DOMAIN js |-> ReadArgument(js[i])]

ReadInput(j) ==
  CASE j.type = "pure" -> PureArg(j.value[2])
    [] j.type = "fundsWithdrawal" -> WithdrawalArg(j.maxAmountU64[2])
    [] j.type = "object" -> ObjectCallArg(OwnedObject(j.objectId[2]))

ReadCommand(j) ==
  CASE "TransferObjects" \in DOMAIN j ->
         TransferObjects(ReadArguments(j.TransferObjects[1]), ReadArgument(j.TransferObjects[2]))
    [] "SplitCoins" \in DOMAIN j ->
         SplitCoins(ReadArgument(j.SplitCoins[1]), ReadArguments(j.SplitCoins[2]))
    [] "MergeCoins" \in DOMAIN j ->
         MergeCoins(ReadArgument(j.MergeCoins[1]), ReadArguments(j.MergeCoins[2]))
    [] "MakeMoveVec" \in DOMAIN j -> MakeMoveVec(ReadArguments(j.MakeMoveVec[2]))
    [] "MoveCall" \in DOMAIN j ->
         MoveCallCommand(j.MoveCall.function, ReadArguments(j.MoveCall.arguments))

(* The finished transaction, paid for by the sender or by a sponsor, with   *)
(* an expiration or without, is shown as what it is: the inputs and         *)
(* commands read back give the transaction, the gas is shown with who pays  *)
(* it, every amount split off is shown as a number and every recipient of   *)
(* objects as an address, although the wire has no types, and no input is   *)
(* shown with the type of another.                                          *)
RenderingTells ==
  LET pt == Finish(b)
      own == TransactionBlockData(NewProgrammable(Sender, <<"gas">>, pt, 9, 1))
      expiring == TransactionBlockData(
                    NewProgrammableWithExpiration(Sender, <<>>, pt, 9, 1, <<"ValidDuring">>))
      shown == own.transaction
      valueType(arg) == shown.inputs[arg[2] + 1].valueType
  IN /\ [i \in DOMAIN shown.inputs |-> ReadInput(shown.inputs[i])] = pt.inputs
     /\ [i \in DOMAIN shown.commands |-> ReadCommand(shown.commands[i])] = pt.commands
     /\ \A sponsor \in Addresses :
          TransactionBlockData(NewProgrammableAllowSponsor(Sender, <<"gas">>, pt, 9, 1, sponsor))
            = [own EXCEPT !.gasData.owner = sponsor]
     /\ expiring = [own EXCEPT !.gasData.payment = <<>>]
     /\ \A i \in DOMAIN pt.commands :
          LET c == pt.commands[i]
          IN /\ c.name = "TransferObjects" => valueType(c.arg) = "address"
             /\ c.name = "SplitCoins" => \A a \in ToSet(c.args) : valueType(a) = "u64"
     /\ \A i \in DOMAIN pt.inputs :
          shown.inputs[i].type = "pure" /\ shown.inputs[i].valueType # "null" =>
            (shown.inputs[i].valueType = "address" <=> pt.inputs[i].val \in Addresses)

(* A WithdrawalTransfer or GaslessTransfer that is rejected leaves the      *)
(* builder as it was: no input, no command.                                 *)
RejectionLeavesBuilder ==
  [][(/\ Len(calls') > Len(calls)
      /\ calls'[Len(calls')].method \in {"WithdrawalTransfer", "GaslessTransfer"}
      /\ calls'[Len(calls')].err # "none") => b' = b]_vars
=============================================================================
