--------------------------- MODULE BuilderMethods ---------------------------
(***************************************************************************)
(* The methods of ProgrammableTransactionBuilder that build a transaction  *)
(* (programmable_transaction_builder.go and gasless_transfer.go), written  *)
(* with the primitives of BuilderOps, in the order in which the code calls *)
(* them.  Each returns an outcome; Then is the "if err != nil, return err" *)
(* between two calls, which keeps what was registered before the error.    *)
(*                                                                         *)
(* Coins and objects are ids of owned objects, amounts are numbers,        *)
(* addresses are values of their own.  There is one coin type.             *)
(***************************************************************************)
EXTENDS BuilderOps, SequencesExt

Then(r, rest(_, _)) == IF r.err # "none" THEN r ELSE rest(r.b, r.arg)

(* Commands; arg is the single Argument of the command, args the list. *)
TransferObjects(args, recipient) ==
  [name |-> "TransferObjects", arg |-> recipient, args |-> args]
SplitCoins(coin, amounts) == [name |-> "SplitCoins", arg |-> coin, args |-> amounts]
MergeCoins(coin, sources) == [name |-> "MergeCoins", arg |-> coin, args |-> sources]
MakeMoveVec(args) == [name |-> "MakeMoveVec", arg |-> NoArg, args |-> args]
MoveCallCommand(function, args) == [name |-> function, arg |-> NoArg, args |-> args]

(* A loop over xs that registers each with one and collects the Arguments. *)
Each(b, xs, one(_, _)) ==
  FoldLeft(LAMBDA acc, x :
             Then(acc, LAMBDA bb, args :
               LET r == one(bb, x)
               IN Outcome(r.b, IF r.err = "none" THEN Append(args, r.arg) ELSE NoArg, r.err)),
           Outcome(b, <<>>, "none"), xs)

Objs(b, ids) == Each(b, ids, LAMBDA bb, id : Obj(bb, OwnedObject(id)))

MakeObjList(b, objectArgs) ==
  Then(Each(b, objectArgs, Obj), LAMBDA b1, args : Command(b1, MakeMoveVec(args)))

MoveCall(b, function, callArgs) ==
  Then(Each(b, callArgs, Input), LAMBDA b1, args : Command(b1, MoveCallCommand(function, args)))

TransferObject(b, recipient, ids) ==
  Then(Pure(b, recipient), LAMBDA b1, rec :
    Then(Objs(b1, ids), LAMBDA b2, args :
      Command(b2, TransferObjects(args, rec))))

PayAllSui(b, recipient) ==
  Then(Pure(b, recipient), LAMBDA b1, rec :
    Command(b1, TransferObjects(<<GasCoin>>, rec)))

(* A nil amount, here NoAmount, is the whole gas coin. *)
NoAmount == -1

TransferSui(b, recipient, amount) ==
  Then(Pure(b, recipient), LAMBDA b1, rec :
    IF amount = NoAmount
      THEN Command(b1, TransferObjects(<<GasCoin>>, rec))
      ELSE Then(Pure(b1, amount), LAMBDA b2, amt :
             Then(Command(b2, SplitCoins(GasCoin, <<amt>>)), LAMBDA b3, coin :
               Command(b3, TransferObjects(<<coin>>, rec)))))

(* recipientMapKeyIndex: each recipient once, in the order of first use. *)
RecipientOrder(recipients) ==
  FoldLeft(LAMBDA acc, r : IF Contains(acc, r) THEN acc ELSE Append(acc, r), <<>>, recipients)

(* Mutant: the pieces of a recipient are counted from the first piece. *)
PositionsOf_own(recipients, v) ==
  [n \in 1..Cardinality({i \in DOMAIN recipients : recipients[i] = v}) |-> n]

(* recipientMap[v]: the positions of v, ascending. *)
PositionsOf(recipients, v) ==
  FoldLeft(LAMBDA is, i : IF recipients[i] = v THEN Append(is, i) ELSE is,
           <<>>, [i \in DOMAIN recipients |-> i])

PayMulInternal(b, recipients, amounts, coin) ==
  IF Len(recipients) # Len(amounts) THEN Outcome(b, NoArg, "LengthMismatch")
  ELSE IF amounts = <<>> THEN Outcome(b, NoArg, "none")
  ELSE
    Then(Each(b, amounts, Pure), LAMBDA b1, amts :
      Then(Command(b1, SplitCoins(coin, amts)), LAMBDA b2, split :
        LET pieces(v) ==
              LET is == PositionsOf(recipients, v)
              IN [n \in DOMAIN is |-> NestedResultArg(split[2], (is[n] - 1) % U16)]
            send(bb, v) ==
              Then(Pure(bb, v), LAMBDA b3, rec : Command(b3, TransferObjects(pieces(v), rec)))
        IN Each(b2, RecipientOrder(recipients), send)))

PaySui(b, recipients, amounts) == PayMulInternal(b, recipients, amounts, GasCoin)

Pay(b, coins, recipients, amounts) ==
  IF coins = <<>> THEN Outcome(b, NoArg, "CoinsEmpty")
  ELSE
    Then(Obj(b, OwnedObject(Head(coins))), LAMBDA b1, coin :
      Then(Objs(b1, Tail(coins)), LAMBDA b2, sources :
        PayMulInternal(IF sources # <<>> THEN Command(b2, MergeCoins(coin, sources)).b ELSE b2,
                       recipients, amounts, coin)))

-----------------------------------------------------------------------------
(***************************************************************************)
(* SIP-58 address balances.                                                *)
(***************************************************************************)
RedeemFunds(b, function, amount) ==
  Then(CreateFundsWithdrawalArgument(b, amount), LAMBDA b1, w :
    Command(b1, MoveCallCommand(function, <<w>>)))

SendFunds(b, function, value, recipient) ==
  Then(Pure(b, recipient), LAMBDA b1, rec :
    Command(b1, MoveCallCommand(function, <<value, rec>>)))

BalanceSendFunds(b, balance, recipient) == SendFunds(b, "balance::send_funds", balance, recipient)
CoinSendFunds(b, coin, recipient) == SendFunds(b, "coin::send_funds", coin, recipient)

(* splitCoinAmount: the new coin; the remainder stays in source. *)
SplitCoinAmount(b, source, amtArg) ==
  Then(Command(b, SplitCoins(source, <<amtArg>>)), LAMBDA b1, split :
    Outcome(b1, NestedResultArg(split[2], 0), "none"))

WithdrawalTransfer(b, recipient, coins, amount, withdrawal) ==
  IF withdrawal = 0 THEN Outcome(b, NoArg, "ZeroWithdrawal")
  ELSE IF coins = <<>> /\ withdrawal # amount THEN Outcome(b, NoArg, "AmountMismatch")
  ELSE
    Then(Pure(b, recipient), LAMBDA b1, rec :
      IF coins = <<>>
        THEN Then(RedeemFunds(b1, "coin::redeem_funds", withdrawal), LAMBDA b2, redeemed :
               Command(b2, TransferObjects(<<redeemed>>, rec)))
        ELSE
          Then(Pure(b1, amount), LAMBDA b2, amt :
            Then(RedeemFunds(b2, "coin::redeem_funds", withdrawal), LAMBDA b3, redeemed :
              Then(Obj(b3, OwnedObject(Head(coins))), LAMBDA b4, source :
                Then(Objs(b4, Tail(coins)), LAMBDA b5, sources :
                  Then(Command(b5, MergeCoins(source, Append(sources, redeemed))),
                    LAMBDA b6, merged :
                      Then(SplitCoinAmount(b6, source, amt), LAMBDA b7, piece :
                        Command(b7, TransferObjects(<<piece>>, rec)))))))))

(* mergeGaslessCoins: one coin with the value of all of them. *)
MergeGaslessCoins(b, coins, withdrawal) ==
  Then(Objs(b, coins), LAMBDA b1, coinArgs :
    LET r == RedeemFunds(b1, "coin::redeem_funds", withdrawal)
        b2 == IF withdrawal > 0 THEN r.b ELSE b1
        all == IF withdrawal > 0 THEN Append(coinArgs, r.arg) ELSE coinArgs
    IN Outcome(IF Len(all) > 1 THEN Command(b2, MergeCoins(all[1], Tail(all))).b ELSE b2,
               all[1], "none"))

(* Mutant: the recipient is registered before the amounts are compared. *)
GaslessTransferFromBalance_early(b, recipient, total, withdrawal) ==
  Then(Pure(b, recipient), LAMBDA b1, rec :
    IF withdrawal # total THEN Outcome(b1, NoArg, "AmountMismatch")
    ELSE Then(RedeemFunds(b1, "balance::redeem_funds", withdrawal), LAMBDA b2, balance :
           BalanceSendFunds(b2, balance, recipient)))

GaslessTransferFromBalance(b, recipient, total, withdrawal) ==
  IF withdrawal # total THEN Outcome(b, NoArg, "AmountMismatch")
  ELSE Then(RedeemFunds(b, "balance::redeem_funds", withdrawal), LAMBDA b1, balance :
         BalanceSendFunds(b1, balance, recipient))

(* Mutant: the remainder stays in the first coin. *)
GaslessTransferFromCoins_remainder(b, sender, recipient, coins, total, withdrawal) ==
  Then(MergeGaslessCoins(b, coins, withdrawal), LAMBDA b1, base :
    Then(Pure(b1, total), LAMBDA b2, amt :
      Then(SplitCoinAmount(b2, base, amt), LAMBDA b3, piece :
        CoinSendFunds(b3, piece, recipient))))

GaslessTransferFromCoins(b, sender, recipient, coins, total, withdrawal) ==
  Then(MergeGaslessCoins(b, coins, withdrawal), LAMBDA b1, base :
    Then(Pure(b1, total), LAMBDA b2, amt :
      Then(SplitCoinAmount(b2, base, amt), LAMBDA b3, piece :
        Then(CoinSendFunds(b3, piece, recipient), LAMBDA b4, sent :
          CoinSendFunds(b4, base, sender)))))

GaslessTransfer(b, sender, recipient, coins, total, withdrawal) ==
  IF total = 0 THEN Outcome(b, NoArg, "ZeroAmount")
  ELSE IF coins = <<>> THEN GaslessTransferFromBalance(b, recipient, total, withdrawal)
  ELSE GaslessTransferFromCoins(b, sender, recipient, coins, total, withdrawal)
=============================================================================
