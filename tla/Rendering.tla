------------------------------ MODULE Rendering -----------------------------
(***************************************************************************)
(* A finished transaction becomes TransactionData (transaction.go), and    *)
(* what a caller is shown of it is rendered from the decoded               *)
(* TransactionData (convert_transactiondata.go, convert_ptbjson.go): the   *)
(* wire does not carry the types of pure inputs, so they are inferred from *)
(* the commands that use them.  BCS is external and injective; a number is *)
(* a u64 and printed text stands for what is printed.                      *)
(***************************************************************************)
EXTENDS MoveExec

(* TransactionData V1. *)
NewWithGasCoinsAllowSponsor(kind, sender, payment, budget, price, sponsor) ==
  [kind |-> kind, sender |-> sender, expiration |-> <<"None">>,
   gas |-> [payment |-> payment, owner |-> sponsor, price |-> price, budget |-> budget]]

NewProgrammableAllowSponsor(sender, payment, pt, budget, price, sponsor) ==
  NewWithGasCoinsAllowSponsor([ProgrammableTransaction |-> pt], sender, payment, budget, price, sponsor)

NewProgrammable(sender, payment, pt, budget, price) ==
  NewProgrammableAllowSponsor(sender, payment, pt, budget, price, sender)

NewProgrammableWithExpiration(sender, payment, pt, budget, price, expiration) ==
  [NewProgrammable(sender, payment, pt, budget, price) EXCEPT !.expiration = expiration]

-----------------------------------------------------------------------------
Printed(x) == <<"text", x>>

(* Mutant: only the first amount of a split is typed. *)
PureValueTypes_first(pt) ==
  FoldLeft(LAMBDA types, c :
             [i \in DOMAIN types |->
                CASE c.name = "TransferObjects" /\ c.arg = InputArg(i - 1) -> "address"
                  [] c.name = "SplitCoins" /\ c.args[1] = InputArg(i - 1) -> "u64"
                  [] OTHER -> types[i]],
           [i \in DOMAIN pt.inputs |-> "null"], pt.commands)

(* Recipients are addresses, amounts u64; a later command overrides an      *)
(* earlier one.                                                             *)
PureValueTypes(pt) ==
  FoldLeft(LAMBDA types, c :
             [i \in DOMAIN types |->
                CASE c.name = "TransferObjects" /\ c.arg = InputArg(i - 1) -> "address"
                  [] c.name = "SplitCoins" /\ Contains(c.args, InputArg(i - 1)) -> "u64"
                  [] OTHER -> types[i]],
           [i \in DOMAIN pt.inputs |-> "null"], pt.commands)

ByteLength(value) == IF value \in Addresses THEN 32 ELSE 8

(* Typed if the bytes fit the type, raw bytes otherwise. *)
PureJSON(value, valueType) ==
  IF <<valueType, ByteLength(value)>> \in {<<"u64", 8>>, <<"address", 32>>}
    THEN [type |-> "pure", valueType |-> valueType, value |-> Printed(value)]
    ELSE [type |-> "pure", valueType |-> "null", value |-> <<"bytes", value>>]

FundsWithdrawalJSON(w) ==
  [type |-> "fundsWithdrawal", maxAmountU64 |-> Printed(w), withdrawFrom |-> "sender"]

CallArgJSON(arg, valueType) ==
  CASE arg.kind = "Pure" -> PureJSON(arg.val, valueType)
    [] arg.kind = "Object" /\ arg.val.kind = "ImmOrOwned" ->
         [type |-> "object", objectType |-> "immOrOwnedObject", objectId |-> Printed(arg.val.id)]
    [] arg.kind = "Object" /\ arg.val.kind = "Receiving" ->
         [type |-> "object", objectType |-> "receiving", objectId |-> Printed(arg.val.id)]
    [] arg.kind = "Object" /\ arg.val.kind = "Shared" ->
         [type |-> "object", objectType |-> "sharedObject", objectId |-> Printed(arg.val.id),
          initialSharedVersion |-> Printed(arg.val.version), mutable |-> arg.val.mutable]
    [] arg.kind = "FundsWithdrawal" -> FundsWithdrawalJSON(arg.val)

ArgumentJSON(arg) ==
  CASE arg[1] = "GasCoin" -> [GasCoin |-> "GasCoin"]
    [] arg[1] = "Input" -> [Input |-> arg[2]]
    [] arg[1] = "Result" -> [Result |-> arg[2]]
    [] arg[1] = "NestedResult" -> [NestedResult |-> <<arg[2], arg[3]>>]

ArgumentsJSON(args) == [i \in DOMAIN args |-> ArgumentJSON(args[i])]

(* Positional arrays, the ids of a package, and a struct for a MoveCall.    *)
(* No method of the builder makes a Publish, [name, objects], or an         *)
(* Upgrade, [name, objects, id, arg]: they come from other builders.        *)
CommandJSON(c) ==
  CASE c.name = "TransferObjects" -> [TransferObjects |-> <<ArgumentsJSON(c.args), ArgumentJSON(c.arg)>>]
    [] c.name = "SplitCoins" -> [SplitCoins |-> <<ArgumentJSON(c.arg), ArgumentsJSON(c.args)>>]
    [] c.name = "MergeCoins" -> [MergeCoins |-> <<ArgumentJSON(c.arg), ArgumentsJSON(c.args)>>]
    [] c.name = "MakeMoveVec" -> [MakeMoveVec |-> <<Printed("type"), ArgumentsJSON(c.args)>>]
    [] c.name = "Publish" -> [Publish |-> Printed(c.objects)]
    [] c.name = "Upgrade" -> [Upgrade |-> <<Printed(c.objects), Printed(c.id), ArgumentJSON(c.arg)>>]
    [] OTHER -> [MoveCall |-> [function |-> c.name, arguments |-> ArgumentsJSON(c.args)]]

ProgrammableTransactionBlock(pt) ==
  [inputs |-> [i \in DOMAIN pt.inputs |-> CallArgJSON(pt.inputs[i], PureValueTypes(pt)[i])],
   commands |-> [i \in DOMAIN pt.commands |-> CommandJSON(pt.commands[i])]]

(* The expiration is not shown.  Decoded data holds no nil payment; kinds   *)
(* other than a programmable transaction are not built by this package.     *)
ToInternalTransactionBlock(data, signatures) ==
  [transaction |-> ProgrammableTransactionBlock(data.kind.ProgrammableTransaction),
   sender |-> data.sender,
   gasData |-> [data.gas EXCEPT !.price = Printed(@), !.budget = Printed(@)],
   txSignatures |-> [i \in DOMAIN signatures |-> Printed(signatures[i])]]

TransactionBlockData(data) == ToInternalTransactionBlock(data, <<>>)
=============================================================================
