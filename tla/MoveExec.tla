------------------------------ MODULE MoveExec ------------------------------
(***************************************************************************)
(* EXTERNAL: what a Sui validator does with a finished programmable        *)
(* transaction, as far as the builder's methods rely on it.  Coins are     *)
(* values that move: each is in one place, is taken by the command that    *)
(* uses it by value, and may not be left over in a result, because Coin<T> *)
(* and Balance<T> have no drop ability.                                    *)
(*                                                                         *)
(* A machine is [at, got, err]:                                            *)
(*   at    the places that hold a coin (or balance, or withdrawal) and the *)
(*         amount in each; a place is GasCoin, InputArg(i) or              *)
(*         NestedResultArg(c, i)                                           *)
(*   got   the amounts delivered, by <<address, "coin" or "balance">>      *)
(*   err   "none" or why the transaction aborts                            *)
(***************************************************************************)
EXTENDS BuilderMethods

CONSTANTS
  Addresses,      \* accounts that can be paid
  Pool,           \* what a "deposit" call pays into
  CoinBalance,    \* the balance of each owned coin when the transaction runs
  GasBalance      \* the balance of the gas coin

Accounts == (Addresses \cup {Pool}) \X {"coin", "balance"}
NothingPaid == [a \in Accounts |-> 0]

Total(s) == FoldLeft(LAMBDA x, y : x + y, 0, s)

(* How many results a command has. *)
Width(c) ==
  CASE c.name = "SplitCoins" -> Len(c.args)
    [] c.name \in {"MakeMoveVec", "coin::redeem_funds", "balance::redeem_funds"} -> 1
    [] OTHER -> 0

(* A Result argument is short for the one result of its command. *)
Place(pt, arg) ==
  IF arg[1] = "Result" /\ Width(pt.commands[arg[2] + 1]) = 1
    THEN NestedResultArg(arg[2], 0)
    ELSE arg

TypeOf(pt, place) ==
  CASE place[1] = "Input" -> pt.inputs[place[2] + 1].kind
    [] place[1] = "NestedResult" ->
         (CASE pt.commands[place[2] + 1].name = "balance::redeem_funds" -> "Balance"
            [] pt.commands[place[2] + 1].name = "MakeMoveVec" -> "Vector"
            [] OTHER -> "Object")
    [] place[1] = "GasCoin" -> "Object"

PureOf(pt, arg) == pt.inputs[arg[2] + 1].val

Abort(m, why) == [m EXCEPT !.err = why]

Without(at, places) == [p \in DOMAIN at \ places |-> at[p]]

(* m after the values at args, of the given types, are taken; k continues   *)
(* with their amounts.                                                      *)
Take(pt, m, types, args, k(_, _)) ==
  LET places == [i \in DOMAIN args |-> Place(pt, args[i])]
  IN IF ~ IsInjective(places) \/ ~ ToSet(places) \subseteq DOMAIN m.at
       THEN Abort(m, "InvalidValueUsage")
     ELSE IF \E i \in DOMAIN places : TypeOf(pt, places[i]) \notin types
       THEN Abort(m, "TypeMismatch")
     ELSE k([m EXCEPT !.at = Without(m.at, ToSet(places))],
            [i \in DOMAIN args |-> m.at[places[i]]])

Pay1(m, account, amount) == [m EXCEPT !.got[account] = @ + amount]

Put(m, c, amounts) ==
  [m EXCEPT !.at = [p \in DOMAIN m.at \cup {NestedResultArg(c, i - 1) : i \in DOMAIN amounts} |->
                      IF p \in DOMAIN m.at THEN m.at[p] ELSE amounts[p[3] + 1]]]

Split(pt, m, c, coin, amounts) ==
  LET from == Place(pt, coin)
  IN IF from \notin DOMAIN m.at THEN Abort(m, "InvalidValueUsage")
     ELSE IF Total(amounts) > m.at[from] THEN Abort(m, "InsufficientCoinBalance")
     ELSE Put([m EXCEPT !.at[from] = @ - Total(amounts)], c, amounts)

Merge(pt, m, coin, sources) ==
  LET into == Place(pt, coin)
      merged(m1, amounts) ==
        IF into \notin DOMAIN m1.at THEN Abort(m, "InvalidValueUsage")
        ELSE [m1 EXCEPT !.at[into] = @ + Total(amounts)]
  IN Take(pt, m, {"Object"}, sources, merged)

(* The gas coin may be taken by TransferObjects only. *)
Step(pt, m, c) ==
  LET cmd == pt.commands[c + 1]
      deliver(types, to, what, args) ==
        Take(pt, m, types, args, LAMBDA m1, amounts : Pay1(m1, <<to, what>>, Total(amounts)))
      make(types) ==
        Take(pt, m, types, cmd.args, LAMBDA m1, amounts : Put(m1, c, <<Total(amounts)>>))
      send(type) == deliver({type}, PureOf(pt, cmd.args[2]), "balance", <<cmd.args[1]>>)
  IN IF m.err # "none" THEN m
     ELSE IF GasCoin \in ToSet(cmd.args) /\ cmd.name # "TransferObjects"
       THEN Abort(m, "InvalidGasCoinUsage")
     ELSE CASE cmd.name = "TransferObjects" ->
                 deliver({"Object"}, PureOf(pt, cmd.arg), "coin", cmd.args)
            [] cmd.name = "SplitCoins" ->
                 Split(pt, m, c, cmd.arg, [i \in DOMAIN cmd.args |-> PureOf(pt, cmd.args[i])])
            [] cmd.name = "MergeCoins" -> Merge(pt, m, cmd.arg, cmd.args)
            [] cmd.name = "MakeMoveVec" -> make({"Object"})
            [] cmd.name = "deposit" -> deliver({"Object", "Vector"}, Pool, "coin", cmd.args)
            [] cmd.name = "coin::redeem_funds" -> make({"FundsWithdrawal"})
            [] cmd.name = "balance::redeem_funds" -> make({"FundsWithdrawal"})
            [] cmd.name = "coin::send_funds" -> send("Object")
            [] cmd.name = "balance::send_funds" -> send("Balance")

(* The machine before the first command: the places of pt's inputs. *)
Load(pt) ==
  LET holding == {i \in DOMAIN pt.inputs : pt.inputs[i].kind # "Pure"}
      amount(i) == IF pt.inputs[i].kind = "Object"
                     THEN CoinBalance[pt.inputs[i].val.id]
                     ELSE pt.inputs[i].val
  IN [at  |-> [p \in {InputArg(i - 1) : i \in holding} \cup {GasCoin} |->
                 IF p = GasCoin THEN GasBalance ELSE amount(p[2] + 1)],
      got |-> NothingPaid,
      err |-> "none"]

Execute(pt) ==
  LET end == FoldLeft(LAMBDA m, c : Step(pt, m, c), Load(pt),
                      [i \in DOMAIN pt.commands |-> i - 1])
  IN IF end.err = "none" /\ \E p \in DOMAIN end.at : p[1] = "NestedResult"
       THEN Abort(end, "UnusedValueWithoutDrop")
       ELSE end

(* The owned objects that exist after the transaction. *)
Survivors(pt, end) ==
  {i \in DOMAIN pt.inputs : pt.inputs[i].kind = "Object" /\ InputArg(i - 1) \in DOMAIN end.at}
=============================================================================
