---------------------------- MODULE CoinSelection ---------------------------
(***************************************************************************)
(* Coin selection (types/coin.go): the functions a caller uses on the      *)
(* coins of an account before it builds a transaction.  The caller keeps   *)
(* them in a slice; PickCoinNoLess writes into the slice's backing array   *)
(* and PickSUICoinsWithGas returns a pointer into it, so the slice is      *)
(* state and one call can be felt by the results of another.               *)
(*                                                                         *)
(* A coin is [id, balance].  Balances are uint64; sums and target amounts  *)
(* are big.Int, and Uint64() of a big.Int keeps the low bits of its        *)
(* absolute value.                                                         *)
(***************************************************************************)
EXTENDS Integers, Sequences, FiniteSets, SequencesExt

CONSTANTS
  Wallets,          \* the slices a caller may start with
  Targets,          \* amounts to be covered
  Budgets,          \* gas budgets and gas amounts
  Limits,           \* values for limit
  MoreCounts,       \* values for moreCount
  MAX_INPUT_COUNT_MERGE,
  DefaultMoreCount, \* 10 in the code
  MaxGas,           \* uint64(10e9) in the code
  U64,              \* the number of uint64 values
  KeepsSlice        \* whether callers make several calls on one slice, or
                    \* fetch the coins again for each

ASSUME CoinAssumptions ==
  /\ Targets \subseteq Nat /\ Budgets \subseteq Nat
  /\ Limits \subseteq Int /\ MoreCounts \subseteq Int
  /\ MAX_INPUT_COUNT_MERGE \in Nat \ {0} /\ DefaultMoreCount \in Nat /\ MaxGas \in Nat
  /\ U64 \in Nat \ {0}
  /\ KeepsSlice \in BOOLEAN
  /\ \A w \in Wallets : /\ w \in Seq(ToSet(w)) /\ IsInjective(w)
                       /\ \A i \in DOMAIN w : w[i].balance \in 0..(U64 - 1)

VARIABLES
  cs,      \* the caller's slice, as its backing array stands
  call,    \* the last call: its operation and arguments
  res,     \* its results
  held     \* results of PickSUICoinsWithGas in use: the coins (copies), the
           \* gas coin as an index into cs (0 is nil), the gas asked for

vars == <<cs, call, res, held>>

Uint64(n) == (IF n < 0 THEN -n ELSE n) % U64

TotalBalance(coins) == FoldLeft(LAMBDA sum, c : sum + c.balance, 0, coins)

Prefix(coins, n) == SubSeq(coins, 1, n)

(* What a call returns: an error, or coins with their total. *)
Failed(err) == [err |-> err, coins |-> <<>>, total |-> 0]

PickedCoins(coins) == [err |-> "none", coins |-> coins, total |-> TotalBalance(coins)]

-----------------------------------------------------------------------------
(***************************************************************************)
(* PickupCoins.  The loop ends at the first coin that brings the count to  *)
(* moreCount and the total to the target with the gas budget; a coin past  *)
(* the limit ends it with an error.  A total that covers the target but    *)
(* not the whole gas budget is accepted when there are no more coins.      *)
(***************************************************************************)
LimitOf(limit) == IF limit <= 0 THEN MAX_INPUT_COUNT_MERGE ELSE limit

MoreCountOf(limit, moreCount) ==
  LET more == IF moreCount = 0 THEN DefaultMoreCount ELSE moreCount
  IN IF more > LimitOf(limit) THEN LimitOf(limit) ELSE more

(* Mutant: every total below the target with the gas budget is not enough. *)
Shortfall_strict(totalTarget, total, gasBudget, hasNextPage) ==
  IF hasNextPage THEN "ErrNeedMergeCoin" ELSE "ErrInsufficientBalance"

(* total < totalTarget, and the page was not cut short by the limit. *)
Shortfall(totalTarget, total, gasBudget, hasNextPage) ==
  IF hasNextPage THEN "ErrNeedMergeCoin"
  ELSE IF Uint64(totalTarget - total) > gasBudget THEN "ErrInsufficientBalance"
  ELSE "none"

(* Mutant: a total equal to the target goes on. *)
Breaks_strict(coins, totalTarget, more) ==
  {n \in DOMAIN coins : n >= more /\ TotalBalance(Prefix(coins, n)) > totalTarget}

(* The numbers of coins at which the loop may break. *)
Breaks(coins, totalTarget, more) ==
  {n \in DOMAIN coins : n >= more /\ TotalBalance(Prefix(coins, n)) >= totalTarget}

PickupCoins(coins, hasNextPage, targetAmount, gasBudget, limit, moreCount) ==
  LET totalTarget == targetAmount + gasBudget
      last == Min(Breaks(coins, totalTarget, MoreCountOf(limit, moreCount)) \cup {Len(coins)})
      err == Shortfall(totalTarget, TotalBalance(coins), gasBudget, hasNextPage)
  IN IF coins = <<>> THEN Failed("ErrNoCoinsFound")
     ELSE IF last > LimitOf(limit) THEN Failed("ErrNeedMergeCoin")
     ELSE IF TotalBalance(Prefix(coins, last)) < totalTarget /\ err # "none" THEN Failed(err)
     ELSE PickedCoins(Prefix(coins, last))

(* Mutant: the larger of the two bounds. *)
SuggestMaxGasBudget_larger(total, targetAmount) ==
  LET sub == Uint64(total - targetAmount)
  IN IF sub <= MaxGas THEN MaxGas ELSE sub

SuggestMaxGasBudget(total, targetAmount) ==
  LET sub == Uint64(total - targetAmount)
  IN IF sub <= MaxGas THEN sub ELSE MaxGas

-----------------------------------------------------------------------------
(***************************************************************************)
(* PickCoins, PickSUICoinsWithGas and PickCoinNoLess.                      *)
(***************************************************************************)
PickMethods == {"PickSmaller", "PickBigger", "PickByOrder"}

(* Mutant: the comparison is the wrong way round. *)
Sorted_reversed(coins, pickMethod) ==
  LET orders == {[i \in DOMAIN coins |-> coins[p[i]]] : p \in Bijection(DOMAIN coins, DOMAIN coins)}
  IN CASE pickMethod = "PickByOrder" -> {coins}
       [] pickMethod = "PickBigger" ->
            {s \in orders : \A i, j \in DOMAIN s : i < j => s[i].balance <= s[j].balance}
       [] pickMethod = "PickSmaller" ->
            {s \in orders : \A i, j \in DOMAIN s : i < j => s[i].balance >= s[j].balance}

(* The orders sort.Slice may leave: equal balances come in any order.  The  *)
(* caller's slice is not touched.                                           *)
Sorted(coins, pickMethod) ==
  LET orders == {[i \in DOMAIN coins |-> coins[p[i]]] : p \in Bijection(DOMAIN coins, DOMAIN coins)}
  IN CASE pickMethod = "PickByOrder" -> {coins}
       [] pickMethod = "PickSmaller" ->
            {s \in orders : \A i, j \in DOMAIN s : i < j => s[i].balance <= s[j].balance}
       [] pickMethod = "PickBigger" ->
            {s \in orders : \A i, j \in DOMAIN s : i < j => s[i].balance >= s[j].balance}

(* The shortest prefix that covers amount; it has at least one coin. *)
PickFrom(sortedCoins, amount) ==
  LET enough == {n \in DOMAIN sortedCoins : TotalBalance(Prefix(sortedCoins, n)) >= amount}
  IN IF enough = {} THEN Failed("ErrCoinsNeedMoreObject")
     ELSE PickedCoins(Prefix(sortedCoins, Min(enough)))

PickCoins(coins, amount, pickMethod) ==
  {PickFrom(s, amount) : s \in Sorted(coins, pickMethod)}

(* Mutant: the first coin that covers gasAmount. *)
GasCoinIndex_first(coins, gasAmount) ==
  LET fit == {i \in DOMAIN coins : coins[i].balance >= gasAmount}
  IN IF fit = {} THEN 0 ELSE Min(fit)

(* The index of the first of the smallest coins that cover gasAmount. *)
GasCoinIndex(coins, gasAmount) ==
  LET fit == {i \in DOMAIN coins : coins[i].balance >= gasAmount}
  IN IF fit = {} THEN 0
     ELSE Min({i \in fit : \A j \in fit : coins[i].balance <= coins[j].balance})

(* Mutant: the gas coin stays among the coins to pick from. *)
PickSUICoinsWithGas_kept(coins, amount, gasAmount, pickMethod) ==
  LET g == GasCoinIndex(coins, gasAmount)
  IN IF gasAmount = 0 THEN PickCoins(coins, amount, pickMethod) \X {0}
     ELSE IF coins = <<>> THEN {<<Failed("ErrCoinsNeedMoreObject"), 0>>}
     ELSE IF g = 0 THEN {<<Failed("ErrCoinsNotMatchRequest"), 0>>}
     ELSE PickCoins(coins, amount, pickMethod) \X {g}

(* Pairs of a result and the index of the gas coin. *)
PickSUICoinsWithGas(coins, amount, gasAmount, pickMethod) ==
  LET g == GasCoinIndex(coins, gasAmount)
  IN IF gasAmount = 0 THEN PickCoins(coins, amount, pickMethod) \X {0}
     ELSE IF coins = <<>> THEN {<<Failed("ErrCoinsNeedMoreObject"), 0>>}
     ELSE IF g = 0 THEN {<<Failed("ErrCoinsNotMatchRequest"), 0>>}
     ELSE PickCoins(RemoveAt(coins, g), amount, pickMethod) \X {g}

(* The first coin that covers amount, or 0. *)
NoLessIndex(coins, amount) ==
  LET fit == {i \in DOMAIN coins : coins[i].balance >= amount}
  IN IF fit = {} THEN 0 ELSE Min(fit)

(* Mutant: the picked coin stays and the one after it goes. *)
Shift_next(coins, i) ==
  [n \in DOMAIN coins |-> IF n > i /\ n < Len(coins) THEN coins[n + 1] ELSE coins[n]]

(* append(cs[:i], cs[i+1:]...) moves the coins after i one place down in    *)
(* the caller's array; the caller's slice keeps its length.                 *)
Shift(coins, i) ==
  [n \in DOMAIN coins |-> IF n >= i /\ n < Len(coins) THEN coins[n + 1] ELSE coins[n]]

PickCoinNoLess(coins, amount) ==
  LET i == NoLessIndex(coins, amount)
  IN IF i # 0 THEN PickedCoins(<<coins[i]>>)
     ELSE IF Len(coins) <= 3 THEN Failed("insufficient balance")
     ELSE Failed("no coin is enough to cover the gas")

-----------------------------------------------------------------------------
NoCall == [op |-> "none"]
NothingHeld == [coins |-> <<>>, gasAt |-> 0, gasAmount |-> 0]

Init ==
  /\ cs \in Wallets
  /\ call = NoCall
  /\ res = Failed("none")
  /\ held = NothingHeld

CallPickupCoins(target, budget, limit, more, hasNextPage) ==
  /\ call' = [op |-> "PickupCoins", target |-> target, budget |-> budget,
              limit |-> limit, more |-> more, hasNextPage |-> hasNextPage]
  /\ res' = PickupCoins(cs, hasNextPage, target, budget, limit, more)
  /\ held' = NothingHeld
  /\ UNCHANGED cs

CallPickCoins(amount, pickMethod) ==
  /\ call' = [op |-> "PickCoins", target |-> amount, method |-> pickMethod]
  /\ res' \in PickCoins(cs, amount, pickMethod)
  /\ held' = NothingHeld
  /\ UNCHANGED cs

CallPickSUICoinsWithGas(amount, gasAmount, pickMethod) ==
  /\ call' = [op |-> "PickSUICoinsWithGas", target |-> amount, budget |-> gasAmount,
              method |-> pickMethod]
  /\ \E r \in PickSUICoinsWithGas(cs, amount, gasAmount, pickMethod) :
       /\ res' = r[1]
       /\ held' = IF r[1].err = "none"
                    THEN [coins |-> r[1].coins, gasAt |-> r[2], gasAmount |-> gasAmount]
                    ELSE NothingHeld
  /\ UNCHANGED cs

CallPickCoinNoLess(amount) ==
  LET i == NoLessIndex(cs, amount)
  IN /\ call' = [op |-> "PickCoinNoLess", target |-> amount, before |-> cs]
     /\ res' = PickCoinNoLess(cs, amount)
     /\ cs' = IF i = 0 THEN cs ELSE Shift(cs, i)
     /\ UNCHANGED held

FetchWallet ==
  /\ call # NoCall
  /\ cs' \in Wallets
  /\ call' = NoCall
  /\ res' = Failed("none")
  /\ held' = NothingHeld

UseSlice ==
  \/ \E target \in Targets, budget \in Budgets, limit \in Limits, more \in MoreCounts,
        hasNextPage \in BOOLEAN : CallPickupCoins(target, budget, limit, more, hasNextPage)
  \/ \E amount \in Targets, pickMethod \in PickMethods : CallPickCoins(amount, pickMethod)
  \/ \E amount \in Targets, gasAmount \in Budgets, pickMethod \in PickMethods :
       CallPickSUICoinsWithGas(amount, gasAmount, pickMethod)
  \/ \E amount \in Targets : CallPickCoinNoLess(amount)

Next ==
  \/ (KeepsSlice \/ call = NoCall) /\ UseSlice
  \/ FetchWallet

Spec == Init /\ [][Next]_vars

-----------------------------------------------------------------------------
Succeeded(op) == call.op = op /\ res.err = "none"

(* Coins that PickupCoins returns are worth the target amount, even when    *)
(* they fall short of the gas budget: ErrInsufficientBalance is not missed. *)
PickupCoversTarget == Succeeded("PickupCoins") => res.total >= call.target

(* The coins of PickupCoins are worth the total it tells, and the budget    *)
(* SuggestMaxGasBudget proposes for them can be paid from them once the     *)
(* target amount is taken, so they cover the target too.                    *)
SuggestedGasAffordable ==
  Succeeded("PickupCoins") =>
    /\ res.total = TotalBalance(res.coins)
    /\ call.target + SuggestMaxGasBudget(res.total, call.target) <= res.total

(* PickupCoins takes the coins in their order, at most limit of them and at *)
(* least moreCount while there are any, and none beyond what that and the   *)
(* target with the gas budget need.                                         *)
PickupTakesNoMore ==
  Succeeded("PickupCoins") =>
    LET n == Len(res.coins)
        more == MoreCountOf(call.limit, call.more)
    IN /\ res.coins = Prefix(cs, n)
       /\ n <= LimitOf(call.limit)
       /\ n < Len(cs) => n >= more
       /\ n > 1 => \/ n <= more
                   \/ TotalBalance(Prefix(cs, n - 1)) < call.target + call.budget

(* PickupCoins says ErrNeedMergeCoin only if there are coins it may not use *)
(* and those it may do not pay target and gas budget, and                   *)
(* ErrInsufficientBalance only if all coins together miss the target.       *)
PickupErrorsJustified ==
  call.op = "PickupCoins" =>
    LET limit == LimitOf(call.limit)
        usable == IF Len(cs) > limit THEN Prefix(cs, limit) ELSE cs
    IN /\ res.err = "ErrNeedMergeCoin" =>
            /\ Len(cs) > limit \/ call.hasNextPage
            /\ TotalBalance(usable) < call.target + call.budget
       /\ res.err = "ErrInsufficientBalance" =>
            ~ call.hasNextPage /\ TotalBalance(cs) < call.target

(* What the coins at the places I are worth. *)
SumOver(coins, I) ==
  TotalBalance([i \in DOMAIN coins |-> [balance |-> IF i \in I THEN coins[i].balance ELSE 0]])

(* PickCoins fails only if no set of coins reaches the amount (a set with   *)
(* no coin does not count), covers it otherwise, with as few coins as can   *)
(* be under PickBigger and leaving no coin smaller than a picked one under  *)
(* PickSmaller.                                                             *)
PickCoinsByMethod ==
  call.op = "PickCoins" =>
    /\ res.err # "none" <=> cs = <<>> \/ SumOver(cs, DOMAIN cs) < call.target
    /\ res.err = "none" =>
         /\ IsInjective(res.coins) /\ ToSet(res.coins) \subseteq ToSet(cs)
         /\ res.total = TotalBalance(res.coins) /\ res.total >= call.target
         /\ call.method = "PickBigger" =>
              \A I \in (SUBSET DOMAIN cs) \ {{}} :
                SumOver(cs, I) >= call.target => Cardinality(I) >= Len(res.coins)
         /\ call.method = "PickSmaller" =>
              \A c \in ToSet(cs) \ ToSet(res.coins), d \in ToSet(res.coins) :
                c.balance >= d.balance

(* PickSUICoinsWithGas fails only if no choice of a gas coin leaves coins   *)
(* that cover the amount: taking the smallest coin that pays the gas never  *)
(* spoils a split that another gas coin would have allowed.                 *)
PickWithGasComplete ==
  call.op = "PickSUICoinsWithGas" /\ call.budget > 0 =>
    (res.err = "none" <=>
       \E g \in DOMAIN cs :
         /\ cs[g].balance >= call.budget
         /\ DOMAIN cs # {g}
         /\ SumOver(cs, DOMAIN cs \ {g}) >= call.target)

(* While the caller holds what PickSUICoinsWithGas returned, the gas coin   *)
(* pays the gas asked for and is not among the coins.                       *)
GasCoinSeparate ==
  held.gasAt # 0 =>
    /\ cs[held.gasAt].balance >= held.gasAmount
    /\ cs[held.gasAt] \notin ToSet(held.coins)

(* PickCoinNoLess takes one coin that is enough and leaves the others, in   *)
(* their order, in all but the last place of the slice.                     *)
NoLessLeavesOthers ==
  Succeeded("PickCoinNoLess") =>
    /\ Len(cs) = Len(call.before) /\ res.total >= call.target
    /\ \E i \in DOMAIN call.before : /\ res.coins = <<call.before[i]>>
                                    /\ Prefix(cs, Len(cs) - 1) = RemoveAt(call.before, i)
=============================================================================
