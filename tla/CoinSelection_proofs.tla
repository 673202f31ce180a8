------------------------ MODULE CoinSelection_proofs ------------------------
(***************************************************************************)
(* Proofs about CoinSelection, for slices of any length and any balances,  *)
(* targets, budgets and limits.                                            *)
(***************************************************************************)
EXTENDS CoinSelection, SequenceTheorems, FiniteSetTheorems, WellFoundedInduction, TLAPS

(* A set of natural numbers that is not empty has a least element. *)
LEMMA LeastNatural ==
  ASSUME NEW S \in SUBSET Nat, S # {}
  PROVE  \E m \in S : \A n \in S : m <= n
<1> DEFINE R == {ss \in Nat \X Nat : ss[1] < ss[2]}
<1>1. IsWellFoundedOn(R, Nat)
  BY NatLessThanWellFounded DEF OpToRel
<1>2. \E m \in S : \A n \in S : ~ (<<n, m>> \in R)
  <2> HIDE DEF R
  <2> QED BY <1>1, WFMin
<1>3. PICK m \in S : \A n \in S : ~ (<<n, m>> \in R)
  BY <1>2
<1>4. \A n \in S : m <= n
  <2> TAKE n \in S
  <2>1. ~ (<<n, m>> \in R)
    BY <1>3
  <2>2. <<n, m>> \in Nat \X Nat
    BY <1>3
  <2>3. <<n, m>>[1] = n /\ <<n, m>>[2] = m
    OBVIOUS
  <2>4. ~ (n < m)
    BY <2>1, <2>2, <2>3
  <2> QED BY <2>4
<1> QED BY <1>4

(* A set that has 0 and with a number the next one has all of them. *)
LEMMA SetInduction ==
  ASSUME NEW S, 0 \in S, \A n \in Nat : n \in S => n + 1 \in S
  PROVE  Nat \subseteq S
<1> SUFFICES ASSUME Nat \ S # {} PROVE FALSE
  OBVIOUS
<1>1. PICK m \in Nat \ S : \A n \in Nat \ S : m <= n
  BY LeastNatural
<1>2. m # 0 /\ m - 1 \in Nat
  BY <1>1
<1>3. m - 1 \in S
  BY <1>1, <1>2
<1> QED BY <1>1, <1>2, <1>3

AddBalance(sum, c, p) == sum + c.balance

F == INSTANCE SeqFolds WITH op <- AddBalance

(* Induction, the hypothesis of F. *)
LEMMA FInduction == F!Induction
BY SetInduction DEF F!Induction

-----------------------------------------------------------------------------
(***************************************************************************)
(* Totals.                                                                 *)
(***************************************************************************)
(* A sequence of coins, or of anything else that has a balance. *)
Slice(s) == s \in Seq(ToSet(s)) /\ \A i \in DOMAIN s : s[i].balance \in Nat

(* TotalBalance adds up the balances from the left. *)
LEMMA TotalIsFold ==
  ASSUME NEW s PROVE TotalBalance(s) = F!Fold(0, 0, s)
BY DEF TotalBalance, AddBalance, F!Fold, FoldLeft, MapThenFoldSet, F!MapThenFoldSet, Max, F!Max

(* The total of a prefix that is one coin longer. *)
LEMMA TotalSteps ==
  ASSUME NEW s, Slice(s)
  PROVE  /\ TotalBalance(Prefix(s, 0)) = 0
         /\ \A n \in Nat : n + 1 <= Len(s) =>
              TotalBalance(Prefix(s, n + 1)) = TotalBalance(Prefix(s, n)) + s[n + 1].balance
<1>1. Prefix(s, 0) = <<>>
  BY DEF Slice, Prefix
<1>2. TotalBalance(<<>>) = 0
  BY TotalIsFold, FInduction, F!FoldEmpty
<1>3. ASSUME NEW n \in Nat, n + 1 <= Len(s)
      PROVE  TotalBalance(Prefix(s, n + 1)) = TotalBalance(Prefix(s, n)) + s[n + 1].balance
  <2>1. F!Fold(0, 0, SubSeq(s, 1, n + 1)) = AddBalance(F!Fold(0, 0, SubSeq(s, 1, n)), s[n + 1], 0)
    <3>1. s \in Seq(ToSet(s))
      BY DEF Slice
    <3> QED BY <1>3, <3>1, FInduction, F!FoldPrefix
  <2> QED BY <2>1, TotalIsFold DEF AddBalance, Prefix
<1> QED BY <1>1, <1>2, <1>3

(* The places and prefixes of a slice. *)
LEMMA SliceFacts ==
  ASSUME NEW s, Slice(s)
  PROVE  /\ Len(s) \in Nat /\ DOMAIN s = 1..Len(s)
         /\ \A i \in 1..Len(s) : s[i].balance \in Nat
         /\ Prefix(s, Len(s)) = s
         /\ \A n \in 0..Len(s) : /\ Len(Prefix(s, n)) = n /\ DOMAIN Prefix(s, n) = 1..n
                                 /\ \A i \in 1..n : Prefix(s, n)[i] = s[i]
BY DEF Slice, Prefix

(* Totals are natural numbers and grow with the prefix. *)
LEMMA TotalGrows ==
  ASSUME NEW s, Slice(s)
  PROVE  /\ \A n \in 0..Len(s) : TotalBalance(Prefix(s, n)) \in Nat
         /\ \A m, n \in 0..Len(s) : m <= n => TotalBalance(Prefix(s, m)) <= TotalBalance(Prefix(s, n))
         /\ TotalBalance(s) \in Nat
<1> DEFINE T(n) == TotalBalance(Prefix(s, n))
           K == {n \in Nat : n <= Len(s) => T(n) \in Nat /\ \A m \in 0..n : T(m) \in Nat /\ T(m) <= T(n)}
<1>1. Len(s) \in Nat /\ \A i \in 1..Len(s) : s[i].balance \in Nat
  BY SliceFacts
<1>2. T(0) = 0 /\ \A n \in Nat : n + 1 <= Len(s) => T(n + 1) = T(n) + s[n + 1].balance
  BY TotalSteps
<1> HIDE DEF T
<1>3. 0 \in K
  BY <1>2
<1>4. ASSUME NEW n \in Nat, n \in K PROVE n + 1 \in K
  <2> SUFFICES ASSUME n + 1 <= Len(s)
               PROVE  T(n + 1) \in Nat /\ \A m \in 0..(n + 1) : T(m) \in Nat /\ T(m) <= T(n + 1)
    OBVIOUS
  <2>1. T(n) \in Nat /\ \A m \in 0..n : T(m) \in Nat /\ T(m) <= T(n)
    BY <1>1, <1>4
  <2>2. s[n + 1].balance \in Nat /\ T(n + 1) = T(n) + s[n + 1].balance
    BY <1>1, <1>2
  <2>3. T(n + 1) \in Nat /\ T(n) <= T(n + 1)
    BY <2>1, <2>2
  <2>4. ASSUME NEW m \in 0..(n + 1) PROVE T(m) \in Nat /\ T(m) <= T(n + 1)
    <3>1. CASE m = n + 1
      BY <2>3, <3>1
    <3>2. CASE m # n + 1
      <4>1. m \in 0..n
        BY <3>2
      <4> QED BY <2>1, <2>3, <4>1
    <3> QED BY <3>1, <3>2
  <2> QED BY <2>3, <2>4
<1> HIDE DEF K
<1>5. Nat \subseteq K
  BY <1>3, <1>4, SetInduction
<1>6. ASSUME NEW n \in 0..Len(s) PROVE T(n) \in Nat /\ \A m \in 0..n : T(m) <= T(n)
  <2>1. n \in K /\ n <= Len(s)
    BY <1>1, <1>5
  <2> QED BY <2>1 DEF K
<1>7. ASSUME NEW m \in 0..Len(s), NEW n \in 0..Len(s), m <= n PROVE T(m) <= T(n)
  <2>1. m \in 0..n
    BY <1>1, <1>7
  <2> QED BY <1>6, <2>1
<1>8. T(Len(s)) \in Nat
  BY <1>1, <1>6
<1>9. Prefix(s, Len(s)) = s
  BY SliceFacts
<1>10. TotalBalance(s) \in Nat
  BY <1>8, <1>9 DEF T
<1> QED BY <1>6, <1>7, <1>10 DEF T

(* The least element of a set of natural numbers. *)
LEMMA MinOf ==
  ASSUME NEW S \in SUBSET Nat, S # {}
  PROVE  Min(S) \in S /\ \A n \in S : Min(S) <= n
<1>1. \E m \in S : \A n \in S : m <= n
  BY LeastNatural
<1> QED BY <1>1 DEF Min

-----------------------------------------------------------------------------
(***************************************************************************)
(* PickupCoins.                                                            *)
(***************************************************************************)
Stop(coins, totalTarget, more) == Min(Breaks(coins, totalTarget, more) \cup {Len(coins)})

(* Where the loop stops: at the first coin at which it may break, or at the *)
(* last one.                                                                *)
LEMMA StopFacts ==
  ASSUME NEW coins, Slice(coins), coins # <<>>, NEW totalTarget \in Int, NEW more \in Int
  PROVE  LET last == Stop(coins, totalTarget, more)
         IN /\ last \in 1..Len(coins)
            /\ last # Len(coins) => last >= more
            /\ last # Len(coins) => TotalBalance(Prefix(coins, last)) >= totalTarget
            /\ \A n \in 1..Len(coins) : n < last /\ n >= more => TotalBalance(Prefix(coins, n)) < totalTarget
<1> DEFINE B == Breaks(coins, totalTarget, more)
           last == Stop(coins, totalTarget, more)
<1>1. Len(coins) \in Nat /\ DOMAIN coins = 1..Len(coins)
  BY SliceFacts
<1>2. Len(coins) # 0
  BY EmptySeq DEF Slice
<1>3. B \in SUBSET (1..Len(coins))
  BY <1>1 DEF Breaks
<1>4. \A n \in 1..Len(coins) : TotalBalance(Prefix(coins, n)) \in Nat
  BY <1>1, TotalGrows
<1>5. \A n \in 1..Len(coins) : n \in B <=> n >= more /\ TotalBalance(Prefix(coins, n)) >= totalTarget
  BY <1>1 DEF Breaks
<1> HIDE DEF B
<1>11. \A n \in B : n \in 1..Len(coins)
  BY <1>3
<1>6. B \cup {Len(coins)} \in SUBSET Nat
  <2>1. \A n \in B : n \in Nat
    BY <1>1, <1>11
  <2> QED BY <1>1, <2>1
<1>7. last \in B \cup {Len(coins)} /\ \A n \in B \cup {Len(coins)} : last <= n
  BY <1>6, MinOf DEF Stop, B
<1> HIDE DEF last
<1>8. last \in 1..Len(coins)
  <2>1. Len(coins) \in 1..Len(coins)
    BY <1>1, <1>2
  <2> QED BY <1>7, <1>11, <2>1
<1>9. last # Len(coins) => last >= more /\ TotalBalance(Prefix(coins, last)) >= totalTarget
  BY <1>5, <1>7, <1>8
<1>10. ASSUME NEW n \in 1..Len(coins), n < last, n >= more
       PROVE  TotalBalance(Prefix(coins, n)) < totalTarget
  <2>1. n \notin B
    BY <1>7, <1>8, <1>10
  <2>2. ~ (TotalBalance(Prefix(coins, n)) >= totalTarget)
    BY <1>5, <1>10, <2>1
  <2> QED BY <1>4, <2>2
<1> QED BY <1>8, <1>9, <1>10 DEF last

(* The bounds PickupCoins works with; moreCount is cut to the limit. *)
LEMMA LimitFacts ==
  ASSUME NEW limit \in Int, NEW moreCount \in Int
  PROVE  /\ LimitOf(limit) \in Nat \ {0} /\ MoreCountOf(limit, moreCount) \in Int
         /\ MoreCountOf(limit, moreCount) <= LimitOf(limit)
BY CoinAssumptions DEF LimitOf, MoreCountOf

(* Uint64 of a number that is not negative is at most this number, and the  *)
(* number itself if it fits.                                                *)
LEMMA LowBits ==
  ASSUME NEW n \in Nat
  PROVE  Uint64(n) \in Nat /\ Uint64(n) <= n /\ (n < U64 => Uint64(n) = n)
<1>1. U64 \in Nat /\ U64 > 0
  BY CoinAssumptions
<1>2. Uint64(n) = n % U64
  BY DEF Uint64
<1>3. n = U64 * (n \div U64) + (n % U64) /\ n % U64 \in 0..(U64 - 1)
  BY <1>1
<1>4. n \div U64 \in Nat
  BY <1>1
<1>5. U64 * (n \div U64) >= 0
  BY <1>1, <1>4
<1>6. n % U64 <= n
  BY <1>1, <1>3, <1>5
<1>7. n < U64 => n % U64 = n
  BY <1>1
<1> QED BY <1>1, <1>2, <1>3, <1>6, <1>7

(* The four ways PickupCoins ends. *)
PickupEnds(r, coins, hasNextPage, targetAmount, gasBudget, limit, moreCount) ==
  LET totalTarget == targetAmount + gasBudget
      last == Stop(coins, totalTarget, MoreCountOf(limit, moreCount))
      short == TotalBalance(Prefix(coins, last)) < totalTarget
      err == Shortfall(totalTarget, TotalBalance(coins), gasBudget, hasNextPage)
  IN \/ coins = <<>> /\ r = Failed("ErrNoCoinsFound")
     \/ coins # <<>> /\ last > LimitOf(limit) /\ r = Failed("ErrNeedMergeCoin")
     \/ coins # <<>> /\ last <= LimitOf(limit) /\ short /\ err # "none" /\ r = Failed(err)
     \/ coins # <<>> /\ last <= LimitOf(limit) /\ (short => err = "none") /\ r = PickedCoins(Prefix(coins, last))

(* PickupCoins ends in one of these ways. *)
LEMMA PickupCases ==
  ASSUME NEW coins, Slice(coins), NEW hasNextPage \in BOOLEAN, NEW targetAmount \in Nat, NEW gasBudget \in Nat,
         NEW limit \in Int, NEW moreCount \in Int
  PROVE  PickupEnds(PickupCoins(coins, hasNextPage, targetAmount, gasBudget, limit, moreCount),
                    coins, hasNextPage, targetAmount, gasBudget, limit, moreCount)
<1> DEFINE totalTarget == targetAmount + gasBudget
           more == MoreCountOf(limit, moreCount)
           last == Stop(coins, totalTarget, more)
           short == TotalBalance(Prefix(coins, last)) < totalTarget
           err == Shortfall(totalTarget, TotalBalance(coins), gasBudget, hasNextPage)
           r == PickupCoins(coins, hasNextPage, targetAmount, gasBudget, limit, moreCount)
<1>1. r = IF coins = <<>> THEN Failed("ErrNoCoinsFound")
          ELSE IF last > LimitOf(limit) THEN Failed("ErrNeedMergeCoin")
          ELSE IF short /\ err # "none" THEN Failed(err)
          ELSE PickedCoins(Prefix(coins, last))
  BY DEF PickupCoins, Stop
<1>2. coins # <<>> => (last > LimitOf(limit) \/ last <= LimitOf(limit))
  <2> SUFFICES ASSUME coins # <<>> PROVE last > LimitOf(limit) \/ last <= LimitOf(limit)
    OBVIOUS
  <2>1. LimitOf(limit) \in Int /\ more \in Int /\ totalTarget \in Int
    BY LimitFacts
  <2>2. last \in 1..Len(coins) /\ Len(coins) \in Nat
    <3> HIDE DEF more, totalTarget
    <3> QED BY <2>1, StopFacts, SliceFacts
  <2> HIDE DEF last
  <2> QED BY <2>1, <2>2
<1> HIDE DEF r, last, short, err
<1>3. \/ coins = <<>> /\ r = Failed("ErrNoCoinsFound")
      \/ coins # <<>> /\ last > LimitOf(limit) /\ r = Failed("ErrNeedMergeCoin")
      \/ coins # <<>> /\ last <= LimitOf(limit) /\ short /\ err # "none" /\ r = Failed(err)
      \/ coins # <<>> /\ last <= LimitOf(limit) /\ (short => err = "none") /\ r = PickedCoins(Prefix(coins, last))
  BY <1>1, <1>2
<1> QED BY <1>3 DEF PickupEnds, r, last, short, err

(* r takes the first n coins, at most max; if they miss the target and the  *)
(* gas budget they are all there are, and miss at most the gas budget.      *)
Took(r, n, coins, max, more, totalTarget, gasBudget) ==
  /\ n \in 1..Len(coins) /\ r.coins = Prefix(coins, n) /\ r.total = TotalBalance(r.coins)
  /\ n <= max
  /\ n < Len(coins) => n >= more
  /\ n > 1 => n <= more \/ TotalBalance(Prefix(coins, n - 1)) < totalTarget
  /\ \/ r.total >= totalTarget
     \/ /\ n = Len(coins) /\ r.total = TotalBalance(coins) /\ r.total < totalTarget
        /\ Uint64(totalTarget - r.total) <= gasBudget

(* What PickupCoins takes when it succeeds. *)
LEMMA PickupTakes ==
  ASSUME NEW coins, Slice(coins), NEW hasNextPage \in BOOLEAN, NEW targetAmount \in Nat, NEW gasBudget \in Nat,
         NEW limit \in Int, NEW moreCount \in Int, NEW r,
         r = PickupCoins(coins, hasNextPage, targetAmount, gasBudget, limit, moreCount), r.err = "none"
  PROVE  Took(r, Len(r.coins), coins, LimitOf(limit), MoreCountOf(limit, moreCount), targetAmount + gasBudget, gasBudget)
<1> DEFINE totalTarget == targetAmount + gasBudget
           more == MoreCountOf(limit, moreCount)
           last == Stop(coins, totalTarget, more)
           err == Shortfall(totalTarget, TotalBalance(coins), gasBudget, hasNextPage)
<1>1. PickupEnds(r, coins, hasNextPage, targetAmount, gasBudget, limit, moreCount)
  BY PickupCases
<1>2. /\ coins # <<>> /\ last <= LimitOf(limit)
      /\ TotalBalance(Prefix(coins, last)) < totalTarget => err = "none"
      /\ r = PickedCoins(Prefix(coins, last))
  BY <1>1 DEF PickupEnds, Failed
<1>3. r.coins = Prefix(coins, last) /\ r.total = TotalBalance(Prefix(coins, last))
  BY <1>2 DEF PickedCoins
<1>4. totalTarget \in Int /\ more \in Int /\ LimitOf(limit) \in Int /\ Len(coins) \in Nat
  <2>1. more \in Int /\ LimitOf(limit) \in Int
    BY LimitFacts
  <2>2. Len(coins) \in Nat
    BY SliceFacts
  <2>3. totalTarget \in Int
    OBVIOUS
  <2> QED BY <2>1, <2>2, <2>3
<1> HIDE DEF more, totalTarget
<1>5. /\ last \in 1..Len(coins)
      /\ last # Len(coins) => last >= more
      /\ last # Len(coins) => TotalBalance(Prefix(coins, last)) >= totalTarget
      /\ \A n \in 1..Len(coins) : n < last /\ n >= more => TotalBalance(Prefix(coins, n)) < totalTarget
  BY <1>2, <1>4, StopFacts
<1> HIDE DEF last
<1>6. Len(r.coins) = last
  <2>1. last \in 0..Len(coins)
    BY <1>4, <1>5
  <2> QED BY <1>3, <2>1, SliceFacts
<1>7. last > 1 => last <= more \/ TotalBalance(Prefix(coins, last - 1)) < totalTarget
  <2> SUFFICES ASSUME last > 1, ~ (last <= more) PROVE TotalBalance(Prefix(coins, last - 1)) < totalTarget
    OBVIOUS
  <2>1. last - 1 \in 1..Len(coins) /\ last - 1 < last /\ last - 1 >= more
    BY <1>4, <1>5
  <2> QED BY <1>5, <2>1
<1>8. \/ r.total >= totalTarget
      \/ /\ last = Len(coins) /\ r.total = TotalBalance(coins) /\ r.total < totalTarget
         /\ Uint64(totalTarget - r.total) <= gasBudget
  <2>1. r.total \in Nat
    <3>1. last \in 0..Len(coins)
      BY <1>4, <1>5
    <3> QED BY <1>3, <3>1, TotalGrows
  <2> SUFFICES ASSUME r.total < totalTarget
               PROVE  last = Len(coins) /\ r.total = TotalBalance(coins) /\ Uint64(totalTarget - r.total) <= gasBudget
    BY <1>4, <2>1
  <2>2. last = Len(coins)
    BY <1>3, <1>4, <1>5, <2>1
  <2>3. r.total = TotalBalance(coins)
    BY <1>3, <2>2, SliceFacts
  <2>4. ~ (Uint64(totalTarget - r.total) > gasBudget)
    BY <1>2, <1>3, <2>3 DEF Shortfall
  <2>5. totalTarget - r.total \in Nat
    BY <1>4, <2>1
  <2>6. Uint64(totalTarget - r.total) \in Nat
    BY <2>5, LowBits
  <2> QED BY <2>2, <2>3, <2>4, <2>6
<1> DEFINE n == Len(r.coins)
<1>9. n = last
  BY <1>6
<1> HIDE DEF n, err
<1>10. /\ n \in 1..Len(coins) /\ r.coins = Prefix(coins, n) /\ r.total = TotalBalance(r.coins)
       /\ n <= LimitOf(limit)
       /\ n < Len(coins) => n >= more
  BY <1>2, <1>3, <1>4, <1>5, <1>9
<1>11. n > 1 => n <= more \/ TotalBalance(Prefix(coins, n - 1)) < totalTarget
  BY <1>7, <1>9
<1>12. \/ r.total >= totalTarget
       \/ /\ n = Len(coins) /\ r.total = TotalBalance(coins) /\ r.total < totalTarget
          /\ Uint64(totalTarget - r.total) <= gasBudget
  BY <1>8, <1>9
<1>13. Took(r, n, coins, LimitOf(limit), more, totalTarget, gasBudget)
  BY <1>10, <1>11, <1>12 DEF Took
<1> QED BY <1>13 DEF more, totalTarget, n

(* Why PickupCoins fails. *)
LEMMA PickupJustified ==
  ASSUME NEW coins, Slice(coins), NEW hasNextPage \in BOOLEAN, NEW targetAmount \in Nat, NEW gasBudget \in Nat,
         NEW limit \in Int, NEW moreCount \in Int, NEW r,
         r = PickupCoins(coins, hasNextPage, targetAmount, gasBudget, limit, moreCount)
  PROVE  LET max == LimitOf(limit)
             usable == IF Len(coins) > max THEN Prefix(coins, max) ELSE coins
         IN /\ r.err = "ErrNeedMergeCoin" =>
                 /\ Len(coins) > max \/ hasNextPage
                 /\ TotalBalance(usable) < targetAmount + gasBudget
            /\ r.err = "ErrInsufficientBalance" => ~ hasNextPage /\ TotalBalance(coins) < targetAmount
<1> DEFINE totalTarget == targetAmount + gasBudget
           more == MoreCountOf(limit, moreCount)
           max == LimitOf(limit)
           usable == IF Len(coins) > max THEN Prefix(coins, max) ELSE coins
           last == Stop(coins, totalTarget, more)
           err == Shortfall(totalTarget, TotalBalance(coins), gasBudget, hasNextPage)
           short == TotalBalance(Prefix(coins, last)) < totalTarget
<1>1. \/ coins = <<>> /\ r.err = "ErrNoCoinsFound"
      \/ coins # <<>> /\ last > max /\ r.err = "ErrNeedMergeCoin"
      \/ coins # <<>> /\ last <= max /\ short /\ r.err = err
      \/ r.err = "none"
  <2>1. PickupEnds(r, coins, hasNextPage, targetAmount, gasBudget, limit, moreCount)
    BY PickupCases
  <2> QED BY <2>1 DEF PickupEnds, Failed, PickedCoins
<1>2. totalTarget \in Int /\ more \in Int /\ max \in Nat \ {0} /\ more <= max /\ Len(coins) \in Nat
  BY LimitFacts, SliceFacts
<1> HIDE DEF more, totalTarget, max
<1>3. coins # <<>> =>
        /\ last \in 1..Len(coins)
        /\ last # Len(coins) => TotalBalance(Prefix(coins, last)) >= totalTarget
        /\ \A n \in 1..Len(coins) : n < last /\ n >= more => TotalBalance(Prefix(coins, n)) < totalTarget
  BY <1>2, StopFacts
<1> HIDE DEF last
<1>4. CASE coins # <<>> /\ last > max /\ r.err = "ErrNeedMergeCoin"
  <2>1. max \in 1..Len(coins) /\ max < last /\ max >= more /\ Len(coins) > max
    BY <1>2, <1>3, <1>4
  <2>2. TotalBalance(Prefix(coins, max)) < totalTarget
    BY <1>3, <1>4, <2>1
  <2> QED BY <1>4, <2>1, <2>2 DEF max, totalTarget
<1>5. CASE coins # <<>> /\ last <= max /\ short /\ r.err = err
  <2>1. last \in 0..Len(coins) /\ last \in 1..Len(coins)
    BY <1>2, <1>3, <1>5
  <2>2. TotalBalance(Prefix(coins, last)) \in Nat
    BY <2>1, TotalGrows
  <2>3. last = Len(coins)
    BY <1>2, <1>3, <1>5, <2>2
  <2>4. TotalBalance(coins) < totalTarget /\ TotalBalance(coins) \in Nat
    BY <1>5, <2>3, SliceFacts, TotalGrows
  <2>5. ~ (Len(coins) > max)
    BY <1>2, <1>5, <2>3
  <2>6. err = "ErrNeedMergeCoin" => hasNextPage
    BY DEF Shortfall
  <2>7. err = "ErrInsufficientBalance" => ~ hasNextPage /\ TotalBalance(coins) < targetAmount
    <3> SUFFICES ASSUME err = "ErrInsufficientBalance" PROVE ~ hasNextPage /\ TotalBalance(coins) < targetAmount
      OBVIOUS
    <3> DEFINE x == totalTarget - TotalBalance(coins)
    <3>1. ~ hasNextPage /\ Uint64(x) > gasBudget
      BY DEF Shortfall
    <3>2. x \in Nat
      BY <1>2, <2>4
    <3>3. Uint64(x) \in Nat /\ Uint64(x) <= x
      BY <3>2, LowBits
    <3>4. x > gasBudget
      BY <3>1, <3>2, <3>3
    <3> HIDE DEF x
    <3>5. totalTarget = targetAmount + gasBudget /\ x = totalTarget - TotalBalance(coins)
      BY DEF totalTarget, x
    <3>6. TotalBalance(coins) < targetAmount
      BY <2>4, <3>4, <3>5
    <3> QED BY <3>1, <3>6
  <2> QED BY <1>5, <2>4, <2>5, <2>6, <2>7 DEF max, totalTarget
<1>6. CASE r.err \notin {"ErrNeedMergeCoin", "ErrInsufficientBalance"}
  BY <1>6
<1> QED BY <1>1, <1>4, <1>5, <1>6

(* Coins that are picked up cover the target, provided the target with the  *)
(* gas budget is a uint64, and the suggested gas budget is left of them.    *)
LEMMA PickupAffordable ==
  ASSUME NEW coins, Slice(coins), NEW hasNextPage \in BOOLEAN, NEW targetAmount \in Nat, NEW gasBudget \in Nat,
         NEW limit \in Int, NEW moreCount \in Int, NEW r,
         r = PickupCoins(coins, hasNextPage, targetAmount, gasBudget, limit, moreCount), r.err = "none",
         targetAmount + gasBudget < U64
  PROVE  /\ r.total = TotalBalance(r.coins) /\ r.total >= targetAmount
         /\ targetAmount + SuggestMaxGasBudget(r.total, targetAmount) <= r.total
<1> DEFINE n == Len(r.coins)
           totalTarget == targetAmount + gasBudget
<1>1. /\ n \in 1..Len(coins) /\ r.coins = Prefix(coins, n) /\ r.total = TotalBalance(r.coins)
      /\ \/ r.total >= totalTarget
         \/ /\ r.total < totalTarget
            /\ Uint64(totalTarget - r.total) <= gasBudget
  <2>1. Took(r, n, coins, LimitOf(limit), MoreCountOf(limit, moreCount), totalTarget, gasBudget)
    BY PickupTakes
  <2> HIDE DEF n, totalTarget
  <2> QED BY <2>1 DEF Took
<1>2. r.total \in Nat
  <2>1. n \in 0..Len(coins)
    BY <1>1, SliceFacts
  <2> QED BY <1>1, <2>1, TotalGrows
<1>3. r.total >= targetAmount
  <2>3. totalTarget \in Nat
    OBVIOUS
  <2>1. CASE r.total >= totalTarget
    BY <1>2, <2>1
  <2>2. CASE r.total < totalTarget
    <3> DEFINE x == totalTarget - r.total
    <3>1. x \in Nat /\ x < U64
      BY <1>2, <2>2, CoinAssumptions
    <3>2. Uint64(x) = x
      BY <3>1, LowBits
    <3>3. Uint64(x) <= gasBudget
      <4> HIDE DEF totalTarget
      <4>1. ~ (r.total >= totalTarget)
        BY <1>2, <2>2, <2>3
      <4> QED BY <1>1, <4>1
    <3> QED BY <1>2, <3>1, <3>2, <3>3
  <2> QED BY <1>2, <2>1, <2>2
<1>4. targetAmount + SuggestMaxGasBudget(r.total, targetAmount) <= r.total
  <2> DEFINE sub == Uint64(r.total - targetAmount)
  <2>1. sub \in Nat /\ sub <= r.total - targetAmount
    BY <1>2, <1>3, LowBits
  <2>2. SuggestMaxGasBudget(r.total, targetAmount) = IF sub <= MaxGas THEN sub ELSE MaxGas
    BY DEF SuggestMaxGasBudget
  <2> HIDE DEF sub
  <2> QED BY <1>2, <2>1, <2>2, CoinAssumptions
<1> QED BY <1>1, <1>3, <1>4

-----------------------------------------------------------------------------
(***************************************************************************)
(* What the coins at some places are worth.                                *)
(***************************************************************************)
(* Two slices that differ at place g, by d. *)
Differ(s, t, g, d) ==
  /\ Slice(s) /\ Slice(t) /\ Len(s) = Len(t)
  /\ \A i \in 1..Len(s) : t[i].balance = s[i].balance + (IF i = g THEN d ELSE 0)

(* The totals of such slices differ by d, too. *)
LEMMA TotalsDiffer ==
  ASSUME NEW s, NEW t, NEW g \in Int, NEW d \in Nat, Differ(s, t, g, d)
  PROVE  TotalBalance(t) = TotalBalance(s) + (IF g \in 1..Len(s) THEN d ELSE 0)
<1> DEFINE S(n) == TotalBalance(Prefix(s, n))
           T(n) == TotalBalance(Prefix(t, n))
           K == {n \in Nat : n <= Len(s) => T(n) = S(n) + (IF g \in 1..n THEN d ELSE 0)}
<1>10. Slice(s) /\ Slice(t) /\ Len(s) = Len(t)
  BY DEF Differ
<1>1. Len(s) \in Nat /\ Prefix(s, Len(s)) = s /\ Prefix(t, Len(s)) = t
  BY <1>10, SliceFacts
<1>2. S(0) = 0 /\ \A n \in Nat : n + 1 <= Len(s) => S(n + 1) = S(n) + s[n + 1].balance
  BY <1>10, TotalSteps
<1>3. T(0) = 0 /\ \A n \in Nat : n + 1 <= Len(s) => T(n + 1) = T(n) + t[n + 1].balance
  BY <1>10, TotalSteps
<1>4. \A n \in 0..Len(s) : S(n) \in Nat
  BY <1>10, TotalGrows
<1> HIDE DEF S, T
<1>5. 0 \in K
  BY <1>2, <1>3
<1>6. ASSUME NEW n \in Nat, n \in K PROVE n + 1 \in K
  <2> SUFFICES ASSUME n + 1 <= Len(s) PROVE T(n + 1) = S(n + 1) + (IF g \in 1..(n + 1) THEN d ELSE 0)
    OBVIOUS
  <2>1. T(n) = S(n) + (IF g \in 1..n THEN d ELSE 0) /\ S(n) \in Nat
    BY <1>1, <1>4, <1>6
  <2>2. S(n + 1) = S(n) + s[n + 1].balance /\ T(n + 1) = T(n) + t[n + 1].balance
    BY <1>2, <1>3
  <2>3. n + 1 \in 1..Len(s) /\ s[n + 1].balance \in Nat
    BY <1>1, <1>10, SliceFacts
  <2>4. t[n + 1].balance = s[n + 1].balance + (IF n + 1 = g THEN d ELSE 0)
    BY <2>3 DEF Differ
  <2>5. g \in 1..(n + 1) <=> g \in 1..n \/ n + 1 = g
    OBVIOUS
  <2>6. ~ (g \in 1..n /\ n + 1 = g)
    OBVIOUS
  <2> QED BY <2>1, <2>2, <2>3, <2>4, <2>5, <2>6
<1> HIDE DEF K
<1>7. Nat \subseteq K
  BY <1>5, <1>6, SetInduction
<1>8. Len(s) \in K
  BY <1>1, <1>7
<1>9. T(Len(s)) = S(Len(s)) + (IF g \in 1..Len(s) THEN d ELSE 0)
  BY <1>1, <1>8 DEF K
<1> QED BY <1>1, <1>9 DEF S, T

Weights(coins, I) == [i \in DOMAIN coins |-> [balance |-> IF i \in I THEN coins[i].balance ELSE 0]]

(* SumOver is the total of a slice with the other balances at 0. *)
LEMMA WeightsFacts ==
  ASSUME NEW coins, Slice(coins), NEW I
  PROVE  /\ SumOver(coins, I) = TotalBalance(Weights(coins, I))
         /\ Slice(Weights(coins, I)) /\ Len(Weights(coins, I)) = Len(coins)
         /\ \A i \in 1..Len(coins) : Weights(coins, I)[i].balance = IF i \in I THEN coins[i].balance ELSE 0
<1> DEFINE w == Weights(coins, I)
<1>1. SumOver(coins, I) = TotalBalance(w)
  BY DEF SumOver, Weights
<1>2. Len(coins) \in Nat /\ DOMAIN coins = 1..Len(coins) /\ \A i \in 1..Len(coins) : coins[i].balance \in Nat
  BY SliceFacts
<1>3. w = [i \in 1..Len(coins) |-> [balance |-> IF i \in I THEN coins[i].balance ELSE 0]]
  BY <1>2 DEF Weights
<1>4. DOMAIN w = 1..Len(coins) /\ \A i \in 1..Len(coins) : w[i].balance = IF i \in I THEN coins[i].balance ELSE 0
  BY <1>3
<1> DEFINE W == ToSet(w)
<1>5. \A i \in 1..Len(coins) : w[i] \in W
  BY <1>4 DEF ToSet
<1> HIDE DEF W, w
<1>6. w \in Seq(W) /\ Len(w) = Len(coins)
  <2>1. w = [i \in 1..Len(coins) |-> w[i]]
    BY <1>3
  <2> QED BY <1>2, <1>5, <2>1
<1>7. \A i \in DOMAIN w : w[i].balance \in Nat
  BY <1>2, <1>4
<1>8. Slice(w)
  BY <1>6, <1>7 DEF Slice, W
<1> QED BY <1>1, <1>4, <1>6, <1>8 DEF w

(* No coins are worth nothing. *)
LEMMA SumOfNone ==
  ASSUME NEW coins, Slice(coins) PROVE SumOver(coins, {}) = 0
<1> DEFINE w == Weights(coins, {})
<1>1. SumOver(coins, {}) = TotalBalance(w) /\ Slice(w) /\ Len(w) = Len(coins)
  BY WeightsFacts
<1>2. \A i \in 1..Len(coins) : w[i].balance = 0
  BY WeightsFacts
<1> HIDE DEF w
<1>3. w \in Seq(ToSet(w)) /\ DOMAIN w = 1..Len(coins)
  BY <1>1, SliceFacts DEF Slice
<1>4. \A v \in {0}, e \in ToSet(w) : AddBalance(v, e, 0) \in {0}
  BY <1>2, <1>3 DEF ToSet, AddBalance
<1>5. F!Fold(0, 0, w) \in {0}
  <2> DEFINE Z == {0}
  <2>1. 0 \in Z /\ \A v \in Z, e \in ToSet(w) : AddBalance(v, e, 0) \in Z
    BY <1>4
  <2> HIDE DEF Z
  <2>2. F!Fold(0, 0, w) \in Z
    BY <1>3, <2>1, FInduction, F!FoldKeeps
  <2> QED BY <2>2 DEF Z
<1> QED BY <1>1, <1>5, TotalIsFold

(* All coins are worth their total. *)
LEMMA SumOfAll ==
  ASSUME NEW coins, Slice(coins)
  PROVE  SumOver(coins, DOMAIN coins) = TotalBalance(coins)
<1> DEFINE w == Weights(coins, DOMAIN coins)
<1>1. SumOver(coins, DOMAIN coins) = TotalBalance(w) /\ Slice(w) /\ Len(w) = Len(coins)
  BY WeightsFacts
<1>2. \A i \in 1..Len(coins) : w[i].balance = coins[i].balance + (IF i = 0 THEN 0 ELSE 0)
  BY WeightsFacts, SliceFacts
<1> HIDE DEF w
<1>3. TotalBalance(w) = TotalBalance(coins) + (IF 0 \in 1..Len(coins) THEN 0 ELSE 0)
  <2>1. Differ(coins, w, 0, 0)
    BY <1>1, <1>2 DEF Differ
  <2> QED BY <2>1, TotalsDiffer
<1>4. TotalBalance(coins) \in Nat
  BY TotalGrows
<1> QED BY <1>1, <1>3, <1>4

(* One more coin adds its balance. *)
LEMMA SumAdds ==
  ASSUME NEW coins, Slice(coins), NEW I, NEW g \in DOMAIN coins, g \notin I
  PROVE  SumOver(coins, I \cup {g}) = SumOver(coins, I) + coins[g].balance
<1> DEFINE w == Weights(coins, I)
           v == Weights(coins, I \cup {g})
<1>1. SumOver(coins, I) = TotalBalance(w) /\ Slice(w) /\ Len(w) = Len(coins)
  BY WeightsFacts
<1>2. SumOver(coins, I \cup {g}) = TotalBalance(v) /\ Slice(v) /\ Len(v) = Len(coins)
  BY WeightsFacts
<1>3. g \in 1..Len(coins) /\ coins[g].balance \in Nat /\ \A i \in 1..Len(coins) : coins[i].balance \in Nat
  BY SliceFacts
<1>4. \A i \in 1..Len(coins) : w[i].balance = IF i \in I THEN coins[i].balance ELSE 0
  BY WeightsFacts
<1>5. \A i \in 1..Len(coins) : v[i].balance = IF i \in I \cup {g} THEN coins[i].balance ELSE 0
  BY WeightsFacts
<1> HIDE DEF w, v
<1>6. \A i \in 1..Len(coins) : v[i].balance = w[i].balance + (IF i = g THEN coins[g].balance ELSE 0)
  BY <1>3, <1>4, <1>5
<1>7. TotalBalance(v) = TotalBalance(w) + (IF g \in 1..Len(coins) THEN coins[g].balance ELSE 0)
  <2>1. Differ(w, v, g, coins[g].balance)
    BY <1>1, <1>2, <1>6 DEF Differ
  <2>2. TotalBalance(v) = TotalBalance(w) + (IF g \in 1..Len(w) THEN coins[g].balance ELSE 0)
    BY <1>3, <2>1, TotalsDiffer
  <2> QED BY <1>1, <2>2
<1> QED BY <1>1, <1>2, <1>3, <1>7

(* What coins are worth is never negative. *)
LEMMA SumIsNat ==
  ASSUME NEW coins, Slice(coins), NEW I PROVE SumOver(coins, I) \in Nat
BY WeightsFacts, TotalGrows

-----------------------------------------------------------------------------
(***************************************************************************)
(* Coins in another order, or some of them.                                *)
(***************************************************************************)
Chosen(coins, q) == [i \in DOMAIN q |-> coins[q[i]]]

(* m places of coins, each at most once. *)
Choice(coins, m, q) == q \in [1..m -> DOMAIN coins] /\ IsInjective(q)

(* The coins at the places of q make up a slice. *)
LEMMA ChosenFacts ==
  ASSUME NEW coins, Slice(coins), NEW m \in Nat, NEW q, Choice(coins, m, q)
  PROVE  /\ Slice(Chosen(coins, q)) /\ Len(Chosen(coins, q)) = m
         /\ \A i \in 1..m : q[i] \in DOMAIN coins /\ Chosen(coins, q)[i] = coins[q[i]]
<1> DEFINE s == Chosen(coins, q)
           S == ToSet(s)
<1>1. s = [i \in 1..m |-> coins[q[i]]] /\ \A i \in 1..m : q[i] \in DOMAIN coins
  BY DEF Choice, Chosen
<1>2. DOMAIN s = 1..m /\ \A i \in 1..m : s[i] = coins[q[i]]
  BY <1>1
<1>3. \A i \in 1..m : s[i] \in S
  BY <1>2 DEF ToSet
<1>4. \A i \in 1..m : s[i].balance \in Nat
  BY <1>1, <1>2 DEF Slice
<1> HIDE DEF s, S
<1>5. s \in Seq(S) /\ Len(s) = m
  <2>1. s = [i \in 1..m |-> s[i]]
    BY <1>1
  <2> QED BY <1>3, <2>1
<1>6. Slice(s)
  BY <1>2, <1>4, <1>5 DEF Slice, S
<1> QED BY <1>1, <1>2, <1>5, <1>6 DEF s

(* The first k of them are worth what the coins at their places are. *)
LEMMA ChosenSum ==
  ASSUME NEW coins, Slice(coins), NEW m \in Nat, NEW q, Choice(coins, m, q), NEW k \in 0..m
  PROVE  TotalBalance(Prefix(Chosen(coins, q), k)) = SumOver(coins, {q[i] : i \in 1..k})
<1> DEFINE s == Chosen(coins, q)
           T(n) == TotalBalance(Prefix(s, n))
           P(n) == {q[i] : i \in 1..n}
           K == {n \in Nat : n <= m => T(n) = SumOver(coins, P(n))}
<1>1. Slice(s) /\ Len(s) = m /\ \A i \in 1..m : q[i] \in DOMAIN coins /\ s[i] = coins[q[i]]
  BY ChosenFacts
<1> HIDE DEF s
<1>2. T(0) = 0 /\ \A n \in Nat : n + 1 <= m => T(n + 1) = T(n) + s[n + 1].balance
  BY <1>1, TotalSteps
<1> HIDE DEF T
<1>3. 0 \in K
  <2>1. P(0) = {}
    OBVIOUS
  <2> QED BY <1>2, <2>1, SumOfNone
<1>4. ASSUME NEW n \in Nat, n \in K PROVE n + 1 \in K
  <2> SUFFICES ASSUME n + 1 <= m PROVE T(n + 1) = SumOver(coins, P(n + 1))
    OBVIOUS
  <2>1. T(n) = SumOver(coins, P(n))
    BY <1>4
  <2>2. n + 1 \in 1..m /\ \A i \in 1..n : i \in 1..m /\ i # n + 1
    OBVIOUS
  <2>3. q[n + 1] \notin P(n)
    BY <2>2 DEF Choice, IsInjective
  <2>4. P(n + 1) = P(n) \cup {q[n + 1]}
    <3>1. \A i : i \in 1..(n + 1) <=> i \in 1..n \/ i = n + 1
      OBVIOUS
    <3> QED BY <3>1
  <2> HIDE DEF P
  <2>5. SumOver(coins, P(n + 1)) = SumOver(coins, P(n)) + coins[q[n + 1]].balance
    BY <1>1, <2>2, <2>3, <2>4, SumAdds
  <2>6. T(n + 1) = T(n) + coins[q[n + 1]].balance
    BY <1>1, <1>2, <2>2
  <2> QED BY <2>1, <2>5, <2>6
<1> HIDE DEF K
<1>5. Nat \subseteq K
  BY <1>3, <1>4, SetInduction
<1>6. k \in K /\ k <= m
  BY <1>5
<1>7. T(k) = SumOver(coins, P(k))
  BY <1>6 DEF K
<1> QED BY <1>7 DEF T, s

(* The slice without the coin at g. *)
LEMMA Without ==
  ASSUME NEW coins, Slice(coins), NEW g \in DOMAIN coins
  PROVE  /\ Slice(RemoveAt(coins, g)) /\ Len(RemoveAt(coins, g)) = Len(coins) - 1
         /\ TotalBalance(RemoveAt(coins, g)) = SumOver(coins, DOMAIN coins \ {g})
         /\ \A i \in 1..(Len(coins) - 1) : RemoveAt(coins, g)[i] = coins[IF i < g THEN i ELSE i + 1]
<1> DEFINE m == Len(coins) - 1
           q == [i \in 1..m |-> IF i < g THEN i ELSE i + 1]
           r == RemoveAt(coins, g)
<1>1. Len(coins) \in Nat /\ DOMAIN coins = 1..Len(coins) /\ g \in 1..Len(coins)
  BY SliceFacts
<1>2. m \in Nat /\ \A i \in 1..m : q[i] \in DOMAIN coins \ {g} /\ q[i] = IF i < g THEN i ELSE i + 1
  BY <1>1
<1>3. Choice(coins, m, q)
  BY <1>1, <1>2 DEF Choice, IsInjective
<1>4. r = Chosen(coins, q)
  <2> DEFINE C == ToSet(coins)
             a == SubSeq(coins, 1, g - 1)
             b == SubSeq(coins, g + 1, Len(coins))
  <2>1. coins \in Seq(C)
    BY DEF Slice
  <2> HIDE DEF C
  <2>2. a \in Seq(C) /\ Len(a) = g - 1 /\ \A i \in 1..(g - 1) : a[i] = coins[i]
    BY <1>1, <2>1
  <2>3. b \in Seq(C) /\ Len(b) = Len(coins) - g /\ \A i \in 1..(Len(coins) - g) : b[i] = coins[g + i]
    BY <1>1, <2>1
  <2>4. r = a \o b
    BY DEF RemoveAt
  <2> HIDE DEF a, b, r
  <2>5. r \in Seq(C) /\ Len(r) = m
    <3>1. r \in Seq(C) /\ Len(r) = Len(a) + Len(b)
      BY <2>2, <2>3, <2>4, ConcatProperties
    <3>2. (g - 1) + (Len(coins) - g) = m
      BY <1>1
    <3> QED BY <2>2, <2>3, <3>1, <3>2
  <2>6. ASSUME NEW i \in 1..m PROVE r[i] = coins[q[i]]
    <3>1. CASE i < g
      <4>1. r[i] = a[i] /\ i \in 1..(g - 1)
        BY <1>1, <2>2, <2>3, <2>4, <3>1
      <4> QED BY <1>2, <2>2, <3>1, <4>1
    <3>2. CASE ~ (i < g)
      <4>1. r[i] = b[i - (g - 1)] /\ i - (g - 1) \in 1..(Len(coins) - g)
        BY <1>1, <2>2, <2>3, <2>4, <3>2, SMTT(30)
      <4>2. b[i - (g - 1)] = coins[g + (i - (g - 1))] /\ g + (i - (g - 1)) = i + 1
        BY <1>1, <2>3, <4>1
      <4> QED BY <1>2, <3>2, <4>1, <4>2
    <3> QED BY <3>1, <3>2
  <2>7. r = [i \in 1..m |-> r[i]]
    BY <2>5
  <2>8. Chosen(coins, q) = [i \in 1..m |-> coins[q[i]]]
    BY DEF Chosen
  <2> HIDE DEF q
  <2> QED BY <2>6, <2>7, <2>8
<1> HIDE DEF r
<1>5. Slice(r) /\ Len(r) = m /\ \A i \in 1..m : r[i] = coins[q[i]]
  <2>1. m \in Nat
    BY <1>2
  <2> HIDE DEF q, m
  <2> QED BY <1>3, <1>4, <2>1, ChosenFacts
<1>6. TotalBalance(r) = SumOver(coins, {q[i] : i \in 1..m})
  <2>1. m \in 0..m
    BY <1>2
  <2>2. TotalBalance(Prefix(r, m)) = SumOver(coins, {q[i] : i \in 1..m})
    <3> HIDE DEF q, m
    <3> QED BY <1>2, <1>3, <1>4, <2>1, ChosenSum
  <2>3. Prefix(r, m) = r
    BY <1>5, SliceFacts
  <2> QED BY <2>2, <2>3
<1>7. {q[i] : i \in 1..m} = DOMAIN coins \ {g}
  <2>1. ASSUME NEW j \in DOMAIN coins \ {g} PROVE \E i \in 1..m : q[i] = j
    <3>1. CASE j < g
      <4>1. j \in 1..m /\ q[j] = j
        BY <1>1, <3>1
      <4> QED BY <4>1
    <3>2. CASE ~ (j < g)
      <4>1. j - 1 \in 1..m /\ ~ (j - 1 < g) /\ (j - 1) + 1 = j
        BY <1>1, <3>2
      <4>2. q[j - 1] = j
        BY <1>2, <4>1
      <4> QED BY <4>1, <4>2
    <3> QED BY <3>1, <3>2
  <2> HIDE DEF q, m
  <2> QED BY <1>2, <2>1
<1>8. \A i \in 1..m : r[i] = coins[IF i < g THEN i ELSE i + 1]
  BY <1>2, <1>5
<1> HIDE DEF q
<1> QED BY <1>5, <1>6, <1>7, <1>8 DEF r

(* All the places of coins, in some order. *)
Order(coins, q) == Choice(coins, Len(coins), q) /\ {q[i] : i \in 1..Len(coins)} = DOMAIN coins

(* Another order has the same coins and the same total. *)
LEMMA OrderFacts ==
  ASSUME NEW coins, Slice(coins), NEW q, Order(coins, q), NEW s, s = Chosen(coins, q)
  PROVE  /\ Slice(s) /\ Len(s) = Len(coins) /\ TotalBalance(s) = TotalBalance(coins)
         /\ \A i \in 1..Len(coins) : q[i] \in DOMAIN coins /\ s[i] = coins[q[i]]
         /\ \A j \in DOMAIN coins : \E i \in 1..Len(coins) : q[i] = j
<1> DEFINE m == Len(coins)
<1>1. m \in Nat /\ Choice(coins, m, q) /\ {q[i] : i \in 1..m} = DOMAIN coins
  BY SliceFacts DEF Order
<1> HIDE DEF m
<1>2. Slice(s) /\ Len(s) = m /\ \A i \in 1..m : q[i] \in DOMAIN coins /\ s[i] = coins[q[i]]
  BY <1>1, ChosenFacts
<1>3. TotalBalance(Prefix(s, m)) = SumOver(coins, {q[i] : i \in 1..m})
  BY <1>1, ChosenSum
<1>4. TotalBalance(s) = TotalBalance(coins)
  <2>1. Prefix(s, m) = s
    BY <1>2, SliceFacts
  <2> QED BY <1>1, <1>3, <2>1, SumOfAll
<1>5. \A j \in DOMAIN coins : \E i \in 1..m : q[i] = j
  BY <1>1
<1> QED BY <1>2, <1>4, <1>5 DEF m

(* Balances go up, or down, along s. *)
Ascending(s) == \A i, j \in 1..Len(s) : i < j => s[i].balance <= s[j].balance
Descending(s) == \A i, j \in 1..Len(s) : i < j => s[i].balance >= s[j].balance

(* Sorting is putting the coins in another order, up or down. *)
LEMMA SortedFacts ==
  ASSUME NEW coins, Slice(coins), NEW pickMethod \in PickMethods, NEW s \in Sorted(coins, pickMethod)
  PROVE  /\ \E q : Order(coins, q) /\ s = Chosen(coins, q)
         /\ pickMethod = "PickSmaller" => Ascending(s)
         /\ pickMethod = "PickBigger" => Descending(s)
<1> DEFINE B == Bijection(DOMAIN coins, DOMAIN coins)
           orders == {[i \in DOMAIN coins |-> coins[p[i]]] : p \in B}
<1>1. Len(coins) \in Nat /\ DOMAIN coins = 1..Len(coins)
  BY SliceFacts
<1>2. ASSUME NEW p \in B PROVE Order(coins, p) /\ [i \in DOMAIN coins |-> coins[p[i]]] = Chosen(coins, p)
  <2>1. /\ p \in [DOMAIN coins -> DOMAIN coins] /\ IsInjective(p)
        /\ \A t \in DOMAIN coins : \E i \in DOMAIN coins : p[i] = t
    BY <1>2 DEF Bijection, Injection, Surjection
  <2>2. DOMAIN p = DOMAIN coins /\ \A i \in DOMAIN coins : p[i] \in DOMAIN coins
    BY <2>1
  <2>3. Choice(coins, Len(coins), p)
    BY <1>1, <2>1 DEF Choice
  <2>4. {p[i] : i \in 1..Len(coins)} = DOMAIN coins
    BY <1>1, <2>1, <2>2
  <2>5. [i \in DOMAIN coins |-> coins[p[i]]] = Chosen(coins, p)
    BY <2>2 DEF Chosen
  <2> QED BY <2>3, <2>4, <2>5 DEF Order
<1>3. ASSUME NEW t \in orders PROVE \E q : Order(coins, q) /\ t = Chosen(coins, q)
  <2>1. PICK p \in B : t = [i \in DOMAIN coins |-> coins[p[i]]]
    BY <1>3
  <2> QED BY <1>2, <2>1
<1>4. ASSUME NEW t \in orders PROVE DOMAIN t = 1..Len(t)
  <2>1. PICK q : Order(coins, q) /\ t = Chosen(coins, q)
    BY <1>3
  <2>2. Slice(t)
    BY <2>1, OrderFacts
  <2> QED BY <2>2, SliceFacts
<1>5. CASE pickMethod = "PickByOrder"
  <2> DEFINE id == [i \in DOMAIN coins |-> i]
  <2>1. id \in B
    BY DEF Bijection, Injection, Surjection, IsInjective
  <2>2. coins = [i \in DOMAIN coins |-> coins[id[i]]]
    <3>1. coins \in Seq(ToSet(coins))
      BY DEF Slice
    <3>2. coins = [i \in DOMAIN coins |-> coins[i]]
      BY <3>1
    <3> QED BY <3>2
  <2>3. s = coins
    BY <1>5 DEF Sorted
  <2> HIDE DEF id, B
  <2> QED BY <1>2, <1>5, <2>1, <2>2, <2>3
<1>6. CASE pickMethod = "PickSmaller"
  <2>1. s \in orders /\ \A i, j \in DOMAIN s : i < j => s[i].balance <= s[j].balance
    BY <1>6 DEF Sorted
  <2> HIDE DEF orders
  <2>2. Ascending(s)
    BY <1>4, <2>1 DEF Ascending
  <2> QED BY <1>3, <1>6, <2>1, <2>2
<1>7. CASE pickMethod = "PickBigger"
  <2>1. s \in orders /\ \A i, j \in DOMAIN s : i < j => s[i].balance >= s[j].balance
    BY <1>7 DEF Sorted
  <2> HIDE DEF orders
  <2>2. Descending(s)
    BY <1>4, <2>1 DEF Descending
  <2> QED BY <1>3, <1>7, <2>1, <2>2
<1> QED BY <1>5, <1>6, <1>7 DEF PickMethods

-----------------------------------------------------------------------------
(***************************************************************************)
(* PickCoins.                                                              *)
(***************************************************************************)
(* r takes the shortest prefix of s that is worth amount and not empty. *)
Shortest(r, n, s, amount) ==
  /\ n \in 1..Len(s) /\ r.coins = Prefix(s, n) /\ r.total = TotalBalance(r.coins) /\ r.total >= amount
  /\ \A k \in 1..Len(s) : k < n => TotalBalance(Prefix(s, k)) < amount

(* PickFrom fails only if all coins are too few, and takes the shortest prefix. *)
LEMMA PickFromFacts ==
  ASSUME NEW s, Slice(s), NEW amount \in Nat, NEW r, r = PickFrom(s, amount)
  PROVE  /\ r.err = "none" <=> Len(s) # 0 /\ TotalBalance(s) >= amount
         /\ r.err = "none" => Shortest(r, Len(r.coins), s, amount)
<1> DEFINE enough == {n \in DOMAIN s : TotalBalance(Prefix(s, n)) >= amount}
<1>1. Len(s) \in Nat /\ DOMAIN s = 1..Len(s) /\ Prefix(s, Len(s)) = s
  BY SliceFacts
<1>2. r = IF enough = {} THEN Failed("ErrCoinsNeedMoreObject") ELSE PickedCoins(Prefix(s, Min(enough)))
  BY DEF PickFrom
<1>3. \A n \in 1..Len(s) : n \in enough <=> TotalBalance(Prefix(s, n)) >= amount
  BY <1>1
<1>4. \A n \in enough : n \in 1..Len(s)
  BY <1>1
<1>5. /\ \A n \in 1..Len(s) : TotalBalance(Prefix(s, n)) \in Nat
      /\ \A n \in 1..Len(s) : TotalBalance(Prefix(s, n)) <= TotalBalance(Prefix(s, Len(s)))
      /\ TotalBalance(s) \in Nat
  <2>1. \A n \in 1..Len(s) : n \in 0..Len(s) /\ Len(s) \in 0..Len(s) /\ n <= Len(s)
    BY <1>1
  <2> QED BY <2>1, TotalGrows
<1> HIDE DEF enough
<1>6. r.err = "none" <=> enough # {}
  BY <1>2 DEF Failed, PickedCoins
<1>7. enough # {} <=> Len(s) # 0 /\ TotalBalance(s) >= amount
  <2>1. ASSUME Len(s) # 0, TotalBalance(s) >= amount PROVE enough # {}
    <3>1. Len(s) \in 1..Len(s)
      BY <1>1, <2>1
    <3>2. Len(s) \in enough
      BY <1>1, <1>3, <2>1, <3>1
    <3> QED BY <3>2
  <2>2. ASSUME NEW n \in enough PROVE Len(s) # 0 /\ TotalBalance(s) >= amount
    <3>1. n \in 1..Len(s)
      BY <1>4
    <3>2. TotalBalance(Prefix(s, n)) \in Nat /\ TotalBalance(Prefix(s, n)) >= amount
      BY <1>3, <1>5, <3>1
    <3>3. TotalBalance(Prefix(s, n)) <= TotalBalance(s)
      BY <1>1, <1>5, <3>1
    <3> QED BY <1>1, <1>5, <3>1, <3>2, <3>3
  <2> QED BY <2>1, <2>2
<1>8. ASSUME enough # {} PROVE Shortest(r, Len(r.coins), s, amount)
  <2> DEFINE n == Min(enough)
  <2>1. enough \in SUBSET Nat
    <3>1. \A k \in enough : k \in Nat
      BY <1>1, <1>4
    <3> QED BY <3>1
  <2>2. n \in enough /\ \A k \in enough : n <= k
    BY <1>8, <2>1, MinOf
  <2>3. r.coins = Prefix(s, n) /\ r.total = TotalBalance(Prefix(s, n))
    BY <1>2, <1>8 DEF PickedCoins
  <2> HIDE DEF n
  <2>4. n \in 1..Len(s) /\ n \in 0..Len(s)
    BY <1>1, <1>4, <2>2
  <2>5. Len(r.coins) = n
    BY <2>3, <2>4, SliceFacts
  <2>6. r.total >= amount
    BY <1>3, <2>2, <2>3, <2>4
  <2>7. ASSUME NEW k \in 1..Len(s), k < n PROVE TotalBalance(Prefix(s, k)) < amount
    <3>1. k \notin enough
      BY <1>1, <2>2, <2>4, <2>7
    <3>2. TotalBalance(Prefix(s, k)) \in Nat /\ ~ (TotalBalance(Prefix(s, k)) >= amount)
      BY <1>3, <1>5, <3>1
    <3> QED BY <3>2
  <2>8. Shortest(r, n, s, amount)
    BY <2>3, <2>4, <2>6, <2>7 DEF Shortest
  <2> QED BY <2>5, <2>8
<1> QED BY <1>6, <1>7, <1>8

(* The greatest element of a set of places. *)
LEMMA LastOf ==
  ASSUME NEW m \in Nat, NEW J \in SUBSET (1..m), J # {}
  PROVE  \E x \in J : \A j \in J : j <= x
<1> DEFINE D == {m - j : j \in J}
<1>1. D \in SUBSET Nat /\ D # {}
  <2>1. \A j \in J : j \in 1..m /\ m - j \in Nat /\ m - j \in D
    OBVIOUS
  <2>2. \A d \in D : \E j \in J : d = m - j
    OBVIOUS
  <2> HIDE DEF D
  <2>3. \A d \in D : d \in Nat
    BY <2>1, <2>2
  <2> QED BY <2>1, <2>3
<1>2. PICK d \in D : \A e \in D : d <= e
  <2> HIDE DEF D
  <2> QED BY <1>1, LeastNatural
<1>3. PICK x \in J : d = m - x
  BY <1>2
<1>4. ASSUME NEW j \in J PROVE j <= x
  <2>1. m - j \in D
    OBVIOUS
  <2>2. m - x <= m - j
    BY <1>2, <1>3, <2>1
  <2>3. j \in 1..m /\ x \in 1..m
    OBVIOUS
  <2> QED BY <2>2, <2>3
<1> QED BY <1>3, <1>4

(* Of all sets of k coins the first k, when balances go down, are worth     *)
(* most.                                                                    *)
LEMMA Biggest ==
  ASSUME NEW coins, Slice(coins), NEW q, Order(coins, q), NEW s, s = Chosen(coins, q), Descending(s),
         NEW J \in SUBSET (1..Len(coins))
  PROVE  /\ Cardinality(J) \in 0..Len(coins)
         /\ SumOver(coins, {q[j] : j \in J}) <= TotalBalance(Prefix(s, Cardinality(J)))
<1> DEFINE m == Len(coins)
           T(n) == TotalBalance(Prefix(s, n))
           At(I) == {q[j] : j \in I}
           K == {k \in Nat : \A I \in SUBSET (1..m) : Cardinality(I) = k => SumOver(coins, At(I)) <= T(k)}
<1>1. /\ Slice(s) /\ Len(s) = m /\ m \in Nat /\ DOMAIN coins = 1..m
      /\ \A i \in 1..m : q[i] \in DOMAIN coins /\ s[i] = coins[q[i]]
  BY OrderFacts, SliceFacts
<1>2. \A i, j \in 1..m : q[i] = q[j] => i = j
  BY DEF Order, Choice, IsInjective
<1>3. \A i, j \in 1..m : i < j => s[i].balance >= s[j].balance
  BY <1>1 DEF Descending
<1>4. T(0) = 0 /\ \A n \in Nat : n + 1 <= m => T(n + 1) = T(n) + s[n + 1].balance
  BY <1>1, TotalSteps
<1>5. /\ \A n \in 0..m : T(n) \in Nat
      /\ \A i \in 1..m : s[i].balance \in Nat
  BY <1>1, TotalGrows, SliceFacts
<1>6. \A I : SumOver(coins, I) \in Nat
  BY SumIsNat
<1>7. ASSUME NEW n \in Nat, NEW I \in SUBSET (1..n)
      PROVE  IsFiniteSet(I) /\ Cardinality(I) \in Nat /\ Cardinality(I) <= n
  <2>1. IsFiniteSet(1..n) /\ Cardinality(1..n) = n
    <3>1. 1 \in Int /\ n \in Int
      OBVIOUS
    <3>2. IsFiniteSet(1..n) /\ Cardinality(1..n) = IF 1 > n THEN 0 ELSE n - 1 + 1
      BY <3>1, FS_Interval
    <3> QED BY <3>2
  <2> QED BY <2>1, FS_Subset, FS_CardinalityType
<1> HIDE DEF T, m
<1>8. 0 \in K
  <2> SUFFICES ASSUME NEW I \in SUBSET (1..m), Cardinality(I) = 0 PROVE SumOver(coins, At(I)) <= T(0)
    OBVIOUS
  <2>1. I = {}
    BY <1>1, <1>7, FS_EmptySet
  <2>2. At(I) = {}
    BY <2>1
  <2>3. SumOver(coins, At(I)) = 0
    BY <2>2, SumOfNone
  <2> QED BY <1>4, <2>3
<1>9. ASSUME NEW k \in Nat, k \in K PROVE k + 1 \in K
  <2> SUFFICES ASSUME NEW I \in SUBSET (1..m), Cardinality(I) = k + 1 PROVE SumOver(coins, At(I)) <= T(k + 1)
    <3>1. k + 1 \in Nat
      OBVIOUS
    <3> HIDE DEF At
    <3> QED BY <3>1
  <2>1. IsFiniteSet(I) /\ k + 1 <= m /\ I # {}
    BY <1>1, <1>7, FS_EmptySet
  <2>2. PICK x \in I : \A j \in I : j <= x
    BY <1>1, <2>1, LastOf
  <2>3. x \in 1..m
    OBVIOUS
  <2>4. k + 1 <= x
    <3>1. x \in Nat
      BY <1>1, <2>3
    <3>2. \A j \in I : j \in 1..x
      BY <1>1, <2>2
    <3>3. I \in SUBSET (1..x)
      BY <3>2
    <3> QED BY <1>7, <3>1, <3>3
  <2> DEFINE I0 == I \ {x}
  <2>5. Cardinality(I0) = k /\ I0 \in SUBSET (1..m)
    <3>1. Cardinality(I0) = (k + 1) - 1
      BY <2>1, FS_RemoveElement
    <3> QED BY <3>1
  <2>6. SumOver(coins, At(I0)) <= T(k)
    BY <1>9, <2>5
  <2>7. SumOver(coins, At(I)) = SumOver(coins, At(I0)) + s[x].balance
    <3>1. At(I) = At(I0) \cup {q[x]}
      OBVIOUS
    <3>2. q[x] \notin At(I0)
      BY <1>2, <2>3
    <3>3. q[x] \in DOMAIN coins /\ s[x] = coins[q[x]]
      BY <1>1, <2>3
    <3> HIDE DEF At, I0
    <3> QED BY <3>1, <3>2, <3>3, SumAdds
  <2>8. k + 1 \in 1..m /\ s[x].balance <= s[k + 1].balance
    <3>1. k + 1 \in 1..m
      BY <1>1, <2>1
    <3>2. CASE k + 1 = x
      BY <1>5, <3>1, <3>2
    <3>3. CASE k + 1 # x
      <4>1. k + 1 < x
        BY <1>1, <2>3, <2>4, <3>3
      <4> QED BY <1>3, <1>5, <2>3, <3>1, <4>1
    <3> QED BY <3>1, <3>2, <3>3
  <2>9. T(k + 1) = T(k) + s[k + 1].balance /\ T(k) \in Nat
    BY <1>1, <1>4, <1>5, <2>1
  <2>10. s[x].balance \in Nat /\ s[k + 1].balance \in Nat /\ SumOver(coins, At(I0)) \in Nat
    BY <1>5, <1>6, <2>3, <2>8
  <2> HIDE DEF At, I0
  <2> QED BY <2>6, <2>7, <2>8, <2>9, <2>10, SMTT(30)
<1> HIDE DEF K
<1>10. Nat \subseteq K
  BY <1>8, <1>9, SetInduction
<1>11. J \in SUBSET (1..m)
  BY DEF m
<1>12. Cardinality(J) \in Nat /\ Cardinality(J) <= m
  BY <1>1, <1>7, <1>11
<1>13. Cardinality(J) \in K
  BY <1>10, <1>12
<1>14. SumOver(coins, At(J)) <= T(Cardinality(J))
  BY <1>11, <1>13 DEF K
<1> QED BY <1>1, <1>12, <1>14 DEF T, m

(* What a call of PickCoins promises, whatever its result. *)
PicksByMethod(r, coins, amount, pickMethod) ==
  /\ r.err # "none" <=> coins = <<>> \/ SumOver(coins, DOMAIN coins) < amount
  /\ r.err = "none" =>
       /\ ToSet(r.coins) \subseteq ToSet(coins) /\ (IsInjective(coins) => IsInjective(r.coins))
       /\ r.total = TotalBalance(r.coins) /\ r.total >= amount
       /\ pickMethod = "PickBigger" =>
            \A I \in (SUBSET DOMAIN coins) \ {{}} :
              SumOver(coins, I) >= amount => Cardinality(I) >= Len(r.coins)
       /\ pickMethod = "PickSmaller" =>
            \A c \in ToSet(coins) \ ToSet(r.coins), d \in ToSet(r.coins) : c.balance >= d.balance

(* Every result PickCoins can have is as promised. *)
LEMMA PickCoinsPromise ==
  ASSUME NEW coins, Slice(coins), NEW amount \in Nat, NEW pickMethod \in PickMethods,
         NEW r \in PickCoins(coins, amount, pickMethod)
  PROVE  PicksByMethod(r, coins, amount, pickMethod)
<1>1. PICK s \in Sorted(coins, pickMethod) : r = PickFrom(s, amount)
  BY DEF PickCoins
<1>2. PICK q : Order(coins, q) /\ s = Chosen(coins, q)
  BY <1>1, SortedFacts
<1> DEFINE m == Len(coins)
           n == Len(r.coins)
<1>3. /\ Slice(s) /\ Len(s) = m /\ m \in Nat /\ DOMAIN coins = 1..m /\ DOMAIN s = 1..m
      /\ \A i \in 1..m : q[i] \in DOMAIN coins /\ s[i] = coins[q[i]]
      /\ TotalBalance(s) = TotalBalance(coins) /\ TotalBalance(coins) \in Nat
      /\ SumOver(coins, DOMAIN coins) = TotalBalance(coins)
  <2>1. Slice(s) /\ Len(s) = m /\ TotalBalance(s) = TotalBalance(coins)
    BY <1>2, OrderFacts
  <2>2. \A i \in 1..m : q[i] \in DOMAIN coins /\ s[i] = coins[q[i]]
    BY <1>2, OrderFacts
  <2>3. m \in Nat /\ DOMAIN coins = 1..m /\ DOMAIN s = 1..m
    BY <2>1, SliceFacts
  <2> QED BY <2>1, <2>2, <2>3, SumOfAll, TotalGrows
<1>4. \A j \in DOMAIN coins : \E i \in 1..m : q[i] = j
  BY <1>2, OrderFacts
<1>5. \A i, j \in 1..m : q[i] = q[j] => i = j
  BY <1>2, <1>3 DEF Order, Choice, IsInjective
<1>6. /\ r.err = "none" <=> m # 0 /\ TotalBalance(coins) >= amount
      /\ r.err = "none" => Shortest(r, n, s, amount)
  BY <1>1, <1>3, PickFromFacts
<1>7. r.err # "none" <=> coins = <<>> \/ SumOver(coins, DOMAIN coins) < amount
  <2>1. coins = <<>> <=> m = 0
    BY EmptySeq DEF Slice
  <2> QED BY <1>3, <1>6, <2>1
<1>8. ASSUME r.err = "none"
      PROVE  /\ ToSet(r.coins) \subseteq ToSet(coins) /\ (IsInjective(coins) => IsInjective(r.coins))
             /\ r.total = TotalBalance(r.coins) /\ r.total >= amount
             /\ pickMethod = "PickBigger" =>
                  \A I \in (SUBSET DOMAIN coins) \ {{}} :
                    SumOver(coins, I) >= amount => Cardinality(I) >= n
             /\ pickMethod = "PickSmaller" =>
                  \A c \in ToSet(coins) \ ToSet(r.coins), d \in ToSet(r.coins) : c.balance >= d.balance
  <2>1. /\ n \in 1..m /\ r.coins = Prefix(s, n) /\ r.total = TotalBalance(r.coins) /\ r.total >= amount
        /\ \A k \in 1..m : k < n => TotalBalance(Prefix(s, k)) < amount
    <3> HIDE DEF n, m
    <3> QED BY <1>3, <1>6, <1>8 DEF Shortest
  <2> HIDE DEF n, m
  <2>2. DOMAIN r.coins = 1..n /\ \A i \in 1..n : r.coins[i] = s[i]
    <3>1. n \in 0..m
      BY <2>1
    <3> QED BY <1>3, <2>1, <3>1, SliceFacts
  <2>3. \A i \in 1..n : i \in 1..m /\ r.coins[i] = coins[q[i]] /\ q[i] \in DOMAIN coins
    <3>1. \A i \in 1..n : i \in 1..m
      BY <1>3, <2>1
    <3> QED BY <1>3, <2>2, <3>1
  <2>4. ToSet(r.coins) \subseteq ToSet(coins)
    BY <2>2, <2>3 DEF ToSet
  <2>5. IsInjective(coins) => IsInjective(r.coins)
    <3> SUFFICES ASSUME IsInjective(coins), NEW i \in 1..n, NEW j \in 1..n, r.coins[i] = r.coins[j] PROVE i = j
      BY <2>2 DEF IsInjective
    <3>1. q[i] = q[j]
      BY <2>3 DEF IsInjective
    <3> QED BY <1>5, <2>3, <3>1
  <2>6. ASSUME pickMethod = "PickBigger", NEW I \in (SUBSET DOMAIN coins) \ {{}}, SumOver(coins, I) >= amount
        PROVE  Cardinality(I) >= n
    <3> DEFINE J == {j \in 1..m : q[j] \in I}
               k == Cardinality(J)
    <3>1. {q[j] : j \in J} = I
      BY <1>4
    <3>2. Descending(s)
      BY <1>1, <2>6, SortedFacts
    <3>3. J \in SUBSET (1..Len(coins))
      BY DEF m
    <3>4. IsFiniteSet(DOMAIN coins) /\ IsFiniteSet(1..m)
      <4>1. 1 \in Int /\ m \in Int
        BY <1>3
      <4> QED BY <1>3, <4>1, FS_Interval
    <3>5. IsFiniteSet(I) /\ IsFiniteSet(J)
      <4>1. I \in SUBSET (DOMAIN coins) /\ J \in SUBSET (1..m)
        OBVIOUS
      <4> HIDE DEF J
      <4> QED BY <3>4, <4>1, FS_Subset
    <3>11. J # {}
      <4>1. PICK x \in DOMAIN coins : x \in I
        BY <2>6
      <4>2. PICK j \in 1..m : q[j] = x
        BY <1>4
      <4> QED BY <4>1, <4>2
    <3>12. \A j \in J : j \in 1..m /\ q[j] \in I
      OBVIOUS
    <3> HIDE DEF J
    <3>6. k \in 0..m /\ SumOver(coins, I) <= TotalBalance(Prefix(s, k))
      BY <1>2, <3>1, <3>2, <3>3, Biggest DEF m
    <3>7. k # 0 /\ k \in Nat /\ Cardinality(I) \in Nat
      BY <3>5, <3>11, FS_EmptySet, FS_CardinalityType
    <3>8. k <= Cardinality(I)
      <4> SUFFICES ASSUME Cardinality(I) < k PROVE FALSE
        BY <3>7
      <4> DEFINE f == [j \in J |-> q[j]]
      <4>1. f \in [J -> I]
        BY <3>12
      <4>2. \E x, y \in J : x # y /\ f[x] = f[y]
        <5> HIDE DEF f
        <5> QED BY <3>5, <4>1, FS_PigeonHole
      <4> QED BY <1>5, <3>12, <4>2
    <3> HIDE DEF k
    <3>9. ~ (k < n)
      <4>1. k \in 1..m
        BY <1>3, <3>6, <3>7
      <4>2. TotalBalance(Prefix(s, k)) \in Nat /\ SumOver(coins, I) \in Nat
        BY <1>3, <3>6, TotalGrows, SumIsNat
      <4> QED BY <2>1, <2>6, <3>6, <4>1, <4>2
    <3> QED BY <1>3, <2>1, <3>7, <3>8, <3>9
  <2>7. ASSUME pickMethod = "PickSmaller", NEW c \in ToSet(coins) \ ToSet(r.coins), NEW d \in ToSet(r.coins)
        PROVE  c.balance >= d.balance
    <3>1. Ascending(s)
      BY <1>1, <2>7, SortedFacts
    <3>2. PICK i \in 1..n : d = s[i]
      BY <2>2 DEF ToSet
    <3>3. PICK x \in DOMAIN coins : c = coins[x]
      BY DEF ToSet
    <3>4. PICK j \in 1..m : q[j] = x
      BY <1>4
    <3>5. c = s[j]
      BY <1>3, <3>3, <3>4
    <3>6. ~ (j <= n)
      <4> SUFFICES ASSUME j <= n PROVE FALSE
        OBVIOUS
      <4>1. j \in 1..n
        BY <1>3, <2>1
      <4> QED BY <2>2, <3>5, <4>1 DEF ToSet
    <3>7. i \in 1..m /\ i < j
      BY <1>3, <2>1, <3>6
    <3>8. s[i].balance <= s[j].balance /\ s[i].balance \in Nat /\ s[j].balance \in Nat
      <4>1. s[i].balance \in Nat /\ s[j].balance \in Nat
        BY <1>3, <3>7, SliceFacts
      <4> QED BY <1>3, <3>1, <3>7, <4>1 DEF Ascending
    <3> QED BY <3>2, <3>5, <3>8
  <2> QED BY <2>1, <2>4, <2>5, <2>6, <2>7
<1> QED BY <1>7, <1>8 DEF PicksByMethod

-----------------------------------------------------------------------------
(***************************************************************************)
(* PickSUICoinsWithGas.                                                    *)
(***************************************************************************)
(* g is the place of a smallest coin that covers gasAmount; 0 if none does. *)
GasCoinAt(g, coins, gasAmount) ==
  IF g = 0 THEN \A j \in DOMAIN coins : ~ (coins[j].balance >= gasAmount)
  ELSE /\ g \in DOMAIN coins /\ coins[g].balance >= gasAmount
       /\ \A j \in DOMAIN coins : coins[j].balance >= gasAmount => coins[g].balance <= coins[j].balance

(* GasCoinIndex finds a smallest coin that covers gasAmount. *)
LEMMA GasCoinFacts ==
  ASSUME NEW coins, Slice(coins), NEW gasAmount \in Nat
  PROVE  GasCoinAt(GasCoinIndex(coins, gasAmount), coins, gasAmount)
<1> DEFINE fit == {i \in DOMAIN coins : coins[i].balance >= gasAmount}
           least == {i \in fit : \A j \in fit : coins[i].balance <= coins[j].balance}
           g == GasCoinIndex(coins, gasAmount)
<1>1. Len(coins) \in Nat /\ DOMAIN coins = 1..Len(coins) /\ \A i \in 1..Len(coins) : coins[i].balance \in Nat
  BY SliceFacts
<1>2. g = IF fit = {} THEN 0 ELSE Min(least)
  BY DEF GasCoinIndex
<1>3. \A j \in DOMAIN coins : j \in fit <=> coins[j].balance >= gasAmount
  OBVIOUS
<1>4. \A j \in fit : j \in DOMAIN coins /\ j \in Nat /\ j # 0 /\ coins[j].balance \in Nat
  BY <1>1
<1>5. CASE fit = {}
  <2>1. g = 0
    BY <1>2, <1>5
  <2> QED BY <1>3, <1>5, <2>1 DEF GasCoinAt
<1>6. CASE fit # {}
  <2> DEFINE V == {coins[j].balance : j \in fit}
  <2> HIDE DEF fit
  <2>1. V \in SUBSET Nat /\ V # {}
    BY <1>4, <1>6
  <2>2. PICK v \in V : \A w \in V : v <= w
    <3> HIDE DEF V
    <3> QED BY <2>1, LeastNatural
  <2>3. PICK i \in fit : v = coins[i].balance
    BY <2>2
  <2>4. i \in least
    BY <2>2, <2>3
  <2>5. least \in SUBSET Nat /\ least # {}
    BY <1>4, <2>4
  <2>6. least \subseteq fit /\ \A k \in least : \A j \in fit : coins[k].balance <= coins[j].balance
    OBVIOUS
  <2> HIDE DEF least
  <2>7. g \in least
    BY <1>2, <1>6, <2>5, MinOf
  <2> HIDE DEF g
  <2>8. g \in fit /\ \A j \in fit : coins[g].balance <= coins[j].balance
    BY <2>6, <2>7
  <2>9. g \in DOMAIN coins /\ g # 0 /\ coins[g].balance >= gasAmount
    BY <1>3, <1>4, <2>8
  <2>10. GasCoinAt(g, coins, gasAmount)
    BY <1>3, <2>8, <2>9 DEF GasCoinAt
  <2> QED BY <2>10 DEF g
<1> QED BY <1>5, <1>6

(* Some gas coin leaves coins that cover amount. *)
CanSplit(coins, amount, gasAmount) ==
  \E g \in DOMAIN coins : /\ coins[g].balance >= gasAmount
                          /\ DOMAIN coins # {g}
                          /\ SumOver(coins, DOMAIN coins \ {g}) >= amount

(* What a call with a gas amount promises: it fails only if there is no     *)
(* split, and the gas coin it returns is not among the coins.               *)
GasSplit(coins, amount, gasAmount, picked, gasAt) ==
  /\ picked.err = "none" <=> CanSplit(coins, amount, gasAmount)
  /\ picked.err = "none" =>
       /\ gasAt \in DOMAIN coins /\ coins[gasAt].balance >= gasAmount
       /\ IsInjective(coins) => coins[gasAt] \notin ToSet(picked.coins)

(* Every result PickSUICoinsWithGas can have is as promised. *)
LEMMA WithGasPromise ==
  ASSUME NEW coins, Slice(coins), NEW amount \in Nat, NEW gasAmount \in Nat, NEW pickMethod \in PickMethods,
         NEW picked, NEW gasAt, <<picked, gasAt>> \in PickSUICoinsWithGas(coins, amount, gasAmount, pickMethod)
  PROVE  /\ gasAmount = 0 => gasAt = 0
         /\ gasAmount # 0 => GasSplit(coins, amount, gasAmount, picked, gasAt)
<1> DEFINE g == GasCoinIndex(coins, gasAmount)
           rest == RemoveAt(coins, g)
<1>1. gasAmount = 0 => gasAt = 0
  BY DEF PickSUICoinsWithGas
<1> SUFFICES ASSUME gasAmount # 0 PROVE GasSplit(coins, amount, gasAmount, picked, gasAt)
  BY <1>1
<1>2. GasCoinAt(g, coins, gasAmount)
  BY GasCoinFacts
<1>3. Len(coins) \in Nat /\ DOMAIN coins = 1..Len(coins) /\ \A i \in 1..Len(coins) : coins[i].balance \in Nat
  BY SliceFacts
<1>4. /\ coins = <<>> => picked = Failed("ErrCoinsNeedMoreObject")
      /\ coins # <<>> /\ g = 0 => picked = Failed("ErrCoinsNotMatchRequest")
      /\ coins # <<>> /\ g # 0 => gasAt = g /\ picked \in PickCoins(rest, amount, pickMethod)
  BY DEF PickSUICoinsWithGas
<1> HIDE DEF g
<1>5. CASE coins = <<>>
  <2>1. picked.err # "none"
    BY <1>4, <1>5 DEF Failed
  <2>2. DOMAIN coins = {}
    BY <1>5
  <2>3. ~ CanSplit(coins, amount, gasAmount)
    BY <2>2 DEF CanSplit
  <2> QED BY <2>1, <2>3 DEF GasSplit
<1>6. CASE coins # <<>> /\ g = 0
  <2>1. picked.err # "none"
    BY <1>4, <1>6 DEF Failed
  <2>2. ~ CanSplit(coins, amount, gasAmount)
    BY <1>2, <1>6 DEF GasCoinAt, CanSplit
  <2> QED BY <2>1, <2>2 DEF GasSplit
<1>7. CASE coins # <<>> /\ g # 0
  <2> DEFINE D == DOMAIN coins
             Rest(j) == SumOver(coins, D \ {j})
  <2>1. /\ g \in D /\ coins[g].balance >= gasAmount
        /\ \A j \in D : coins[j].balance >= gasAmount => coins[g].balance <= coins[j].balance
    BY <1>2, <1>7 DEF GasCoinAt
  <2>2. gasAt = g /\ picked \in PickCoins(rest, amount, pickMethod)
    BY <1>4, <1>7
  <2>3. Slice(rest) /\ Len(rest) = Len(coins) - 1 /\ TotalBalance(rest) = Rest(g)
    BY <2>1, Without
  <2>4. ASSUME NEW i \in DOMAIN rest PROVE \E j \in D \ {g} : rest[i] = coins[j]
    <3>1. i \in 1..(Len(coins) - 1)
      BY <2>3, SliceFacts
    <3>2. rest[i] = coins[IF i < g THEN i ELSE i + 1]
      BY <2>1, <3>1, Without
    <3>3. (IF i < g THEN i ELSE i + 1) \in D \ {g}
      BY <1>3, <2>1, <3>1
    <3> HIDE DEF rest
    <3> QED BY <3>2, <3>3
  <2> HIDE DEF rest
  <2>5. PicksByMethod(picked, rest, amount, pickMethod)
    BY <2>2, <2>3, PickCoinsPromise
  <2>6. picked.err # "none" <=> rest = <<>> \/ Rest(g) < amount
    <3>1. SumOver(rest, DOMAIN rest) = Rest(g)
      BY <2>3, SumOfAll
    <3> QED BY <2>5, <3>1 DEF PicksByMethod
  <2>7. \A j \in D : DOMAIN coins # {j} <=> Len(coins) # 1
    BY <1>3
  <2>8. rest = <<>> <=> Len(coins) = 1
    <3>1. rest = <<>> <=> Len(rest) = 0
      BY <2>3, EmptySeq DEF Slice
    <3> QED BY <1>3, <2>3, <3>1
  <2>9. ASSUME NEW j \in D, coins[j].balance >= gasAmount PROVE Rest(j) <= Rest(g)
    <3> DEFINE all == SumOver(coins, D)
    <3>1. ASSUME NEW x \in D PROVE all = Rest(x) + coins[x].balance
      <4>1. (D \ {x}) \cup {x} = D
        OBVIOUS
      <4>2. x \notin D \ {x} /\ x \in DOMAIN coins
        OBVIOUS
      <4>3. SumOver(coins, (D \ {x}) \cup {x}) = SumOver(coins, D \ {x}) + coins[x].balance
        <5> HIDE DEF D
        <5> QED BY <4>2, SumAdds
      <4> QED BY <4>1, <4>3
    <3>2. Rest(j) \in Nat /\ Rest(g) \in Nat /\ coins[j].balance \in Nat /\ coins[g].balance \in Nat
      BY <1>3, <2>1, SumIsNat
    <3>3. all = Rest(j) + coins[j].balance /\ all = Rest(g) + coins[g].balance
      BY <2>1, <3>1
    <3>4. coins[g].balance <= coins[j].balance
      BY <2>1, <2>9
    <3> HIDE DEF all, Rest
    <3> QED BY <3>2, <3>3, <3>4
  <2>10. \A j \in D : Rest(j) \in Nat
    BY SumIsNat
  <2>11. picked.err = "none" <=> Len(coins) # 1 /\ Rest(g) >= amount
    BY <2>1, <2>6, <2>8, <2>10
  <2>12. CanSplit(coins, amount, gasAmount) <=> \E j \in D : coins[j].balance >= gasAmount /\ D # {j} /\ Rest(j) >= amount
    BY DEF CanSplit
  <2> HIDE DEF Rest
  <2>13. picked.err = "none" => CanSplit(coins, amount, gasAmount)
    BY <2>1, <2>7, <2>11, <2>12
  <2>14. CanSplit(coins, amount, gasAmount) => picked.err = "none"
    <3> SUFFICES ASSUME NEW j \in D, coins[j].balance >= gasAmount, D # {j}, Rest(j) >= amount
                 PROVE  picked.err = "none"
      BY <2>12
    <3>1. Rest(j) <= Rest(g) /\ Rest(j) \in Nat /\ Rest(g) \in Nat
      BY <2>1, <2>9, <2>10
    <3> QED BY <2>7, <2>11, <3>1
  <2>15. ASSUME picked.err = "none", IsInjective(coins) PROVE coins[gasAt] \notin ToSet(picked.coins)
    <3>1. ToSet(picked.coins) \subseteq ToSet(rest)
      BY <2>5, <2>15 DEF PicksByMethod
    <3>2. coins[g] \notin ToSet(rest)
      BY <2>1, <2>4, <2>15 DEF ToSet, IsInjective
    <3> QED BY <2>2, <3>1, <3>2
  <2> QED BY <2>1, <2>2, <2>13, <2>14, <2>15 DEF GasSplit
<1> QED BY <1>5, <1>6, <1>7

-----------------------------------------------------------------------------
(***************************************************************************)
(* PickCoinNoLess.                                                         *)
(***************************************************************************)
LEMMA NoLessFacts ==
  ASSUME NEW coins, Slice(coins), NEW amount \in Nat, NEW i, i = NoLessIndex(coins, amount), i # 0
  PROVE  i \in DOMAIN coins /\ coins[i].balance >= amount
<1> DEFINE fit == {j \in DOMAIN coins : coins[j].balance >= amount}
<1>1. i = IF fit = {} THEN 0 ELSE Min(fit)
  BY DEF NoLessIndex
<1>2. fit # {}
  BY <1>1
<1>3. fit \in SUBSET Nat
  <2>1. \A j \in DOMAIN coins : j \in Nat
    BY SliceFacts
  <2> QED BY <2>1
<1>4. \A j \in fit : j \in DOMAIN coins /\ coins[j].balance >= amount
  OBVIOUS
<1> HIDE DEF fit
<1>5. i \in fit
  BY <1>1, <1>2, <1>3, MinOf
<1> QED BY <1>4, <1>5

(* Shift leaves the other coins in their order, one place down. *)
LEMMA ShiftFacts ==
  ASSUME NEW coins, Slice(coins), NEW i \in DOMAIN coins
  PROVE  /\ Slice(Shift(coins, i)) /\ Len(Shift(coins, i)) = Len(coins)
         /\ Prefix(Shift(coins, i), Len(coins) - 1) = RemoveAt(coins, i)
<1> DEFINE m == Len(coins)
           t == Shift(coins, i)
           S == ToSet(t)
           r == RemoveAt(coins, i)
<1>1. m \in Nat /\ DOMAIN coins = 1..m /\ i \in 1..m /\ \A n \in 1..m : coins[n].balance \in Nat
  BY SliceFacts
<1>2. t = [n \in 1..m |-> IF n >= i /\ n < m THEN coins[n + 1] ELSE coins[n]]
  BY <1>1 DEF Shift
<1> HIDE DEF m
<1>3. DOMAIN t = 1..m /\ \A n \in 1..m : t[n] = IF n >= i /\ n < m THEN coins[n + 1] ELSE coins[n]
  BY <1>2
<1> HIDE DEF t
<1>4. \A n \in 1..m : t[n].balance \in Nat
  <2>1. \A n \in 1..m : n < m => n + 1 \in 1..m
    BY <1>1
  <2> QED BY <1>1, <1>3, <2>1
<1>5. \A n \in 1..m : t[n] \in S
  BY <1>3 DEF ToSet
<1> HIDE DEF S
<1>6. t \in Seq(S) /\ Len(t) = m
  <2>1. t = [n \in 1..m |-> t[n]]
    BY <1>2, <1>3
  <2> QED BY <1>1, <1>5, <2>1
<1>7. Slice(t)
  BY <1>3, <1>4, <1>6 DEF Slice, S
<1>8. /\ Slice(r) /\ Len(r) = m - 1
      /\ \A n \in 1..(m - 1) : r[n] = coins[IF n < i THEN n ELSE n + 1]
  BY Without DEF m
<1> HIDE DEF r
<1>9. Prefix(t, m - 1) = r
  <2>1. m - 1 \in 0..m /\ m - 1 \in Nat
    BY <1>1
  <2>2. Prefix(t, m - 1) = [n \in 1..(m - 1) |-> t[n]]
    BY <1>6, <2>1 DEF Prefix
  <2>3. r = [n \in 1..(m - 1) |-> r[n]]
    <3>1. r \in Seq(ToSet(r))
      BY <1>8 DEF Slice
    <3> QED BY <1>8, <3>1
  <2>4. ASSUME NEW n \in 1..(m - 1) PROVE t[n] = r[n]
    <3>1. n \in 1..m /\ n < m
      BY <1>1
    <3>2. n < i <=> ~ (n >= i)
      BY <1>1
    <3> QED BY <1>3, <1>8, <3>1, <3>2
  <2> QED BY <2>2, <2>3, <2>4
<1> QED BY <1>6, <1>7, <1>9 DEF t, r, m

(* A slice of one coin is worth this coin. *)
LEMMA OneCoin ==
  ASSUME NEW c, c.balance \in Nat PROVE TotalBalance(<<c>>) = c.balance
<1> DEFINE s == <<c>>
<1>1. Slice(s) /\ Len(s) = 1 /\ s[1] = c
  BY DEF Slice, ToSet
<1> HIDE DEF s
<1>2. TotalBalance(Prefix(s, 0)) = 0 /\ TotalBalance(Prefix(s, 0 + 1)) = TotalBalance(Prefix(s, 0)) + s[0 + 1].balance
  BY <1>1, TotalSteps, SMTT(30)
<1>3. Prefix(s, 1) = s
  BY <1>1, SliceFacts
<1> QED BY <1>1, <1>2, <1>3 DEF s

-----------------------------------------------------------------------------
(***************************************************************************)
(* The inductive invariant: the result kept of the last call is the result *)
(* of its function on the slice, as it stands or, for PickCoinNoLess, as   *)
(* it stood before the call.                                               *)
(***************************************************************************)
Untouched == call = NoCall /\ cs \in Wallets /\ held = NothingHeld

AfterPickupCoins ==
  \E target \in Targets, budget \in Budgets, limit \in Limits, more \in MoreCounts, hasNextPage \in BOOLEAN :
    /\ call = [op |-> "PickupCoins", target |-> target, budget |-> budget,
               limit |-> limit, more |-> more, hasNextPage |-> hasNextPage]
    /\ res = PickupCoins(cs, hasNextPage, target, budget, limit, more)
    /\ held = NothingHeld

AfterPickCoins ==
  \E amount \in Targets, pickMethod \in PickMethods :
    /\ call = [op |-> "PickCoins", target |-> amount, method |-> pickMethod]
    /\ res \in PickCoins(cs, amount, pickMethod)
    /\ held = NothingHeld

AfterPickSUICoinsWithGas ==
  \E amount \in Targets, gasAmount \in Budgets, pickMethod \in PickMethods :
    /\ call = [op |-> "PickSUICoinsWithGas", target |-> amount, budget |-> gasAmount, method |-> pickMethod]
    /\ \E r \in PickSUICoinsWithGas(cs, amount, gasAmount, pickMethod) :
         /\ res = r[1]
         /\ held = IF r[1].err = "none" THEN [coins |-> r[1].coins, gasAt |-> r[2], gasAmount |-> gasAmount]
                   ELSE NothingHeld

(* before is the slice as the caller had it. *)
AfterPickCoinNoLess ==
  \E amount \in Targets :
    LET before == call.before
        i == NoLessIndex(before, amount)
    IN /\ call = [op |-> "PickCoinNoLess", target |-> amount, before |-> before]
       /\ Slice(before)
       /\ res = PickCoinNoLess(before, amount)
       /\ cs = IF i = 0 THEN before ELSE Shift(before, i)

LastCall ==
  Untouched \/ AfterPickupCoins \/ AfterPickCoins \/ AfterPickSUICoinsWithGas \/ AfterPickCoinNoLess

(* A caller that fetches its coins for each call has every coin once until  *)
(* PickCoinNoLess writes into the slice, and holds no gas coin then.        *)
Fetched ==
  ~ KeepsSlice => IF call.op = "PickCoinNoLess" THEN held = NothingHeld ELSE IsInjective(cs)

IInv == Slice(cs) /\ LastCall /\ Fetched

(* A slice that was just fetched has every coin once. *)
LEMMA WalletFacts ==
  ASSUME NEW w \in Wallets PROVE Slice(w) /\ IsInjective(w)
<1>1. w \in Seq(ToSet(w)) /\ IsInjective(w) /\ \A i \in DOMAIN w : w[i].balance \in 0..(U64 - 1)
  BY CoinAssumptions
<1>2. \A i \in DOMAIN w : w[i].balance \in Nat
  BY <1>1, CoinAssumptions
<1> QED BY <1>1, <1>2 DEF Slice

(* The invariant holds of every state the calls can reach. *)
THEOREM Inductive == Spec => []IInv
<1>1. Init => IInv
  <2> SUFFICES ASSUME Init PROVE IInv
    OBVIOUS
  <2>1. Slice(cs) /\ IsInjective(cs)
    BY WalletFacts DEF Init
  <2>2. LastCall
    BY DEF Init, LastCall, Untouched
  <2>3. Fetched
    BY <2>1 DEF Init, Fetched, NoCall
  <2> QED BY <2>1, <2>2, <2>3 DEF IInv
<1>2. IInv /\ [Next]_vars => IInv'
  <2> SUFFICES ASSUME IInv, [Next]_vars PROVE IInv'
    OBVIOUS
  <2> USE DEF IInv
  <2>0. NoCall.op = "none"
    BY DEF NoCall
  <2>1. ASSUME KeepsSlice \/ call = NoCall
        PROVE  ~ KeepsSlice => IsInjective(cs) /\ held = NothingHeld
    <3> SUFFICES ASSUME ~ KeepsSlice PROVE IsInjective(cs) /\ held = NothingHeld
      OBVIOUS
    <3>1. call = NoCall
      BY <2>1
    <3>2. call.op = "none"
      BY <2>0, <3>1
    <3>3. IsInjective(cs)
      BY <3>2 DEF Fetched
    <3>4. Untouched
      <4>1. ~ AfterPickupCoins
        BY <3>2 DEF AfterPickupCoins
      <4>2. ~ AfterPickCoins
        BY <3>2 DEF AfterPickCoins
      <4>3. ~ AfterPickSUICoinsWithGas
        BY <3>2 DEF AfterPickSUICoinsWithGas
      <4>4. ~ AfterPickCoinNoLess
        BY <3>2 DEF AfterPickCoinNoLess
      <4> QED BY <4>1, <4>2, <4>3, <4>4 DEF LastCall
    <3> QED BY <3>3, <3>4 DEF Untouched
  <2>2. CASE UNCHANGED vars
    BY <2>2 DEF vars, LastCall, Fetched, Untouched, AfterPickupCoins, AfterPickCoins, AfterPickSUICoinsWithGas,
                AfterPickCoinNoLess
  <2>3. CASE FetchWallet
    <3>1. (Slice(cs) /\ IsInjective(cs))'
      BY <2>3, WalletFacts DEF FetchWallet
    <3>2. LastCall'
      BY <2>3 DEF FetchWallet, LastCall, Untouched
    <3>3. Fetched'
      BY <2>3, <3>1 DEF FetchWallet, Fetched, NoCall
    <3> QED BY <3>1, <3>2, <3>3
  <2>4. ASSUME KeepsSlice \/ call = NoCall, NEW target \in Targets, NEW budget \in Budgets, NEW limit \in Limits,
               NEW more \in MoreCounts, NEW hasNextPage \in BOOLEAN,
               CallPickupCoins(target, budget, limit, more, hasNextPage)
        PROVE  IInv'
    <3>1. cs' = cs /\ call'.op = "PickupCoins"
      BY <2>4 DEF CallPickupCoins
    <3>2. AfterPickupCoins'
      BY <2>4, <3>1 DEF CallPickupCoins, AfterPickupCoins
    <3>3. Slice(cs)'
      BY <3>1
    <3>4. Fetched'
      BY <2>1, <2>4, <3>1 DEF Fetched
    <3> QED BY <3>2, <3>3, <3>4 DEF LastCall
  <2>5. ASSUME KeepsSlice \/ call = NoCall, NEW amount \in Targets, NEW pickMethod \in PickMethods,
               CallPickCoins(amount, pickMethod)
        PROVE  IInv'
    <3>1. cs' = cs /\ call'.op = "PickCoins"
      BY <2>5 DEF CallPickCoins
    <3>2. AfterPickCoins'
      BY <2>5, <3>1 DEF CallPickCoins, AfterPickCoins
    <3>3. Slice(cs)'
      BY <3>1
    <3>4. Fetched'
      BY <2>1, <2>5, <3>1 DEF Fetched
    <3> QED BY <3>2, <3>3, <3>4 DEF LastCall
  <2>6. ASSUME KeepsSlice \/ call = NoCall, NEW amount \in Targets, NEW gasAmount \in Budgets,
               NEW pickMethod \in PickMethods, CallPickSUICoinsWithGas(amount, gasAmount, pickMethod)
        PROVE  IInv'
    <3>1. cs' = cs /\ call'.op = "PickSUICoinsWithGas"
      BY <2>6 DEF CallPickSUICoinsWithGas
    <3>2. AfterPickSUICoinsWithGas'
      BY <2>6, <3>1 DEF CallPickSUICoinsWithGas, AfterPickSUICoinsWithGas
    <3>3. Slice(cs)'
      BY <3>1
    <3>4. Fetched'
      BY <2>1, <2>6, <3>1 DEF Fetched
    <3> QED BY <3>2, <3>3, <3>4 DEF LastCall
  <2>7. ASSUME KeepsSlice \/ call = NoCall, NEW amount \in Targets, CallPickCoinNoLess(amount)
        PROVE  IInv'
    <3> DEFINE i == NoLessIndex(cs, amount)
    <3>1. /\ call' = [op |-> "PickCoinNoLess", target |-> amount, before |-> cs]
          /\ res' = PickCoinNoLess(cs, amount)
          /\ cs' = IF i = 0 THEN cs ELSE Shift(cs, i)
          /\ held' = held
      BY <2>7 DEF CallPickCoinNoLess
    <3>2. call'.op = "PickCoinNoLess" /\ call'.before = cs
      BY <3>1
    <3>3. AfterPickCoinNoLess'
      BY <3>1, <3>2 DEF AfterPickCoinNoLess
    <3>4. Slice(cs)'
      <4>1. i # 0 => i \in DOMAIN cs
        BY NoLessFacts, CoinAssumptions
      <4>2. i # 0 => Slice(Shift(cs, i))
        <5> HIDE DEF i
        <5> QED BY <4>1, ShiftFacts
      <4> QED BY <3>1, <4>2
    <3>5. Fetched'
      BY <2>1, <2>7, <3>1, <3>2 DEF Fetched
    <3> QED BY <3>3, <3>4, <3>5 DEF LastCall
  <2> QED BY <2>2, <2>3, <2>4, <2>5, <2>6, <2>7 DEF Next, UseSlice
<1> QED BY <1>1, <1>2, PTL DEF Spec

(* A call's operation tells which call it was. *)
LEMMA WhichCall ==
  ASSUME LastCall
  PROVE  /\ call.op = "PickupCoins" => AfterPickupCoins
         /\ call.op = "PickCoins" => AfterPickCoins
         /\ call.op = "PickSUICoinsWithGas" => AfterPickSUICoinsWithGas
         /\ call.op = "PickCoinNoLess" => AfterPickCoinNoLess
<1>1. Untouched => call.op = "none" /\ held = NothingHeld
  BY DEF Untouched, NoCall
<1>2. AfterPickupCoins => call.op = "PickupCoins"
  BY DEF AfterPickupCoins
<1>3. AfterPickCoins => call.op = "PickCoins"
  BY DEF AfterPickCoins
<1>4. AfterPickSUICoinsWithGas => call.op = "PickSUICoinsWithGas"
  BY DEF AfterPickSUICoinsWithGas
<1>5. AfterPickCoinNoLess => call.op = "PickCoinNoLess"
  BY DEF AfterPickCoinNoLess
<1> QED BY <1>1, <1>2, <1>3, <1>4, <1>5 DEF LastCall

-----------------------------------------------------------------------------
(***************************************************************************)
(* What the calls promise.                                                 *)
(***************************************************************************)
(* PickupCoins takes the coins in their order, no more than the limit and   *)
(* none it does not need (types/coin.go, PickupCoins).                      *)
THEOREM PickupsTakeNoMore == Spec => []PickupTakesNoMore
<1>1. IInv => PickupTakesNoMore
  <2> SUFFICES ASSUME IInv, call.op = "PickupCoins", res.err = "none" PROVE PickupTakesNoMore
    BY DEF PickupTakesNoMore, Succeeded
  <2>1. PICK target \in Targets, budget \in Budgets, limit \in Limits, more \in MoreCounts, hasNextPage \in BOOLEAN :
          /\ call = [op |-> "PickupCoins", target |-> target, budget |-> budget,
                     limit |-> limit, more |-> more, hasNextPage |-> hasNextPage]
          /\ res = PickupCoins(cs, hasNextPage, target, budget, limit, more)
    BY WhichCall DEF IInv, AfterPickupCoins
  <2>2. call.target = target /\ call.budget = budget /\ call.limit = limit /\ call.more = more
    BY <2>1
  <2>3. target \in Nat /\ budget \in Nat /\ limit \in Int /\ more \in Int
    BY CoinAssumptions
  <2>4. Took(res, Len(res.coins), cs, LimitOf(limit), MoreCountOf(limit, more), target + budget, budget)
    BY <2>1, <2>3, PickupTakes DEF IInv
  <2> QED BY <2>2, <2>4 DEF Took, PickupTakesNoMore
<1> QED BY <1>1, Inductive, PTL

(* The errors of PickupCoins have their reason in the coins of the slice    *)
(* (types/coin.go, PickupCoins).                                            *)
THEOREM PickupErrorsHaveReasons == Spec => []PickupErrorsJustified
<1>1. IInv => PickupErrorsJustified
  <2> SUFFICES ASSUME IInv, call.op = "PickupCoins" PROVE PickupErrorsJustified
    BY DEF PickupErrorsJustified
  <2>1. PICK target \in Targets, budget \in Budgets, limit \in Limits, more \in MoreCounts, hasNextPage \in BOOLEAN :
          /\ call = [op |-> "PickupCoins", target |-> target, budget |-> budget,
                     limit |-> limit, more |-> more, hasNextPage |-> hasNextPage]
          /\ res = PickupCoins(cs, hasNextPage, target, budget, limit, more)
    BY WhichCall DEF IInv, AfterPickupCoins
  <2>2. call.target = target /\ call.budget = budget /\ call.limit = limit /\ call.hasNextPage = hasNextPage
    BY <2>1
  <2>3. target \in Nat /\ budget \in Nat /\ limit \in Int /\ more \in Int
    BY CoinAssumptions
  <2>4. LET max == LimitOf(limit)
            usable == IF Len(cs) > max THEN Prefix(cs, max) ELSE cs
        IN /\ res.err = "ErrNeedMergeCoin" =>
                /\ Len(cs) > max \/ hasNextPage
                /\ TotalBalance(usable) < target + budget
           /\ res.err = "ErrInsufficientBalance" => ~ hasNextPage /\ TotalBalance(cs) < target
    BY <2>1, <2>3, PickupJustified DEF IInv
  <2> QED BY <2>2, <2>4 DEF PickupErrorsJustified
<1> QED BY <1>1, Inductive, PTL

(* The suggested gas budget can be paid from the coins that PickupCoins     *)
(* returns, if target and gas budget together are a uint64: beyond that     *)
(* Uint64() drops bits of what is missing (types/coin.go, PickupCoins and   *)
(* SuggestMaxGasBudget).                                                    *)
THEOREM SuggestionsAffordable ==
  ASSUME \A target \in Targets, budget \in Budgets : target + budget < U64
  PROVE  Spec => []SuggestedGasAffordable
<1>1. IInv => SuggestedGasAffordable
  <2> SUFFICES ASSUME IInv, call.op = "PickupCoins", res.err = "none" PROVE SuggestedGasAffordable
    BY DEF SuggestedGasAffordable, Succeeded
  <2>1. PICK target \in Targets, budget \in Budgets, limit \in Limits, more \in MoreCounts, hasNextPage \in BOOLEAN :
          /\ call = [op |-> "PickupCoins", target |-> target, budget |-> budget,
                     limit |-> limit, more |-> more, hasNextPage |-> hasNextPage]
          /\ res = PickupCoins(cs, hasNextPage, target, budget, limit, more)
    BY WhichCall DEF IInv, AfterPickupCoins
  <2>2. call.target = target
    BY <2>1
  <2>3. target \in Nat /\ budget \in Nat /\ limit \in Int /\ more \in Int
    BY CoinAssumptions
  <2>4. target + budget < U64
    OBVIOUS
  <2>5. /\ res.total = TotalBalance(res.coins)
        /\ target + SuggestMaxGasBudget(res.total, target) <= res.total
    BY <2>1, <2>3, <2>4, PickupAffordable DEF IInv
  <2> QED BY <2>2, <2>5 DEF SuggestedGasAffordable
<1> QED BY <1>1, Inductive, PTL

(* PickCoins fails only if it must, and picks as its method says            *)
(* (types/coin.go, PickCoins), for callers that fetch their coins before    *)
(* each call: in a slice PickCoinNoLess has written into, a coin may be     *)
(* twice.                                                                   *)
THEOREM PicksAreByMethod ==
  ASSUME ~ KeepsSlice
  PROVE  Spec => []PickCoinsByMethod
<1>1. IInv => PickCoinsByMethod
  <2> SUFFICES ASSUME IInv, call.op = "PickCoins" PROVE PickCoinsByMethod
    BY DEF PickCoinsByMethod
  <2>1. PICK amount \in Targets, pickMethod \in PickMethods :
          /\ call = [op |-> "PickCoins", target |-> amount, method |-> pickMethod]
          /\ res \in PickCoins(cs, amount, pickMethod)
    BY WhichCall DEF IInv, AfterPickCoins
  <2>2. call.target = amount /\ call.method = pickMethod
    BY <2>1
  <2>3. PicksByMethod(res, cs, amount, pickMethod)
    <3>1. amount \in Nat
      BY CoinAssumptions
    <3> QED BY <2>1, <3>1, PickCoinsPromise DEF IInv
  <2>4. IsInjective(cs)
    BY DEF IInv, Fetched
  <2> QED BY <2>2, <2>3, <2>4 DEF PicksByMethod, PickCoinsByMethod
<1> QED BY <1>1, Inductive, PTL

(* The smallest gas coin spoils no split: PickSUICoinsWithGas fails only if *)
(* every gas coin would leave too little (types/coin.go,                    *)
(* PickSUICoinsWithGas), also on a slice that PickCoinNoLess has written    *)
(* into.                                                                    *)
THEOREM GasSplitsComplete == Spec => []PickWithGasComplete
<1>1. IInv => PickWithGasComplete
  <2> SUFFICES ASSUME IInv, call.op = "PickSUICoinsWithGas", call.budget > 0 PROVE PickWithGasComplete
    BY DEF PickWithGasComplete
  <2>1. PICK amount \in Targets, gasAmount \in Budgets, pickMethod \in PickMethods :
          /\ call = [op |-> "PickSUICoinsWithGas", target |-> amount, budget |-> gasAmount, method |-> pickMethod]
          /\ \E r \in PickSUICoinsWithGas(cs, amount, gasAmount, pickMethod) : res = r[1]
    BY WhichCall DEF IInv, AfterPickSUICoinsWithGas
  <2>2. call.target = amount /\ call.budget = gasAmount /\ amount \in Nat /\ gasAmount \in Nat /\ gasAmount # 0
    BY <2>1, CoinAssumptions
  <2>3. PICK r \in PickSUICoinsWithGas(cs, amount, gasAmount, pickMethod) : res = r[1]
    BY <2>1
  <2>4. r = <<r[1], r[2]>>
    BY <2>3 DEF PickSUICoinsWithGas
  <2>5. GasSplit(cs, amount, gasAmount, r[1], r[2])
    BY <2>2, <2>3, <2>4, WithGasPromise DEF IInv
  <2>6. res.err = "none" <=> CanSplit(cs, amount, gasAmount)
    BY <2>3, <2>5 DEF GasSplit
  <2> QED BY <2>2, <2>6 DEF CanSplit, PickWithGasComplete
<1> QED BY <1>1, Inductive, PTL

(* The gas coin pays the gas and is not among the coins returned with it    *)
(* (types/coin.go, PickSUICoinsWithGas), for callers that fetch their coins *)
(* before each call: the gas coin is a pointer into the slice.              *)
THEOREM GasCoinsSeparate ==
  ASSUME ~ KeepsSlice
  PROVE  Spec => []GasCoinSeparate
<1>1. IInv => GasCoinSeparate
  <2> SUFFICES ASSUME IInv, held.gasAt # 0
               PROVE  cs[held.gasAt].balance >= held.gasAmount /\ cs[held.gasAt] \notin ToSet(held.coins)
    BY DEF GasCoinSeparate
  <2>1. held # NothingHeld
    BY DEF NothingHeld
  <2>2. IsInjective(cs) /\ call.op # "PickCoinNoLess"
    BY <2>1 DEF IInv, Fetched
  <2>3. AfterPickSUICoinsWithGas
    <3>1. ~ AfterPickCoinNoLess
      BY <2>2 DEF AfterPickCoinNoLess
    <3> QED BY <2>1, <3>1 DEF IInv, LastCall, Untouched, AfterPickupCoins, AfterPickCoins
  <2>4. PICK amount \in Targets, gasAmount \in Budgets, pickMethod \in PickMethods :
          \E r \in PickSUICoinsWithGas(cs, amount, gasAmount, pickMethod) :
            held = IF r[1].err = "none" THEN [coins |-> r[1].coins, gasAt |-> r[2], gasAmount |-> gasAmount]
                   ELSE NothingHeld
    BY <2>3 DEF AfterPickSUICoinsWithGas
  <2>5. PICK r \in PickSUICoinsWithGas(cs, amount, gasAmount, pickMethod) :
          held = IF r[1].err = "none" THEN [coins |-> r[1].coins, gasAt |-> r[2], gasAmount |-> gasAmount]
                 ELSE NothingHeld
    BY <2>4
  <2>6. r[1].err = "none" /\ held.coins = r[1].coins /\ held.gasAt = r[2] /\ held.gasAmount = gasAmount
    BY <2>1, <2>5
  <2>7. r = <<r[1], r[2]>>
    BY <2>5 DEF PickSUICoinsWithGas
  <2>8. amount \in Nat /\ gasAmount \in Nat
    BY CoinAssumptions
  <2>9. /\ gasAmount = 0 => r[2] = 0
        /\ gasAmount # 0 => GasSplit(cs, amount, gasAmount, r[1], r[2])
    BY <2>5, <2>7, <2>8, WithGasPromise DEF IInv
  <2>10. GasSplit(cs, amount, gasAmount, r[1], r[2])
    BY <2>6, <2>9
  <2> QED BY <2>2, <2>6, <2>10 DEF GasSplit
<1> QED BY <1>1, Inductive, PTL

(* PickCoinNoLess takes one coin that is enough and loses none of the       *)
(* others (types/coin.go, PickCoinNoLess).                                  *)
THEOREM NoLessKeepsOthers == Spec => []NoLessLeavesOthers
<1>1. IInv => NoLessLeavesOthers
  <2> SUFFICES ASSUME IInv, call.op = "PickCoinNoLess", res.err = "none" PROVE NoLessLeavesOthers
    BY DEF NoLessLeavesOthers, Succeeded
  <2> DEFINE before == call.before
  <2>1. PICK amount \in Targets :
          LET i == NoLessIndex(before, amount)
          IN /\ call = [op |-> "PickCoinNoLess", target |-> amount, before |-> before]
             /\ Slice(before)
             /\ res = PickCoinNoLess(before, amount)
             /\ cs = IF i = 0 THEN before ELSE Shift(before, i)
    BY WhichCall DEF IInv, AfterPickCoinNoLess
  <2> DEFINE i == NoLessIndex(before, amount)
  <2>2. call.target = amount /\ Slice(before) /\ amount \in Nat
    BY <2>1, CoinAssumptions
  <2>3. i # 0 /\ res = PickedCoins(<<before[i]>>)
    BY <2>1 DEF PickCoinNoLess, Failed
  <2>4. cs = Shift(before, i)
    BY <2>1, <2>3
  <2> HIDE DEF before
  <2>5. i \in DOMAIN before /\ before[i].balance >= amount
    BY <2>2, <2>3, NoLessFacts
  <2> HIDE DEF i
  <2>6. res.coins = <<before[i]>> /\ res.total = before[i].balance
    <3>1. before[i].balance \in Nat
      BY <2>2, <2>5 DEF Slice
    <3> QED BY <2>3, <3>1, OneCoin DEF PickedCoins
  <2>7. Len(cs) = Len(before) /\ Prefix(cs, Len(before) - 1) = RemoveAt(before, i)
    BY <2>2, <2>4, <2>5, ShiftFacts
  <2>8. /\ Len(cs) = Len(before) /\ res.total >= call.target
        /\ \E j \in DOMAIN before : res.coins = <<before[j]>> /\ Prefix(cs, Len(cs) - 1) = RemoveAt(before, j)
    BY <2>2, <2>5, <2>6, <2>7
  <2> QED BY <2>8 DEF before, NoLessLeavesOthers
<1> QED BY <1>1, Inductive, PTL

=============================================================================
