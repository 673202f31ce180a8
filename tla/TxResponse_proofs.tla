------------------------- MODULE TxResponse_proofs --------------------------
(***************************************************************************)
(* Proofs about TxResponse, for any objects, packages, owners and options  *)
(* and any number of transactions.                                         *)
(***************************************************************************)
EXTENDS TxResponse, SequenceTheorems, FiniteSetTheorems, WellFoundedInduction, TLAPS

(* A set of natural numbers that has 0 and with a number the next one has   *)
(* all of them: a least number outside it would be neither.                 *)
LEMMA SetInduction ==
  ASSUME NEW S, 0 \in S, \A n \in Nat : n \in S => n + 1 \in S
  PROVE  Nat \subseteq S
<1> DEFINE R == {ss \in Nat \X Nat : ss[1] < ss[2]}
<1> SUFFICES ASSUME Nat \ S # {} PROVE FALSE
  OBVIOUS
<1>1. IsWellFoundedOn(R, Nat)
  BY NatLessThanWellFounded DEF OpToRel
<1> HIDE DEF R
<1>2. PICK m \in Nat \ S : \A n \in Nat \ S : ~ (<<n, m>> \in R)
  BY <1>1, WFMin
<1>3. m # 0 /\ m - 1 \in Nat /\ m - 1 < m
  BY <1>2
<1>4. <<m - 1, m>> \in R
  BY <1>3 DEF R
<1>5. m - 1 \in S
  BY <1>2, <1>3, <1>4
<1> QED BY <1>2, <1>3, <1>5

FE == INSTANCE SeqFolds WITH op <- ApplyToInternalEffects
FC == INSTANCE SeqFolds WITH op <- AppendObjectChange

(* Induction, the hypothesis of FE. *)
LEMMA FEInduction == FE!Induction
BY SetInduction DEF FE!Induction

(* Induction, the hypothesis of FC. *)
LEMMA FCInduction == FC!Induction
BY SetInduction DEF FC!Induction

AddFunds(f, write, p) == FundsAfter(f, write)
AddParsed(out, x, p) == AppendParsed(out, x)
FF == INSTANCE SeqFolds WITH op <- AddFunds
FP == INSTANCE SeqFolds WITH op <- AddParsed

(* Induction, the hypothesis of FF. *)
LEMMA FFInduction == FF!Induction
BY SetInduction DEF FF!Induction

(* Induction, the hypothesis of FP. *)
LEMMA FPInduction == FP!Induction
BY SetInduction DEF FP!Induction

-----------------------------------------------------------------------------
(***************************************************************************)
(* Lists.                                                                  *)
(***************************************************************************)
List(s) == s \in Seq(ToSet(s))

(* The elements of a list with one more at its end. *)
LEMMA AppendFacts ==
  ASSUME NEW s, List(s), NEW x
  PROVE  /\ List(Append(s, x)) /\ Len(Append(s, x)) = Len(s) + 1
         /\ \A y : y \in ToSet(Append(s, x)) <=> y \in ToSet(s) \/ y = x
         /\ \A i \in 1..Len(s) : Append(s, x)[i] = s[i]
         /\ Append(s, x)[Len(s) + 1] = x
<1> DEFINE t == Append(s, x)
           T == ToSet(s) \cup {x}
<1>1. s \in Seq(ToSet(s)) /\ Len(s) \in Nat /\ DOMAIN s = 1..Len(s)
  BY DEF List
<1>2. s \in Seq(T) /\ x \in T
  <2>1. \A i \in 1..Len(s) : s[i] \in T
    BY <1>1 DEF ToSet
  <2> HIDE DEF T
  <2>2. s = [i \in 1..Len(s) |-> s[i]]
    BY <1>1
  <2>3. s \in Seq(T)
    BY <1>1, <2>1, <2>2
  <2>4. x \in T
    BY DEF T
  <2> QED BY <2>3, <2>4
<1> HIDE DEF T
<1>3. /\ t \in Seq(T) /\ Len(t) = Len(s) + 1 /\ DOMAIN t = 1..(Len(s) + 1)
      /\ \A i \in 1..Len(s) : t[i] = s[i]
      /\ t[Len(s) + 1] = x
  BY <1>1, <1>2
<1> HIDE DEF t
<1>4. \A i : i \in 1..(Len(s) + 1) <=> i \in 1..Len(s) \/ i = Len(s) + 1
  BY <1>1
<1>5. ASSUME NEW y PROVE y \in ToSet(t) <=> y \in ToSet(s) \/ y = x
  BY <1>1, <1>3, <1>4 DEF ToSet
<1>6. ToSet(t) = T
  BY <1>5 DEF T
<1> QED BY <1>3, <1>5, <1>6 DEF List, t

(* The empty list has no elements. *)
LEMMA EmptyList ==
  List(<<>>) /\ \A y : y \notin ToSet(<<>>)
BY DEF List, ToSet

-----------------------------------------------------------------------------
(***************************************************************************)
(* The conversion of effects, entry by entry.                              *)
(***************************************************************************)
LiveBuckets == {"Created", "Mutated", "Unwrapped"}
GoneBuckets == {"Deleted", "UnwrappedThenDeleted", "Wrapped"}

Dropped(e) == BucketOf(e) \in LiveBuckets /\ ToInternalOwner(e.owner) = "error"

RefOf(e, version) ==
  IF BucketOf(e) \in LiveBuckets THEN OwnedObjectRef(e) ELSE MarkerObjectRef(e, version)

(* A result of the fold, whatever the lists have. *)
Shaped(v) ==
  /\ v = [effects |-> v.effects, errs |-> v.errs]
  /\ v.effects = [b \in Buckets \cup {"Status"} |-> v.effects[b]]

PutErr(v, err) == [v EXCEPT !.errs = v.errs \cup {err}]
Put(v, b, x) == [v EXCEPT !.effects[b] = x]

(* One error more. *)
LEMMA PutErrFacts ==
  ASSUME NEW v, Shaped(v), NEW err
  PROVE  /\ Shaped(PutErr(v, err)) /\ PutErr(v, err).effects = v.effects
         /\ PutErr(v, err).errs = v.errs \cup {err}
BY DEF Shaped, PutErr

(* One list changed. *)
LEMMA PutFacts ==
  ASSUME NEW v, Shaped(v), NEW b \in Buckets, NEW x
  PROVE  /\ Shaped(Put(v, b, x)) /\ Put(v, b, x).errs = v.errs
         /\ \A c \in Buckets : Put(v, b, x).effects[c] = IF c = b THEN x ELSE v.effects[c]
         /\ Put(v, b, x).effects["Status"] = v.effects["Status"]
<1> DEFINE g == [v.effects EXCEPT ![b] = x]
           w == [v EXCEPT !.effects[b] = x]
           D == Buckets \cup {"Status"}
<1>1. w = [v EXCEPT !.effects = g]
  OBVIOUS
<1>2. v.effects = [c \in D |-> v.effects[c]]
  BY DEF Shaped
<1>3. b \in D /\ (\A c \in Buckets : c \in D) /\ "Status" \in D /\ "Status" # b
  BY DEF Buckets
<1> HIDE DEF D
<1>4. g = [c \in D |-> g[c]] /\ \A c \in D : g[c] = IF c = b THEN x ELSE v.effects[c]
  BY <1>2, <1>3
<1>5. Put(v, b, x) = w
  BY DEF Put
<1> HIDE DEF g, w
<1>6. w = [effects |-> g, errs |-> v.errs]
  BY <1>1 DEF Shaped
<1>7. w.effects = g /\ w.errs = v.errs
  BY <1>6
<1>8. Shaped(w)
  BY <1>4, <1>6, <1>7 DEF Shaped, D
<1> QED BY <1>3, <1>4, <1>5, <1>7, <1>8

(* What the lists have after n entries of L, of which those up to k are of  *)
(* objects and the one after them, if any, is of an address balance.        *)
Lists(v, L, n, k, version) ==
  /\ Shaped(v)
  /\ \A b \in LiveBuckets \cup GoneBuckets :
       /\ List(v.effects[b])
       /\ \A x : x \in ToSet(v.effects[b]) <=>
                   \E i \in 1..n : BucketOf(L[i]) = b /\ ~ Dropped(L[i]) /\ x = RefOf(L[i], version)
  /\ v.effects["AccumulatorEvents"] = IF n <= k THEN <<>> ELSE <<AccumulatorEvent(L[n])>>
  /\ \A o : <<"effects", o>> \in v.errs <=> \E i \in 1..n : Dropped(L[i]) /\ L[i].id = o
  /\ \A o : <<"change", o>> \notin v.errs

(* Entries of at most k objects and then of at most one address balance. *)
ObjectsFirst(L, k) ==
  /\ List(L) /\ k \in Nat /\ k <= Len(L) /\ Len(L) <= k + 1
  /\ \A i \in 1..Len(L) : BucketOf(L[i]) = "AccumulatorEvents" <=> i > k

(* One more entry converted, the lists have it. *)
LEMMA ListsStep ==
  ASSUME NEW v, NEW L, NEW n \in Nat, NEW k, NEW version, ObjectsFirst(L, k), n + 1 <= Len(L),
         Lists(v, L, n, k, version)
  PROVE  Lists(ApplyToInternalEffects(v, L[n + 1], version), L, n + 1, k, version)
<1> DEFINE e == L[n + 1]
           bucket == BucketOf(e)
           w == ApplyToInternalEffects(v, e, version)
           Both == LiveBuckets \cup GoneBuckets
<1>1. Len(L) \in Nat /\ k \in Nat /\ Len(L) <= k + 1 /\ n + 1 \in 1..Len(L) /\ n <= k
  BY DEF ObjectsFirst, List
<1>2. \A i : i \in 1..(n + 1) <=> i \in 1..n \/ i = n + 1
  OBVIOUS
<1>3. bucket = "AccumulatorEvents" <=> n + 1 > k
  BY <1>1 DEF ObjectsFirst
<1>4. bucket \in Buckets \cup {"none"} /\ bucket # "GasObject"
  BY DEF BucketOf, Buckets
<1>5. Both \subseteq Buckets /\ "AccumulatorEvents" \in Buckets /\ "AccumulatorEvents" \notin Both /\ "none" \notin Both
  BY DEF LiveBuckets, GoneBuckets, Buckets
<1>6. Shaped(v)
  BY DEF Lists
<1>7. v.effects["AccumulatorEvents"] = <<>>
  BY <1>1 DEF Lists
<1>8. \A b \in Both : List(v.effects[b])
  BY DEF Lists
<1>9. \A b \in Both : \A x : x \in ToSet(v.effects[b]) <=>
                           \E i \in 1..n : BucketOf(L[i]) = b /\ ~ Dropped(L[i]) /\ x = RefOf(L[i], version)
  BY DEF Lists
<1>10. /\ \A o : <<"effects", o>> \in v.errs <=> \E i \in 1..n : Dropped(L[i]) /\ L[i].id = o
       /\ \A o : <<"change", o>> \notin v.errs
  BY DEF Lists
<1> HIDE DEF Both
<1>11. \/ bucket = "none" /\ w = v /\ ~ Dropped(e)
       \/ Dropped(e) /\ w = PutErr(v, <<"effects", e.id>>)
       \/ bucket \in Both /\ ~ Dropped(e) /\ w = Put(v, bucket, Append(v.effects[bucket], RefOf(e, version)))
       \/ /\ bucket = "AccumulatorEvents" /\ ~ Dropped(e)
          /\ w = Put(v, bucket, Append(v.effects[bucket], AccumulatorEvent(e)))
  BY <1>4 DEF ApplyToInternalEffects, Dropped, RefOf, LiveBuckets, GoneBuckets, Both, Buckets, OwnedObjectRef,
              Put, PutErr
<1> DEFINE Listed(u, m) ==
             \A b \in Both : \A x : x \in ToSet(u.effects[b]) <=>
               \E i \in 1..m : BucketOf(L[i]) = b /\ ~ Dropped(L[i]) /\ x = RefOf(L[i], version)
           Reports(u, m) ==
             /\ \A o : <<"effects", o>> \in u.errs <=> \E i \in 1..m : Dropped(L[i]) /\ L[i].id = o
             /\ \A o : <<"change", o>> \notin u.errs
<1> SUFFICES /\ Shaped(w)
             /\ \A b \in Both : List(w.effects[b])
             /\ Listed(w, n + 1)
             /\ w.effects["AccumulatorEvents"] = IF n + 1 <= k THEN <<>> ELSE <<AccumulatorEvent(e)>>
             /\ Reports(w, n + 1)
  BY DEF Lists, Both
<1> HIDE DEF w, bucket
<1>12. Dropped(e) => bucket \in Both /\ bucket # "AccumulatorEvents"
  BY DEF Dropped, Both, bucket, LiveBuckets
<1>17. ASSUME ~ Dropped(e), w.errs = v.errs PROVE Reports(w, n + 1)
  BY <1>2, <1>10, <1>17
<1>18. ASSUME Dropped(e) \/ bucket \notin Both, \A b \in Both : w.effects[b] = v.effects[b]
       PROVE  Listed(w, n + 1) /\ \A b \in Both : List(w.effects[b])
  <2>1. ASSUME NEW b \in Both, NEW x
        PROVE  x \in ToSet(w.effects[b]) <=>
                 \E i \in 1..(n + 1) : BucketOf(L[i]) = b /\ ~ Dropped(L[i]) /\ x = RefOf(L[i], version)
    <3>1. x \in ToSet(w.effects[b]) <=>
            \E i \in 1..n : BucketOf(L[i]) = b /\ ~ Dropped(L[i]) /\ x = RefOf(L[i], version)
      BY <1>9, <1>18
    <3>2. ~ (BucketOf(L[n + 1]) = b /\ ~ Dropped(L[n + 1]))
      BY <1>18 DEF bucket
    <3> QED BY <1>2, <3>1, <3>2
  <2> QED BY <1>8, <1>18, <2>1
<1> HIDE DEF Listed, Reports
<1>13. CASE bucket = "none" /\ w = v /\ ~ Dropped(e)
  <2>1. n + 1 <= k
    BY <1>1, <1>3, <1>13
  <2>2. bucket \notin Both
    BY <1>5, <1>13
  <2>3. Listed(w, n + 1) /\ \A b \in Both : List(w.effects[b])
    BY <1>13, <1>18, <2>2
  <2>4. Reports(w, n + 1)
    BY <1>13, <1>17
  <2> QED BY <1>6, <1>7, <1>13, <2>1, <2>3, <2>4
<1>14. CASE Dropped(e) /\ w = PutErr(v, <<"effects", e.id>>)
  <2>1. n + 1 <= k
    BY <1>1, <1>3, <1>12, <1>14
  <2>2. Shaped(w) /\ w.effects = v.effects /\ w.errs = v.errs \cup {<<"effects", e.id>>}
    BY <1>6, <1>14, PutErrFacts
  <2>3. Listed(w, n + 1) /\ \A b \in Both : List(w.effects[b])
    BY <1>14, <1>18, <2>2
  <2>4. Reports(w, n + 1)
    <3> SUFFICES ASSUME NEW o
                 PROVE  /\ <<"effects", o>> \in w.errs <=> \E i \in 1..(n + 1) : Dropped(L[i]) /\ L[i].id = o
                        /\ <<"change", o>> \notin w.errs
      BY DEF Reports
    <3>1. <<"effects", o>> \in w.errs <=> <<"effects", o>> \in v.errs \/ o = e.id
      BY <2>2
    <3>2. <<"effects", o>> \in v.errs <=> \E i \in 1..n : Dropped(L[i]) /\ L[i].id = o
      BY <1>10
    <3>3. <<"change", o>> \notin w.errs
      BY <1>10, <2>2
    <3> QED BY <1>2, <1>14, <3>1, <3>2, <3>3
  <2> QED BY <1>7, <2>1, <2>2, <2>3, <2>4
<1>15. CASE bucket \in Both /\ ~ Dropped(e) /\ w = Put(v, bucket, Append(v.effects[bucket], RefOf(e, version)))
  <2> DEFINE t == Append(v.effects[bucket], RefOf(e, version))
  <2>1. n + 1 <= k
    BY <1>1, <1>3, <1>5, <1>15
  <2>2. List(t) /\ \A y : y \in ToSet(t) <=> y \in ToSet(v.effects[bucket]) \/ y = RefOf(e, version)
    BY <1>8, <1>15, AppendFacts
  <2>8. w = Put(v, bucket, t) /\ bucket \in Buckets
    BY <1>5, <1>15
  <2> HIDE DEF t
  <2>3. /\ Shaped(w) /\ w.errs = v.errs
        /\ \A c \in Buckets : w.effects[c] = IF c = bucket THEN t ELSE v.effects[c]
    BY <1>6, <2>8, PutFacts
  <2>4. w.effects["AccumulatorEvents"] = <<>>
    BY <1>5, <1>7, <1>15, <2>3
  <2>5. \A b \in Both : w.effects[b] = IF b = bucket THEN t ELSE v.effects[b]
    BY <1>5, <2>3
  <2>6. \A b \in Both : List(w.effects[b])
    BY <1>8, <2>2, <2>5
  <2>7. ASSUME NEW b \in Both, NEW x
        PROVE  x \in ToSet(w.effects[b]) <=>
                 \E i \in 1..(n + 1) : BucketOf(L[i]) = b /\ ~ Dropped(L[i]) /\ x = RefOf(L[i], version)
    <3>1. x \in ToSet(w.effects[b]) <=> x \in ToSet(v.effects[b]) \/ (b = bucket /\ x = RefOf(e, version))
      BY <2>2, <2>5
    <3>2. x \in ToSet(v.effects[b]) <=>
            \E i \in 1..n : BucketOf(L[i]) = b /\ ~ Dropped(L[i]) /\ x = RefOf(L[i], version)
      BY <1>9
    <3> QED BY <1>2, <1>15, <3>1, <3>2 DEF bucket
  <2>9. Listed(w, n + 1)
    BY <2>7 DEF Listed
  <2>10. Reports(w, n + 1)
    BY <1>15, <1>17, <2>3
  <2> QED BY <2>1, <2>3, <2>4, <2>6, <2>9, <2>10
<1>16. CASE /\ bucket = "AccumulatorEvents" /\ ~ Dropped(e)
            /\ w = Put(v, bucket, Append(v.effects[bucket], AccumulatorEvent(e)))
  <2> DEFINE t == <<AccumulatorEvent(e)>>
  <2>1. ~ (n + 1 <= k)
    BY <1>1, <1>3, <1>16
  <2>2. w = Put(v, bucket, t) /\ bucket \in Buckets
    <3>1. Append(<<>>, AccumulatorEvent(e)) = t
      OBVIOUS
    <3>2. v.effects[bucket] = <<>>
      BY <1>7, <1>16
    <3> QED BY <1>5, <1>16, <3>1, <3>2
  <2> HIDE DEF t
  <2>3. /\ Shaped(w) /\ w.errs = v.errs
        /\ \A c \in Buckets : w.effects[c] = IF c = bucket THEN t ELSE v.effects[c]
    BY <1>6, <2>2, PutFacts
  <2>4. bucket \notin Both /\ \A b \in Both : w.effects[b] = v.effects[b]
    BY <1>5, <1>16, <2>3
  <2>5. w.effects["AccumulatorEvents"] = t
    BY <1>5, <1>16, <2>3
  <2>6. Listed(w, n + 1) /\ \A b \in Both : List(w.effects[b])
    BY <1>18, <2>4
  <2>7. Reports(w, n + 1)
    BY <1>16, <1>17, <2>3
  <2> QED BY <2>1, <2>3, <2>5, <2>6, <2>7 DEF t
<1> QED BY <1>11, <1>13, <1>14, <1>15, <1>16
(* The lists that the conversion of effects ends with. *)
LEMMA EffectsTold ==
  ASSUME NEW f, f # Unset, NEW k, ObjectsFirst(f.changed, k)
  PROVE  Lists(EffectsToInternalType(f), f.changed, Len(f.changed), k, f.lamport)
<1> DEFINE gas == f.gasObject
           none == [effects |-> [b \in Buckets \cup {"Status"} |->
                                   IF b = "Status" THEN ToInternalStatus(f.status) ELSE <<>>],
                    errs |-> {}]
           start == CASE gas = Unset -> none
                      [] gas # Unset /\ OwnedObjectRef(gas).owner = "error" ->
                           [none EXCEPT !.errs = {<<"gas", gas.id>>}]
                      [] gas # Unset /\ OwnedObjectRef(gas).owner # "error" ->
                           [none EXCEPT !.effects["GasObject"] = <<OwnedObjectRef(gas)>>]
           L == f.changed
           after(n) == FE!Fold(start, f.lamport, SubSeq(L, 1, n))
           K == {n \in Nat : n <= Len(L) => Lists(after(n), L, n, k, f.lamport)}
<1>1. EffectsToInternalType(f) = FE!Fold(start, f.lamport, L)
  BY DEF EffectsToInternalType, FE!Fold, FoldLeft, MapThenFoldSet, FE!MapThenFoldSet, Max, FE!Max
<1>2. L \in Seq(ToSet(L)) /\ Len(L) \in Nat /\ k \in Nat
  BY DEF ObjectsFirst, List
<1>3. /\ Shaped(none) /\ none.errs = {}
      /\ \A b \in Buckets : none.effects[b] = <<>>
  BY DEF Shaped, Buckets
<1> HIDE DEF none
<1>4. /\ Shaped(start)
      /\ \A b \in Buckets \ {"GasObject"} : start.effects[b] = <<>>
      /\ \A o : <<"effects", o>> \notin start.errs /\ <<"change", o>> \notin start.errs
  <2>1. CASE gas = Unset
    <3>1. start = none
      BY <2>1
    <3> HIDE DEF start
    <3> QED BY <1>3, <3>1
  <2>2. CASE gas # Unset /\ OwnedObjectRef(gas).owner = "error"
    <3>1. start = [none EXCEPT !.errs = {<<"gas", gas.id>>}]
      BY <2>2
    <3> HIDE DEF start
    <3>2. start = PutErr(none, <<"gas", gas.id>>)
      BY <1>3, <3>1 DEF PutErr
    <3>3. Shaped(start) /\ start.effects = none.effects /\ start.errs = {<<"gas", gas.id>>}
      BY <1>3, <3>2, PutErrFacts
    <3> QED BY <1>3, <3>3
  <2>3. CASE gas # Unset /\ OwnedObjectRef(gas).owner # "error"
    <3>1. start = Put(none, "GasObject", <<OwnedObjectRef(gas)>>)
      BY <2>3 DEF Put
    <3> HIDE DEF start
    <3>2. "GasObject" \in Buckets
      BY DEF Buckets
    <3>3. /\ Shaped(start) /\ start.errs = none.errs
          /\ \A c \in Buckets : start.effects[c] = IF c = "GasObject" THEN <<OwnedObjectRef(gas)>> ELSE none.effects[c]
      BY <1>3, <3>1, <3>2, PutFacts
    <3> QED BY <1>3, <3>3
  <2> QED BY <2>1, <2>2, <2>3
<1> HIDE DEF start
<1>5. 0 \in K
  <2>1. SubSeq(L, 1, 0) = <<>>
    BY <1>2
  <2>2. after(0) = start
    BY <2>1, FEInduction, FE!FoldEmpty
  <2>3. \A b \in LiveBuckets \cup GoneBuckets \cup {"AccumulatorEvents"} : start.effects[b] = <<>>
    BY <1>4 DEF LiveBuckets, GoneBuckets, Buckets
  <2>4. \A i : i \notin 1..0
    OBVIOUS
  <2>5. Lists(start, L, 0, k, f.lamport)
    <3> DEFINE Both == LiveBuckets \cup GoneBuckets
    <3>1. ASSUME NEW b \in Both
          PROVE  /\ List(start.effects[b])
                 /\ \A x : x \in ToSet(start.effects[b]) <=>
                             \E i \in 1..0 : BucketOf(L[i]) = b /\ ~ Dropped(L[i]) /\ x = RefOf(L[i], f.lamport)
      <4>1. start.effects[b] = <<>>
        BY <2>3
      <4> QED BY <2>4, <4>1, EmptyList
    <3>2. start.effects["AccumulatorEvents"] = IF 0 <= k THEN <<>> ELSE <<AccumulatorEvent(L[0])>>
      BY <1>2, <2>3
    <3>3. \A o : <<"effects", o>> \in start.errs <=> \E i \in 1..0 : Dropped(L[i]) /\ L[i].id = o
      BY <1>4, <2>4
    <3> QED BY <1>4, <3>1, <3>2, <3>3 DEF Lists
  <2> QED BY <2>2, <2>5
<1>6. ASSUME NEW n \in Nat, n \in K PROVE n + 1 \in K
  <2> SUFFICES ASSUME n + 1 <= Len(L) PROVE Lists(after(n + 1), L, n + 1, k, f.lamport)
    OBVIOUS
  <2>1. Lists(after(n), L, n, k, f.lamport)
    BY <1>2, <1>6
  <2>2. after(n + 1) = ApplyToInternalEffects(after(n), L[n + 1], f.lamport)
    BY <1>2, FEInduction, FE!FoldPrefix
  <2> HIDE DEF after, L
  <2> QED BY <2>1, <2>2, ListsStep DEF L
<1> HIDE DEF K
<1>7. Nat \subseteq K
  BY <1>5, <1>6, SetInduction
<1>8. SubSeq(L, 1, Len(L)) = L
  BY <1>2
<1>9. Lists(after(Len(L)), L, Len(L), k, f.lamport)
  BY <1>2, <1>7 DEF K
<1> QED BY <1>1, <1>8, <1>9

-----------------------------------------------------------------------------
(***************************************************************************)
(* The conversion to object changes.                                       *)
(***************************************************************************)
Rendered(e) == ChangeKind(e) # "none" /\ ~ Unrendered(e)

(* The changes after n entries of L. *)
Changes(v, L, n, sender) ==
  /\ v = [changes |-> v.changes, errs |-> v.errs]
  /\ List(v.changes)
  /\ \A c : c \in ToSet(v.changes) <=> \E i \in 1..n : Rendered(L[i]) /\ c = ToInternalObjectChange(L[i], sender)
  /\ \A a, b \in 1..Len(v.changes) : v.changes[a].id = v.changes[b].id => a = b
  /\ \A x : x \in v.errs <=> \E i \in 1..n : Unrendered(L[i]) /\ x = <<"change", L[i].id>>

(* An object is written once. *)
WrittenOnce(L) ==
  List(L) /\ \A i, j \in 1..Len(L) : Rendered(L[i]) /\ Rendered(L[j]) /\ L[i].id = L[j].id => i = j

(* A change is of the object of its entry. *)
LEMMA ChangeId ==
  ASSUME NEW e, NEW sender, Rendered(e)
  PROVE  ToInternalObjectChange(e, sender).id = e.id
<1>1. ChangeKind(e) \in {"Published", "Created", "Mutated"}
  BY DEF Rendered, ChangeKind
<1> QED BY <1>1 DEF ToInternalObjectChange

(* One more entry converted, the changes have it. *)
LEMMA ChangesStep ==
  ASSUME NEW v, NEW L, NEW n \in Nat, NEW sender, WrittenOnce(L), n + 1 <= Len(L), Changes(v, L, n, sender)
  PROVE  Changes(AppendObjectChange(v, L[n + 1], sender), L, n + 1, sender)
<1> DEFINE e == L[n + 1]
           w == AppendObjectChange(v, e, sender)
           c0 == ToInternalObjectChange(e, sender)
<1>1. Len(L) \in Nat /\ n + 1 \in 1..Len(L) /\ \A i \in 1..n : i \in 1..Len(L) /\ i # n + 1
  BY DEF WrittenOnce, List
<1>2. \A i : i \in 1..(n + 1) <=> i \in 1..n \/ i = n + 1
  OBVIOUS
<1>3. /\ v = [changes |-> v.changes, errs |-> v.errs] /\ List(v.changes)
      /\ \A a, b \in 1..Len(v.changes) : v.changes[a].id = v.changes[b].id => a = b
  BY DEF Changes
<1>4. \A c : c \in ToSet(v.changes) <=> \E i \in 1..n : Rendered(L[i]) /\ c = ToInternalObjectChange(L[i], sender)
  BY DEF Changes
<1>5. \A x : x \in v.errs <=> \E i \in 1..n : Unrendered(L[i]) /\ x = <<"change", L[i].id>>
  BY DEF Changes
<1>6. \/ w = v /\ ~ Rendered(e) /\ ~ Unrendered(e)
      \/ w = [v EXCEPT !.errs = v.errs \cup {<<"change", e.id>>}] /\ Unrendered(e) /\ ~ Rendered(e)
      \/ w = [v EXCEPT !.changes = Append(v.changes, c0)] /\ Rendered(e) /\ ~ Unrendered(e)
  BY DEF AppendObjectChange, Rendered, Unrendered
<1> HIDE DEF w
<1> SUFFICES Changes(w, L, n + 1, sender)
  BY DEF w
<1>7. CASE w = v /\ ~ Rendered(e) /\ ~ Unrendered(e)
  <2>1. \A c : c \in ToSet(w.changes) <=> \E i \in 1..(n + 1) : Rendered(L[i]) /\ c = ToInternalObjectChange(L[i], sender)
    BY <1>2, <1>4, <1>7
  <2>2. \A x : x \in w.errs <=> \E i \in 1..(n + 1) : Unrendered(L[i]) /\ x = <<"change", L[i].id>>
    BY <1>2, <1>5, <1>7
  <2> QED BY <1>3, <1>7, <2>1, <2>2 DEF Changes
<1>8. CASE w = [v EXCEPT !.errs = v.errs \cup {<<"change", e.id>>}] /\ Unrendered(e) /\ ~ Rendered(e)
  <2>1. w = [changes |-> v.changes, errs |-> v.errs \cup {<<"change", e.id>>}]
    BY <1>3, <1>8
  <2>2. w.changes = v.changes /\ w.errs = v.errs \cup {<<"change", e.id>>}
    BY <2>1
  <2>3. \A c : c \in ToSet(w.changes) <=> \E i \in 1..(n + 1) : Rendered(L[i]) /\ c = ToInternalObjectChange(L[i], sender)
    BY <1>2, <1>4, <1>8, <2>2
  <2>4. \A x : x \in w.errs <=> \E i \in 1..(n + 1) : Unrendered(L[i]) /\ x = <<"change", L[i].id>>
    BY <1>2, <1>5, <1>8, <2>2
  <2> QED BY <1>3, <2>1, <2>2, <2>3, <2>4 DEF Changes
<1>9. CASE w = [v EXCEPT !.changes = Append(v.changes, c0)] /\ Rendered(e) /\ ~ Unrendered(e)
  <2> DEFINE t == Append(v.changes, c0)
             m == Len(v.changes)
  <2>1. w = [changes |-> t, errs |-> v.errs]
    BY <1>3, <1>9
  <2>2. w.changes = t /\ w.errs = v.errs
    BY <2>1
  <2>3. /\ List(t) /\ Len(t) = m + 1
        /\ \A y : y \in ToSet(t) <=> y \in ToSet(v.changes) \/ y = c0
        /\ \A i \in 1..m : t[i] = v.changes[i]
        /\ t[m + 1] = c0
    BY <1>3, AppendFacts
  <2>4. m \in Nat /\ DOMAIN v.changes = 1..m
    BY <1>3 DEF List
  <2> HIDE DEF t, c0
  <2>5. \A c : c \in ToSet(w.changes) <=> \E i \in 1..(n + 1) : Rendered(L[i]) /\ c = ToInternalObjectChange(L[i], sender)
    BY <1>2, <1>4, <1>9, <2>2, <2>3 DEF c0
  <2>6. \A x : x \in w.errs <=> \E i \in 1..(n + 1) : Unrendered(L[i]) /\ x = <<"change", L[i].id>>
    BY <1>2, <1>5, <1>9, <2>2
  <2>7. ASSUME NEW a \in 1..m PROVE v.changes[a].id # c0.id
    <3>1. v.changes[a] \in ToSet(v.changes)
      BY <2>4 DEF ToSet
    <3>2. PICK i \in 1..n : Rendered(L[i]) /\ v.changes[a] = ToInternalObjectChange(L[i], sender)
      BY <1>4, <3>1
    <3>3. v.changes[a].id = L[i].id /\ c0.id = L[n + 1].id
      BY <1>9, <3>2, ChangeId DEF c0
    <3> QED BY <1>1, <1>9, <3>2, <3>3 DEF WrittenOnce
  <2> HIDE DEF m
  <2>8. \A i : i \in 1..(m + 1) <=> i \in 1..m \/ i = m + 1
    BY <2>4
  <2>9. ASSUME NEW a \in 1..(m + 1), NEW b \in 1..(m + 1), t[a].id = t[b].id PROVE a = b
    <3>1. CASE a \in 1..m /\ b \in 1..m
      BY <1>3, <2>3, <2>9, <3>1 DEF m
    <3>2. CASE a \in 1..m /\ b = m + 1
      BY <2>3, <2>7, <2>9, <3>2
    <3>3. CASE a = m + 1 /\ b \in 1..m
      BY <2>3, <2>7, <2>9, <3>3
    <3> QED BY <2>8, <3>1, <3>2, <3>3
  <2> QED BY <2>1, <2>2, <2>3, <2>5, <2>6, <2>9 DEF Changes
<1> QED BY <1>6, <1>7, <1>8, <1>9

(* The object changes that the conversion ends with. *)
LEMMA ChangesTold ==
  ASSUME NEW f, f # Unset, NEW sender, WrittenOnce(f.changed)
  PROVE  Changes(ToInternalObjectChanges(f, sender), f.changed, Len(f.changed), sender)
<1> DEFINE L == f.changed
           after(n) == FC!Fold(NoObjectChanges, sender, SubSeq(L, 1, n))
           K == {n \in Nat : n <= Len(L) => Changes(after(n), L, n, sender)}
<1>1. ToInternalObjectChanges(f, sender) = FC!Fold(NoObjectChanges, sender, L)
  BY DEF ToInternalObjectChanges, FC!Fold, FoldLeft, MapThenFoldSet, FC!MapThenFoldSet, Max, FC!Max
<1>2. L \in Seq(ToSet(L)) /\ Len(L) \in Nat
  BY DEF WrittenOnce, List
<1>3. 0 \in K
  <2>1. SubSeq(L, 1, 0) = <<>>
    BY <1>2
  <2>2. after(0) = NoObjectChanges
    BY <2>1, FCInduction, FC!FoldEmpty
  <2>3. Len(<<>>) = 0 /\ \A i : i \notin 1..0
    OBVIOUS
  <2>4. NoObjectChanges.changes = <<>> /\ NoObjectChanges.errs = {}
        /\ NoObjectChanges = [changes |-> NoObjectChanges.changes, errs |-> NoObjectChanges.errs]
    BY DEF NoObjectChanges
  <2>5. Changes(NoObjectChanges, L, 0, sender)
    BY <2>3, <2>4, EmptyList DEF Changes
  <2> QED BY <2>2, <2>5
<1>4. ASSUME NEW n \in Nat, n \in K PROVE n + 1 \in K
  <2> SUFFICES ASSUME n + 1 <= Len(L) PROVE Changes(after(n + 1), L, n + 1, sender)
    OBVIOUS
  <2>1. Changes(after(n), L, n, sender)
    BY <1>2, <1>4
  <2>2. after(n + 1) = AppendObjectChange(after(n), L[n + 1], sender)
    BY <1>2, FCInduction, FC!FoldPrefix
  <2> HIDE DEF after, L
  <2> QED BY <2>1, <2>2, ChangesStep DEF L
<1> HIDE DEF K
<1>5. Nat \subseteq K
  BY <1>3, <1>4, SetInduction
<1>6. SubSeq(L, 1, Len(L)) = L
  BY <1>2
<1>7. Changes(after(Len(L)), L, Len(L), sender)
  BY <1>2, <1>5 DEF K
<1> QED BY <1>1, <1>6, <1>7
-----------------------------------------------------------------------------
(***************************************************************************)
(* The inductive invariant.                                                *)
(***************************************************************************)
Stores ==
  [Ids -> [life : {"absent", "live", "wrapped", "deleted"}, version : Nat,
           owner : Owners \cup {"ADDRESS"}]]

(* What an object that was never there looks like. *)
Plain(st) ==
  \A o \in Ids : /\ st[o].life = "absent" => st[o].owner = "ADDRESS"
                 /\ o \in Packages => st[o].life \in {"absent", "live"}

Chain ==
  /\ store \in Stores /\ Plain(store)
  /\ before \in Stores /\ Plain(before)
  /\ lamport \in Nat
  /\ \A o \in Ids : store[o].version <= lamport
  /\ lamport # 0 => \A o \in Ids : before[o].version < lamport

(* The entry e describes how its object moved, with version n, from the    *)
(* store from to the store to.                                              *)
Describes(e, from, to, n) ==
  LET a == from[e.id]
      b == to[e.id]
  IN /\ e.id \in Ids /\ <<a.life, b.life>> \in Moves
     /\ e.id \in Packages => b.life = "live"
     /\ e.input = IF a.life = "live" THEN "EXISTS" ELSE "DOES_NOT_EXIST"
     /\ e.output = IF b.life # "live" THEN "DOES_NOT_EXIST"
                   ELSE IF e.id \in Packages THEN "PACKAGE_WRITE" ELSE "OBJECT_WRITE"
     /\ e.op = IF a.life = "absent" THEN "CREATED"
               ELSE IF b.life = "deleted" THEN "DELETED" ELSE "NONE"
     /\ e.version = b.version /\ b.version = n
     /\ e.inputVersion = a.version /\ e.owner = b.owner

(* The first k entries of L describe the objects that moved, each once; an  *)
(* entry after them is of an address balance.                               *)
Described(L, k, from, to, n) ==
  /\ List(L) /\ k \in Nat /\ k <= Len(L) /\ Len(L) <= k + 1
  /\ \A i \in 1..k : Describes(L[i], from, to, n)
  /\ \A i, j \in 1..k : L[i].id = L[j].id => i = j
  /\ \A o \in Ids : (\E i \in 1..k : L[i].id = o) \/ to[o] = from[o]
  /\ Len(L) = k + 1 => L[k + 1].output = "ACCUMULATOR_WRITE" /\ L[k + 1].write \in Writes

(* The picture v of the store st. *)
Follows(v, st) ==
  \A o \in Ids :
    IF v[o].life = "lost" THEN st[o].owner = "BAD_ADDRESS"
    ELSE IF st[o].life = "live" THEN v[o] = [life |-> "live", version |-> st[o].version]
    ELSE v[o].life = "gone"

(* The address balance f after the entry that follows the first k. *)
FundsTold(f, L, k) == IF Len(L) = k THEN f ELSE FundsAfter(f, L[k + 1].write)

(* The last transaction, as the node tells it.  A reader that has not seen  *)
(* it is behind by this transaction alone.                                  *)
Told ==
  /\ tx["effects"] \in Effects /\ tx["effects"].lamport = lamport
  /\ tx["transaction.bcs"] \in {"user", "system"}
  /\ \E k \in 0..Len(tx["effects"].changed) :
       /\ Described(tx["effects"].changed, k, before, store, lamport)
       /\ seen # lamport => Follows(view, before) /\ funds = FundsTold(fundsView, tx["effects"].changed, k)
  /\ tx["events"] \in Seq({"ok", "bad"}) /\ tx["balance_changes"] = tx["events"]
  /\ tx["digest"] = lamport /\ tx["checkpoint"] = lamport /\ tx["timestamp"] = lamport

Answer == ToInternalType(Masked(tx, ResponseReadMaskPaths(opts)), opts)

IInv ==
  /\ Chain
  /\ lamport = 0 => tx = Unset /\ seen = lamport
  /\ lamport # 0 => Told
  /\ seen = lamport => Follows(view, store) /\ fundsView = funds
  /\ resp # Unset => lamport # 0 /\ resp = Answer
-----------------------------------------------------------------------------
(***************************************************************************)
(* Sequences of sets and joined lists.                                     *)
(***************************************************************************)
(* A finite set in some order: each element at one place. *)
LEMMA SetInOrder ==
  ASSUME NEW S, IsFiniteSet(S)
  PROVE  /\ Cardinality(S) \in Nat
         /\ SetToSeq(S) \in [1..Cardinality(S) -> S]
         /\ \A i, j \in 1..Cardinality(S) : SetToSeq(S)[i] = SetToSeq(S)[j] => i = j
         /\ \A o \in S : \E i \in 1..Cardinality(S) : SetToSeq(S)[i] = o
<1> DEFINE n == Cardinality(S)
           g == SetToSeq(S)
<1>1. n \in Nat /\ ExistsBijection(1..n, S)
  BY FS_CardinalityType
<1>2. \E h \in [1..n -> S] : IsInjective(h)
  BY <1>1 DEF ExistsBijection, Bijection, Injection
<1>3. g \in [1..n -> S] /\ IsInjective(g)
  BY <1>2 DEF SetToSeq
<1> HIDE DEF g
<1>4. g \in Injection(1..n, S)
  BY <1>3 DEF Injection
<1>5. Cardinality(1..n) = n
  BY <1>1, FS_Interval
<1>6. g \in Surjection(1..n, S)
  BY <1>4, <1>5, FS_Injection
<1>7. \A o \in S : \E i \in 1..n : g[i] = o
  BY <1>6 DEF Surjection
<1>8. \A i, j \in 1..n : g[i] = g[j] => i = j
  BY <1>3 DEF IsInjective
<1> QED BY <1>1, <1>3, <1>7, <1>8 DEF g

(* The elements of two joined lists. *)
LEMMA JoinFacts ==
  ASSUME NEW s, List(s), NEW t, List(t)
  PROVE  List(s \o t) /\ \A y : y \in ToSet(s \o t) <=> y \in ToSet(s) \/ y \in ToSet(t)
<1> DEFINE T == ToSet(s) \cup ToSet(t)
           u == s \o t
           a == Len(s)
           b == Len(t)
<1>1. /\ a \in Nat /\ DOMAIN s = 1..a /\ s = [i \in 1..a |-> s[i]]
      /\ b \in Nat /\ DOMAIN t = 1..b /\ t = [i \in 1..b |-> t[i]]
  BY DEF List
<1>2. (\A i \in 1..a : s[i] \in T) /\ (\A i \in 1..b : t[i] \in T)
  BY <1>1 DEF ToSet
<1> HIDE DEF T
<1>3. s \in Seq(T) /\ t \in Seq(T)
  BY <1>1, <1>2
<1>4. /\ u \in Seq(T) /\ Len(u) = a + b /\ DOMAIN u = 1..(a + b)
      /\ \A i \in 1..a : u[i] = s[i]
      /\ \A i \in 1..b : u[a + i] = t[i]
  BY <1>1, <1>3
<1> HIDE DEF u, a, b
<1>5. \A i : i \in 1..(a + b) <=> i \in 1..a \/ \E j \in 1..b : i = a + j
  <2>1. ASSUME NEW i \in 1..(a + b), i \notin 1..a PROVE \E j \in 1..b : i = a + j
    <3>1. i - a \in 1..b /\ i = a + (i - a)
      BY <1>1, <2>1
    <3> QED BY <3>1
  <2> QED BY <1>1, <2>1
<1>6. ASSUME NEW y PROVE y \in ToSet(u) <=> y \in ToSet(s) \/ y \in ToSet(t)
  <2>1. y \in ToSet(u) <=> \E i \in 1..(a + b) : u[i] = y
    BY <1>4 DEF ToSet
  <2>2. y \in ToSet(s) <=> \E i \in 1..a : s[i] = y
    BY <1>1 DEF ToSet
  <2>3. y \in ToSet(t) <=> \E i \in 1..b : t[i] = y
    BY <1>1 DEF ToSet
  <2> QED BY <1>4, <1>5, <2>1, <2>2, <2>3
<1>7. ToSet(u) = T
  BY <1>6 DEF T
<1> QED BY <1>4, <1>6, <1>7 DEF List, u
-----------------------------------------------------------------------------
(***************************************************************************)
(* The reader's replay.                                                    *)
(***************************************************************************)
(* Which list an entry goes to, by the move it describes. *)
LEMMA DescribedBuckets ==
  ASSUME NEW e, Describes(e, before, store, lamport)
  PROVE  /\ BucketOf(e) # "AccumulatorEvents"
         /\ BucketOf(e) \in LiveBuckets <=> store[e.id].life = "live"
         /\ BucketOf(e) \in GoneBuckets <=> store[e.id].life # "live" /\ before[e.id].life # "absent"
         /\ Dropped(e) <=> store[e.id].life = "live" /\ store[e.id].owner = "BAD_ADDRESS"
<1> DEFINE a == before[e.id].life
           b == store[e.id].life
<1>1. /\ <<a, b>> \in Moves
      /\ e.input = IF a = "live" THEN "EXISTS" ELSE "DOES_NOT_EXIST"
      /\ \/ b # "live" /\ e.output = "DOES_NOT_EXIST"
         \/ b = "live" /\ e.output \in {"PACKAGE_WRITE", "OBJECT_WRITE"}
      /\ e.op = IF a = "absent" THEN "CREATED" ELSE IF b = "deleted" THEN "DELETED" ELSE "NONE"
      /\ e.owner = store[e.id].owner
  BY DEF Describes
<1> HIDE DEF a, b
<1>2. BucketOf(e) = CASE a = "absent" /\ b = "live" -> "Created"
                      [] a = "absent" /\ b = "wrapped" -> "none"
                      [] a = "live" /\ b = "live" -> "Mutated"
                      [] a = "live" /\ b = "wrapped" -> "Wrapped"
                      [] a = "live" /\ b = "deleted" -> "Deleted"
                      [] a = "wrapped" /\ b = "live" -> "Unwrapped"
                      [] a = "wrapped" /\ b = "deleted" -> "UnwrappedThenDeleted"
  BY <1>1 DEF BucketOf, Moves
<1>3. <<a, b>> \in Moves
  BY <1>1
<1>4. /\ BucketOf(e) # "AccumulatorEvents"
      /\ BucketOf(e) \in LiveBuckets <=> b = "live"
      /\ BucketOf(e) \in GoneBuckets <=> b # "live" /\ a # "absent"
  BY <1>2, <1>3 DEF LiveBuckets, GoneBuckets, Moves
<1>5. ToInternalOwner(e.owner) = "error" <=> e.owner = "BAD_ADDRESS"
  BY DEF ToInternalOwner
<1> QED BY <1>1, <1>4, <1>5 DEF a, b, Dropped

(* An entry of an address balance. *)
LEMMA AccumulatorBucket ==
  ASSUME NEW e, e.output = "ACCUMULATOR_WRITE"
  PROVE  BucketOf(e) = "AccumulatorEvents" /\ ~ Dropped(e)
BY DEF BucketOf, Dropped, LiveBuckets

(* Only an entry after those of the objects is an accumulator event. *)
LEMMA DescribedObjectsFirst ==
  ASSUME NEW L, NEW k, Described(L, k, before, store, lamport)
  PROVE  ObjectsFirst(L, k)
<1>1. List(L) /\ k \in Nat /\ Len(L) \in Nat /\ k <= Len(L) /\ Len(L) <= k + 1
  BY DEF Described, List
<1>2. ASSUME NEW i \in 1..Len(L) PROVE BucketOf(L[i]) = "AccumulatorEvents" <=> i > k
  <2>1. CASE i <= k
    <3>1. Describes(L[i], before, store, lamport)
      BY <2>1 DEF Described
    <3> QED BY <1>1, <2>1, <3>1, DescribedBuckets
  <2>2. CASE i > k
    <3>1. i = k + 1 /\ Len(L) = k + 1
      BY <1>1, <2>2
    <3> QED BY <2>2, <3>1, AccumulatorBucket DEF Described
  <2> QED BY <1>1, <2>1, <2>2
<1> QED BY <1>1, <1>2 DEF ObjectsFirst

(* What the references and errors of v say of the object o. *)
RefsTell(v, L, k, o) ==
  /\ <<"effects", o>> \in v.errs <=>
       \E i \in 1..k : L[i].id = o /\ store[o].life = "live" /\ store[o].owner = "BAD_ADDRESS"
  /\ (\E ref \in ToSet(GoneRefs(v.effects)) : ref.id = o) <=>
       \E i \in 1..k : L[i].id = o /\ store[o].life # "live" /\ before[o].life # "absent"
  /\ (\E ref \in ToSet(LiveRefs(v.effects)) : ref.id = o) <=>
       \E i \in 1..k : L[i].id = o /\ store[o].life = "live" /\ store[o].owner # "BAD_ADDRESS"
  /\ \A ref \in ToSet(LiveRefs(v.effects)) : ref.id = o => ref.version = store[o].version

(* The references of the converted effects tell the moves. *)
LEMMA RefsOf ==
  ASSUME NEW v, NEW L, NEW k, Described(L, k, before, store, lamport), Lists(v, L, Len(L), k, lamport), NEW o \in Ids
  PROVE  RefsTell(v, L, k, o)
<1> DEFINE N == Len(L)
           E == v.effects
           InList(b, x) == \E i \in 1..N : BucketOf(L[i]) = b /\ ~ Dropped(L[i]) /\ x = RefOf(L[i], lamport)
<1>1. N \in Nat /\ k \in Nat /\ k <= N /\ N <= k + 1
  BY DEF Described, List
<1>2. ASSUME NEW i \in 1..N, BucketOf(L[i]) \in LiveBuckets \cup GoneBuckets PROVE i \in 1..k
  <2>1. ObjectsFirst(L, k)
    BY DescribedObjectsFirst
  <2>2. BucketOf(L[i]) # "AccumulatorEvents"
    BY <1>2 DEF LiveBuckets, GoneBuckets
  <2> QED BY <1>1, <2>1, <2>2 DEF ObjectsFirst
<1>3. ASSUME NEW i \in 1..k
      PROVE  /\ i \in 1..N /\ Describes(L[i], before, store, lamport)
             /\ BucketOf(L[i]) \in LiveBuckets <=> store[L[i].id].life = "live"
             /\ BucketOf(L[i]) \in GoneBuckets <=> store[L[i].id].life # "live" /\ before[L[i].id].life # "absent"
             /\ Dropped(L[i]) <=> store[L[i].id].life = "live" /\ store[L[i].id].owner = "BAD_ADDRESS"
  <2>1. Describes(L[i], before, store, lamport)
    BY DEF Described
  <2> QED BY <1>1, <2>1, DescribedBuckets
<1>4. \A e : RefOf(e, lamport).id = e.id
  BY DEF RefOf, OwnedObjectRef, MarkerObjectRef
<1>5. \A e : BucketOf(e) \in LiveBuckets => RefOf(e, lamport).version = e.version
  BY DEF RefOf, OwnedObjectRef
<1>6. \A e : BucketOf(e) \in GoneBuckets => ~ Dropped(e)
  BY DEF Dropped, GoneBuckets, LiveBuckets
<1>7. \A b \in LiveBuckets \cup GoneBuckets : List(E[b]) /\ \A x : x \in ToSet(E[b]) <=> InList(b, x)
  BY DEF Lists
<1> HIDE DEF InList
<1>8. \A x : x \in ToSet(LiveRefs(E)) <=> \E b \in LiveBuckets : InList(b, x)
  <2>1. List(E["Created"]) /\ List(E["Mutated"]) /\ List(E["Unwrapped"])
    BY <1>7 DEF LiveBuckets
  <2>2. List(E["Created"] \o E["Mutated"]) /\ \A x : x \in ToSet(E["Created"] \o E["Mutated"]) <=>
                                                      x \in ToSet(E["Created"]) \/ x \in ToSet(E["Mutated"])
    BY <2>1, JoinFacts
  <2>3. \A x : x \in ToSet(LiveRefs(E)) <=> x \in ToSet(E["Created"] \o E["Mutated"]) \/ x \in ToSet(E["Unwrapped"])
    BY <2>1, <2>2, JoinFacts DEF LiveRefs
  <2> QED BY <1>7, <2>2, <2>3 DEF LiveBuckets
<1>9. \A x : x \in ToSet(GoneRefs(E)) <=> \E b \in GoneBuckets : InList(b, x)
  <2>1. List(E["Deleted"]) /\ List(E["UnwrappedThenDeleted"]) /\ List(E["Wrapped"])
    BY <1>7 DEF GoneBuckets
  <2>2. /\ List(E["Deleted"] \o E["UnwrappedThenDeleted"])
        /\ \A x : x \in ToSet(E["Deleted"] \o E["UnwrappedThenDeleted"]) <=>
                    x \in ToSet(E["Deleted"]) \/ x \in ToSet(E["UnwrappedThenDeleted"])
    BY <2>1, JoinFacts
  <2>3. \A x : x \in ToSet(GoneRefs(E)) <=>
                 x \in ToSet(E["Deleted"] \o E["UnwrappedThenDeleted"]) \/ x \in ToSet(E["Wrapped"])
    BY <2>1, <2>2, JoinFacts DEF GoneRefs
  <2> QED BY <1>7, <2>2, <2>3 DEF GoneBuckets
<1>10. <<"effects", o>> \in v.errs <=>
         \E i \in 1..k : L[i].id = o /\ store[o].life = "live" /\ store[o].owner = "BAD_ADDRESS"
  <2>1. <<"effects", o>> \in v.errs <=> \E i \in 1..N : Dropped(L[i]) /\ L[i].id = o
    BY DEF Lists
  <2>2. \A e : Dropped(e) => BucketOf(e) \in LiveBuckets
    BY DEF Dropped
  <2> QED BY <1>2, <1>3, <2>1, <2>2
<1>11. (\E ref \in ToSet(GoneRefs(E)) : ref.id = o) <=>
         \E i \in 1..k : L[i].id = o /\ store[o].life # "live" /\ before[o].life # "absent"
  <2>1. ASSUME NEW ref \in ToSet(GoneRefs(E)), ref.id = o
        PROVE  \E i \in 1..k : L[i].id = o /\ store[o].life # "live" /\ before[o].life # "absent"
    <3>1. PICK i \in 1..N : BucketOf(L[i]) \in GoneBuckets /\ ref = RefOf(L[i], lamport)
      BY <1>9 DEF InList
    <3> QED BY <1>2, <1>3, <1>4, <2>1, <3>1
  <2>2. ASSUME NEW i \in 1..k, L[i].id = o, store[o].life # "live", before[o].life # "absent"
        PROVE  \E ref \in ToSet(GoneRefs(E)) : ref.id = o
    <3>1. InList(BucketOf(L[i]), RefOf(L[i], lamport)) /\ BucketOf(L[i]) \in GoneBuckets
      BY <1>3, <1>6, <2>2 DEF InList
    <3> QED BY <1>4, <1>9, <2>2, <3>1
  <2> QED BY <2>1, <2>2
<1>12. ASSUME NEW ref \in ToSet(LiveRefs(E)), ref.id = o
       PROVE  /\ \E i \in 1..k : L[i].id = o /\ store[o].life = "live" /\ store[o].owner # "BAD_ADDRESS"
              /\ ref.version = store[o].version
  <2>1. PICK i \in 1..N : BucketOf(L[i]) \in LiveBuckets /\ ~ Dropped(L[i]) /\ ref = RefOf(L[i], lamport)
    BY <1>8 DEF InList
  <2>2. i \in 1..k /\ L[i].id = o /\ ref.version = L[i].version
    BY <1>2, <1>4, <1>5, <1>12, <2>1
  <2>3. L[i].version = store[o].version
    BY <1>3, <2>2 DEF Describes
  <2> QED BY <1>3, <2>1, <2>2, <2>3
<1>13. ASSUME NEW i \in 1..k, L[i].id = o, store[o].life = "live", store[o].owner # "BAD_ADDRESS"
       PROVE  \E ref \in ToSet(LiveRefs(E)) : ref.id = o
  <2>1. InList(BucketOf(L[i]), RefOf(L[i], lamport)) /\ BucketOf(L[i]) \in LiveBuckets
    BY <1>3, <1>13 DEF InList
  <2> QED BY <1>4, <1>8, <1>13, <2>1
<1> QED BY <1>10, <1>11, <1>12, <1>13 DEF RefsTell
(* A reader that was one transaction behind is up to date after its replay. *)
LEMMA ReplayFollows ==
  ASSUME NEW v, NEW L, NEW k, Described(L, k, before, store, lamport), Lists(v, L, Len(L), k, lamport),
         NEW r, r.effects = v.effects,
         \A o \in Ids : <<"effects", o>> \in r.errors <=> <<"effects", o>> \in v.errs,
         Follows(view, before), Plain(before), before \in Stores
  PROVE  Follows(Replay(r), store)
<1> SUFFICES ASSUME NEW o \in Ids
             PROVE  IF Replay(r)[o].life = "lost" THEN store[o].owner = "BAD_ADDRESS"
                    ELSE IF store[o].life = "live"
                      THEN Replay(r)[o] = [life |-> "live", version |-> store[o].version]
                    ELSE Replay(r)[o].life = "gone"
  BY DEF Follows
<1> DEFINE Entered == \E i \in 1..k : L[i].id = o
           GoneSet == ToSet(GoneRefs(v.effects))
           LiveSet == ToSet(LiveRefs(v.effects))
           lost == <<"effects", o>> \in v.errs
           gone == \E ref \in GoneSet : ref.id = o
           live == \E ref \in LiveSet : ref.id = o
           version == (CHOOSE ref \in LiveSet : ref.id = o).version
<1>0. RefsTell(v, L, k, o)
  BY RefsOf
<1>1. /\ lost <=> Entered /\ store[o].life = "live" /\ store[o].owner = "BAD_ADDRESS"
      /\ gone <=> Entered /\ store[o].life # "live" /\ before[o].life # "absent"
      /\ live <=> Entered /\ store[o].life = "live" /\ store[o].owner # "BAD_ADDRESS"
  BY <1>0 DEF RefsTell
<1>2. live => version = store[o].version
  <2>1. \A ref \in ToSet(LiveRefs(v.effects)) : ref.id = o => ref.version = store[o].version
    BY <1>0 DEF RefsTell
  <2> HIDE DEF LiveSet
  <2> QED BY <2>1 DEF LiveSet
<1>3. Replay(r)[o] = IF lost THEN [life |-> "lost", version |-> 0]
                     ELSE IF gone THEN [life |-> "gone", version |-> 0]
                     ELSE IF live THEN [life |-> "live", version |-> version]
                     ELSE view[o]
  BY DEF Replay
<1>4. ~ Entered => store[o] = before[o]
  BY DEF Described
<1>5. IF view[o].life = "lost" THEN before[o].owner = "BAD_ADDRESS"
      ELSE IF before[o].life = "live" THEN view[o] = [life |-> "live", version |-> before[o].version]
      ELSE view[o].life = "gone"
  BY DEF Follows
<1>6. before[o].life = "absent" => before[o].owner # "BAD_ADDRESS"
  BY DEF Plain
<1> HIDE DEF Entered, lost, gone, live, version
<1>7. CASE lost
  BY <1>1, <1>3, <1>7
<1>8. CASE ~ lost /\ gone
  BY <1>1, <1>3, <1>8
<1>9. CASE ~ lost /\ ~ gone /\ live
  BY <1>1, <1>2, <1>3, <1>9
<1>10. CASE ~ lost /\ ~ gone /\ ~ live
  <2>1. Replay(r)[o] = view[o]
    BY <1>3, <1>10
  <2>2. CASE Entered
    BY <1>1, <1>5, <1>6, <1>10, <2>1, <2>2
  <2>3. CASE ~ Entered
    BY <1>4, <1>5, <2>1, <2>3
  <2> QED BY <2>2, <2>3
<1> QED BY <1>7, <1>8, <1>9, <1>10

(* The address balance after the events of a response. *)
LEMMA ReplayFunds ==
  ASSUME NEW v, NEW L, NEW k, Described(L, k, before, store, lamport), Lists(v, L, Len(L), k, lamport), NEW f
  PROVE  FoldLeft(FundsAfter, f, v.effects["AccumulatorEvents"])
           = FundsTold(f, L, k)
<1> DEFINE s == v.effects["AccumulatorEvents"]
           a == AccumulatorEvent(L[k + 1])
<1>1. FoldLeft(FundsAfter, f, s) = FF!Fold(f, 0, s)
  BY DEF FF!Fold, FoldLeft, MapThenFoldSet, FF!MapThenFoldSet, Max, FF!Max, AddFunds
<1> SUFFICES FF!Fold(f, 0, s) = IF Len(L) = k THEN f ELSE FundsAfter(f, L[k + 1].write)
  BY <1>1 DEF FundsTold
<1>2. k \in Nat /\ Len(L) \in Nat /\ k <= Len(L) /\ Len(L) <= k + 1
  BY DEF Described, List
<1>3. s = IF Len(L) <= k THEN <<>> ELSE <<AccumulatorEvent(L[Len(L)])>>
  BY DEF Lists
<1>4. CASE Len(L) = k
  <2>1. s = <<>>
    BY <1>2, <1>3, <1>4
  <2> QED BY <1>4, <2>1, FFInduction, FF!FoldEmpty
<1>5. CASE Len(L) = k + 1
  <2>1. s = <<a>>
    BY <1>2, <1>3, <1>5
  <2> HIDE DEF a
  <2>2. <<>> \in Seq({a}) /\ a \in {a} /\ Append(<<>>, a) = <<a>>
    OBVIOUS
  <2>3. FF!Fold(f, 0, Append(<<>>, a)) = AddFunds(FF!Fold(f, 0, <<>>), a, 0)
    BY <2>2, FFInduction, FF!FoldAppend
  <2>4. FF!Fold(f, 0, <<>>) = f
    BY FFInduction, FF!FoldEmpty
  <2>5. FF!Fold(f, 0, s) = FundsAfter(f, a)
    BY <2>1, <2>2, <2>3, <2>4 DEF AddFunds
  <2>6. FundsAfter(f, a) = FundsAfter(f, L[k + 1].write)
    BY DEF a, AccumulatorEvent, FundsAfter
  <2> QED BY <1>2, <1>5, <2>5, <2>6
<1>6. Len(L) = k \/ Len(L) = k + 1
  BY <1>2
<1> QED BY <1>4, <1>5, <1>6

-----------------------------------------------------------------------------
(***************************************************************************)
(* The response.                                                           *)
(***************************************************************************)
(* The events and balance changes report nothing else. *)
LEMMA ReportsTagged ==
  /\ \A events, x : x \in EventsToInternalType(events).errs => \E n : x = <<"event", n>>
  /\ \A changes, x : x \in BalanceChangesToInternal(changes).errs => \E n : x = <<"balance", n>>
<1>1. \A list, x : x \in Reported("event", list) => \E n : x = <<"event", n>>
  BY DEF Reported
<1>2. \A list, x : x \in Reported("balance", list) => \E n : x = <<"balance", n>>
  BY DEF Reported
<1>3. ASSUME NEW events, NEW x, x \in EventsToInternalType(events).errs PROVE \E n : x = <<"event", n>>
  <2>1. EventsToInternalType(events).errs \in {{}, Reported("event", events)}
    BY DEF EventsToInternalType
  <2> QED BY <1>1, <1>3, <2>1
<1>4. ASSUME NEW changes, NEW x, x \in BalanceChangesToInternal(changes).errs PROVE \E n : x = <<"balance", n>>
  <2>1. BalanceChangesToInternal(changes).errs \in {{}, Reported("balance", changes)}
    BY DEF BalanceChangesToInternal
  <2> QED BY <1>2, <1>4, <2>1
<1> QED BY <1>3, <1>4
SenderOf(t) == IF t["transaction.bcs"] = "system" THEN "zero" ELSE "user"

(* The parts of the response r to a read of the transaction t. *)
Parts(r, t, options) ==
  LET bcs == t["transaction.bcs"]
      E == EffectsToInternalType(t["effects"])
      C == ToInternalObjectChanges(t["effects"], SenderOf(t))
      V == EventsToInternalType(IF "Events" \in options THEN t["events"] ELSE Unset)
      B == BalanceChangesToInternal(IF "BalanceChanges" \in options THEN t["balance_changes"] ELSE Unset)
  IN /\ r.digest = t["digest"] /\ r.checkpoint = t["checkpoint"] /\ r.timestamp = t["timestamp"]
     /\ r.rawTransaction = IF "RawInput" \in options THEN <<bcs, t["signatures"]>> ELSE Unset
     /\ r.transaction = IF "Input" \in options /\ bcs # "system" THEN <<bcs, t["signatures"]>> ELSE Unset
     /\ r.effects = IF "Effects" \in options THEN E.effects ELSE Unset
     /\ r.objectChanges = IF "ObjectChanges" \in options THEN C.changes ELSE <<>>
     /\ r.events = V.out
     /\ r.balanceChanges = B.out
     /\ r.errors = (IF "Input" \in options /\ bcs = "system" THEN {<<"decode", 0>>} ELSE {})
                     \cup (IF "Effects" \in options THEN E.errs ELSE {})
                     \cup (IF "ObjectChanges" \in options THEN C.errs ELSE {})
                     \cup V.errs \cup B.errs

(* ToInternalType gives every part its conversion: the mask fetched it. *)
LEMMA ResponseParts ==
  ASSUME NEW t, t["transaction.bcs"] \in {"user", "system"}, NEW options
  PROVE  Parts(ToInternalType(Masked(t, ResponseReadMaskPaths(options)), options), t, options)
<1> DEFINE paths == ResponseReadMaskPaths(options)
           x == Masked(t, paths)
           got(p) == IF p \in paths THEN t[p] ELSE Unset
           r == ToInternalType(x, options)
           bcs == t["transaction.bcs"]
           decoded == Get(x, "transaction.bcs") # Unset /\ options \cap {"Input", "ObjectChanges"} # {}
                        /\ Get(x, "transaction.bcs") # "system"
           signed == <<Get(x, "transaction.bcs"), Get(x, "signatures")>>
           E == EffectsToInternalType(t["effects"])
           C == ToInternalObjectChanges(t["effects"], SenderOf(t))
           V == EventsToInternalType(IF "Events" \in options THEN t["events"] ELSE Unset)
           B == BalanceChangesToInternal(IF "BalanceChanges" \in options THEN t["balance_changes"] ELSE Unset)
<1>1. \A p : Get(x, p) = got(p)
  BY DEF Get, Masked
<1>2. /\ "digest" \in paths /\ "checkpoint" \in paths /\ "timestamp" \in paths
      /\ "effects" \in paths <=> "Effects" \in options \/ "ObjectChanges" \in options
      /\ "events" \in paths <=> "Events" \in options
      /\ "balance_changes" \in paths <=> "BalanceChanges" \in options
      /\ "signatures" \in paths <=> "Input" \in options \/ "RawInput" \in options
      /\ "transaction.bcs" \in paths <=> "Input" \in options \/ "RawInput" \in options \/ "ObjectChanges" \in options
  BY DEF ResponseReadMaskPaths
<1> HIDE DEF paths, x
<1>3. /\ Get(x, "digest") = t["digest"] /\ Get(x, "checkpoint") = t["checkpoint"] /\ Get(x, "timestamp") = t["timestamp"]
      /\ Get(x, "events") = IF "Events" \in options THEN t["events"] ELSE Unset
      /\ Get(x, "balance_changes") = IF "BalanceChanges" \in options THEN t["balance_changes"] ELSE Unset
      /\ "Effects" \in options \/ "ObjectChanges" \in options => Get(x, "effects") = t["effects"]
  BY <1>1, <1>2
<1>4. /\ "Input" \in options \/ "RawInput" \in options => signed = <<bcs, t["signatures"]>>
      /\ "Input" \in options \/ "RawInput" \in options \/ "ObjectChanges" \in options =>
           Get(x, "transaction.bcs") = bcs
      /\ bcs # Unset
  BY <1>1, <1>2, NilAssumption
<1>5. "Input" \in options \/ "ObjectChanges" \in options => (decoded <=> bcs # "system")
  BY <1>4
<1> HIDE DEF decoded, signed
<1>6. r = [digest |-> Get(x, "digest"), checkpoint |-> Get(x, "checkpoint"),
           timestamp |-> Get(x, "timestamp"),
           rawTransaction |-> IF "RawInput" \in options /\ Get(x, "transaction.bcs") # Unset THEN signed ELSE Unset,
           transaction |-> IF "Input" \in options /\ decoded THEN signed ELSE Unset,
           effects |-> (IF "Effects" \in options THEN EffectsToInternalType(Get(x, "effects"))
                        ELSE [effects |-> Unset, errs |-> {}]).effects,
           objectChanges |-> (IF "ObjectChanges" \in options
                                THEN ToInternalObjectChanges(Get(x, "effects"),
                                                             IF decoded THEN Get(x, "transaction.bcs") ELSE "zero")
                                ELSE NoObjectChanges).changes,
           events |-> EventsToInternalType(Get(x, "events")).out,
           balanceChanges |-> BalanceChangesToInternal(Get(x, "balance_changes")).out,
           errors |-> (IF "Input" \in options /\ Get(x, "transaction.bcs") # Unset /\ ~ decoded
                         THEN {<<"decode", 0>>} ELSE {})
                      \cup (IF "Effects" \in options THEN EffectsToInternalType(Get(x, "effects"))
                            ELSE [effects |-> Unset, errs |-> {}]).errs
                      \cup (IF "ObjectChanges" \in options
                              THEN ToInternalObjectChanges(Get(x, "effects"),
                                                           IF decoded THEN Get(x, "transaction.bcs") ELSE "zero")
                              ELSE NoObjectChanges).errs
                      \cup EventsToInternalType(Get(x, "events")).errs
                      \cup BalanceChangesToInternal(Get(x, "balance_changes")).errs]
  BY DEF ToInternalType, decoded, signed
<1> HIDE DEF r
<1>7. "ObjectChanges" \in options =>
        ToInternalObjectChanges(Get(x, "effects"), IF decoded THEN Get(x, "transaction.bcs") ELSE "zero") = C
  <2>1. "ObjectChanges" \in options => (IF decoded THEN Get(x, "transaction.bcs") ELSE "zero") = SenderOf(t)
    BY <1>4, <1>5 DEF SenderOf
  <2> QED BY <1>3, <2>1
<1>8. "Effects" \in options => EffectsToInternalType(Get(x, "effects")) = E
  BY <1>3
<1>9. /\ EventsToInternalType(Get(x, "events")) = V
      /\ BalanceChangesToInternal(Get(x, "balance_changes")) = B
  BY <1>3
<1>10. NoObjectChanges.changes = <<>> /\ NoObjectChanges.errs = {}
  BY DEF NoObjectChanges
<1> HIDE DEF E, C, V, B
<1>11. r.digest = t["digest"] /\ r.checkpoint = t["checkpoint"] /\ r.timestamp = t["timestamp"]
  BY <1>3, <1>6
<1>12. r.rawTransaction = IF "RawInput" \in options THEN <<bcs, t["signatures"]>> ELSE Unset
  BY <1>4, <1>6
<1>13. r.transaction = IF "Input" \in options /\ bcs # "system" THEN <<bcs, t["signatures"]>> ELSE Unset
  BY <1>4, <1>5, <1>6
<1>14. r.effects = IF "Effects" \in options THEN E.effects ELSE Unset
  BY <1>6, <1>8
<1>15. r.objectChanges = IF "ObjectChanges" \in options THEN C.changes ELSE <<>>
  BY <1>6, <1>7, <1>10
<1>16. r.events = V.out /\ r.balanceChanges = B.out
  BY <1>6, <1>9
<1>17. r.errors = (IF "Input" \in options /\ bcs = "system" THEN {<<"decode", 0>>} ELSE {})
                     \cup (IF "Effects" \in options THEN E.errs ELSE {})
                     \cup (IF "ObjectChanges" \in options THEN C.errs ELSE {})
                     \cup V.errs \cup B.errs
  <2> DEFINE u == IF "Input" \in options /\ Get(x, "transaction.bcs") # Unset /\ ~ decoded
                    THEN {<<"decode", 0>>} ELSE {}
             e == (IF "Effects" \in options THEN EffectsToInternalType(Get(x, "effects"))
                   ELSE [effects |-> Unset, errs |-> {}]).errs
             c == (IF "ObjectChanges" \in options
                     THEN ToInternalObjectChanges(Get(x, "effects"),
                                                  IF decoded THEN Get(x, "transaction.bcs") ELSE "zero")
                     ELSE NoObjectChanges).errs
  <2>1. u = IF "Input" \in options /\ bcs = "system" THEN {<<"decode", 0>>} ELSE {}
    BY <1>4, <1>5
  <2>2. e = IF "Effects" \in options THEN E.errs ELSE {}
    BY <1>8
  <2>3. c = IF "ObjectChanges" \in options THEN C.errs ELSE {}
    BY <1>7, <1>10
  <2>4. r.errors = u \cup e \cup c \cup EventsToInternalType(Get(x, "events")).errs
                     \cup BalanceChangesToInternal(Get(x, "balance_changes")).errs
    BY <1>6
  <2> HIDE DEF u, e, c
  <2> QED BY <1>9, <2>1, <2>2, <2>3, <2>4
<1> QED BY <1>11, <1>12, <1>13, <1>14, <1>15, <1>16, <1>17 DEF Parts, E, C, V, B, r, x, paths
(* Each conversion's reports are told apart by their tags. *)
LEMMA ErrorsTell ==
  ASSUME NEW r, NEW t, NEW options, Parts(r, t, options), NEW k, NEW n,
         Lists(EffectsToInternalType(t["effects"]), t["effects"].changed, n, k, t["effects"].lamport),
         Changes(ToInternalObjectChanges(t["effects"], SenderOf(t)), t["effects"].changed, n, SenderOf(t))
  PROVE  /\ "Effects" \in options =>
              \A o : <<"effects", o>> \in r.errors <=> <<"effects", o>> \in EffectsToInternalType(t["effects"]).errs
         /\ "ObjectChanges" \in options =>
              \A o : <<"change", o>> \in r.errors <=>
                       <<"change", o>> \in ToInternalObjectChanges(t["effects"], SenderOf(t)).errs
<1> DEFINE E == EffectsToInternalType(t["effects"])
           C == ToInternalObjectChanges(t["effects"], SenderOf(t))
           V == EventsToInternalType(IF "Events" \in options THEN t["events"] ELSE Unset)
           B == BalanceChangesToInternal(IF "BalanceChanges" \in options THEN t["balance_changes"] ELSE Unset)
           u == IF "Input" \in options /\ t["transaction.bcs"] = "system" THEN {<<"decode", 0>>} ELSE {}
<1>1. r.errors = u \cup (IF "Effects" \in options THEN E.errs ELSE {})
                     \cup (IF "ObjectChanges" \in options THEN C.errs ELSE {})
                     \cup V.errs \cup B.errs
  BY DEF Parts
<1>2. \A o : <<"effects", o>> \notin V.errs /\ <<"change", o>> \notin V.errs
  BY ReportsTagged
<1>3. \A o : <<"effects", o>> \notin B.errs /\ <<"change", o>> \notin B.errs
  BY ReportsTagged
<1>4. \A o : <<"effects", o>> \notin u /\ <<"change", o>> \notin u
  OBVIOUS
<1>5. \A o : <<"change", o>> \notin E.errs
  BY DEF Lists
<1>6. \A o : <<"effects", o>> \notin C.errs
  BY DEF Changes
<1> HIDE DEF E, C, V, B, u
<1>7. ASSUME NEW o, "Effects" \in options PROVE <<"effects", o>> \in r.errors <=> <<"effects", o>> \in E.errs
  BY <1>1, <1>2, <1>3, <1>4, <1>6, <1>7
<1>8. ASSUME NEW o, "ObjectChanges" \in options PROVE <<"change", o>> \in r.errors <=> <<"change", o>> \in C.errs
  BY <1>1, <1>2, <1>3, <1>4, <1>5, <1>8
<1> QED BY <1>7, <1>8 DEF E, C

-----------------------------------------------------------------------------
(***************************************************************************)
(* The object changes and the moves they tell.                             *)
(***************************************************************************)
(* Which change an entry becomes, by the move it describes. *)
LEMMA DescribedChange ==
  ASSUME NEW e, Describes(e, before, store, lamport)
  PROVE  /\ ChangeKind(e) = "Created" <=>
              before[e.id].life = "absent" /\ store[e.id].life = "live" /\ e.id \in Objects
         /\ ChangeKind(e) = "Mutated" <=>
              before[e.id].life = "live" /\ store[e.id].life = "live" /\ e.id \in Objects
         /\ ChangeKind(e) = "Published" <=>
              before[e.id].life = "absent" /\ store[e.id].life = "live" /\ e.id \in Packages
         /\ ChangeKind(e) \in {"none", "Created", "Mutated", "Published"}
<1> DEFINE a == before[e.id].life
           b == store[e.id].life
<1>1. e.id \in Objects <=> e.id \notin Packages
  BY ResponseAssumptions DEF Describes, Ids
<1>2. /\ e.input = IF a = "live" THEN "EXISTS" ELSE "DOES_NOT_EXIST"
      /\ e.output = IF b # "live" THEN "DOES_NOT_EXIST"
                    ELSE IF e.id \in Packages THEN "PACKAGE_WRITE" ELSE "OBJECT_WRITE"
      /\ e.op = IF a = "absent" THEN "CREATED" ELSE IF b = "deleted" THEN "DELETED" ELSE "NONE"
  BY DEF Describes
<1> HIDE DEF a, b
<1>3. ChangeKind(e) = "Created" <=> a = "absent" /\ b = "live" /\ e.id \notin Packages
  BY <1>2 DEF ChangeKind
<1>4. ChangeKind(e) = "Mutated" <=> a = "live" /\ b = "live" /\ e.id \notin Packages
  BY <1>2 DEF ChangeKind
<1>5. ChangeKind(e) = "Published" <=> a = "absent" /\ b = "live" /\ e.id \in Packages
  BY <1>2 DEF ChangeKind
<1>6. ChangeKind(e) \in {"none", "Created", "Mutated", "Published"}
  BY DEF ChangeKind
<1> QED BY <1>1, <1>3, <1>4, <1>5, <1>6 DEF a, b

(* An entry that becomes a change, or is reported, describes a move. *)
LEMMA ChangesDescribed ==
  ASSUME NEW L, NEW k, Described(L, k, before, store, lamport), NEW i \in 1..Len(L), ChangeKind(L[i]) # "none"
  PROVE  i \in 1..k /\ Describes(L[i], before, store, lamport)
<1>1. k \in Nat /\ Len(L) \in Nat /\ k <= Len(L) /\ Len(L) <= k + 1
  BY DEF Described, List
<1>2. CASE i = k + 1
  <2>1. L[i].output = "ACCUMULATOR_WRITE"
    BY <1>1, <1>2 DEF Described
  <2>2. ChangeKind(L[i]) = "none"
    BY <2>1 DEF ChangeKind
  <2> QED BY <2>2
<1>3. CASE i # k + 1
  <2>1. i \in 1..k
    BY <1>1, <1>3
  <2> QED BY <2>1 DEF Described
<1> QED BY <1>2, <1>3

(* A change is reported just if its object cannot be rendered. *)
LEMMA DescribedReport ==
  ASSUME Chain, NEW e, Describes(e, before, store, lamport), ChangeKind(e) # "none"
  PROVE  Unrendered(e) <=> Unrenderable(e.id)
<1>1. ChangeKind(e) \in {"Created", "Mutated"} <=> e.id \in Objects
  BY DescribedChange, ResponseAssumptions
<1>2. e.owner = store[e.id].owner /\ e.owner \in Owners \cup {"ADDRESS"}
  BY DEF Describes, Chain, Stores
<1>3. ToInternalObjectOwner(e.owner) = "error" <=> e.owner \in {"UNKNOWN", "BAD_ADDRESS"}
  <2>1. e.owner \in {"ADDRESS", "CONSENSUS_ADDRESS", "OBJECT", "SHARED", "IMMUTABLE", "UNKNOWN", "BAD_ADDRESS"}
    BY <1>2, ResponseAssumptions
  <2> QED BY <2>1 DEF ToInternalObjectOwner, ToInternalOwner
<1> QED BY <1>1, <1>2, <1>3 DEF Unrendered, Unrenderable

(* No object is written twice by a transaction. *)
LEMMA DescribedOnce ==
  ASSUME NEW L, NEW k, Described(L, k, before, store, lamport)
  PROVE  WrittenOnce(L)
<1>1. List(L)
  BY DEF Described
<1>2. ASSUME NEW i \in 1..Len(L), NEW j \in 1..Len(L), Rendered(L[i]), Rendered(L[j]), L[i].id = L[j].id
      PROVE  i = j
  <2>1. i \in 1..k /\ j \in 1..k
    BY <1>2, ChangesDescribed DEF Rendered
  <2> QED BY <1>2, <2>1 DEF Described
<1> QED BY <1>1, <1>2 DEF WrittenOnce
(* What ChangesTellWrites says of changes list and reports reported. *)
TellsWrites(list, reported, sender) ==
  LET told == ToSet(list)
      written == {o \in Objects : Moved(o, "absent") \/ Moved(o, "live")}
      published == {o \in Packages : Moved(o, "absent")}
  IN /\ \A i, j \in DOMAIN list : list[i].id = list[j].id => i = j
     /\ {c.id : c \in told} = {o \in written \cup published : ~ Unrenderable(o)}
     /\ reported = {o \in written \cup published : Unrenderable(o)}
     /\ \A c \in told :
          /\ c.version = store[c.id].version
          /\ c.kind = "Created" <=> c.id \in Objects /\ before[c.id].life = "absent"
          /\ c.kind = "Mutated" => c.previousVersion = before[c.id].version
          /\ c.kind # "Published" => c.sender = sender

(* The changes converted are the objects written. *)
LEMMA ChangesTell ==
  ASSUME Chain, lamport # 0, NEW L, NEW k, Described(L, k, before, store, lamport), NEW v, NEW sender, Changes(v, L, Len(L), sender)
  PROVE  TellsWrites(v.changes, {o \in Ids : <<"change", o>> \in v.errs}, sender)
<1> DEFINE N == Len(L)
           told == ToSet(v.changes)
           ids == {c.id : c \in told}
           reported == {o \in Ids : <<"change", o>> \in v.errs}
           Changed(o) == /\ o \in Ids /\ store[o].life = "live"
                         /\ before[o].life = "absent" \/ (before[o].life = "live" /\ o \in Objects)
                         /\ \E i \in 1..k : L[i].id = o
<1>1. N \in Nat /\ k \in Nat /\ k <= N /\ \A i \in 1..k : i \in 1..N /\ Describes(L[i], before, store, lamport)
  BY DEF Described, List
<1>2. ASSUME NEW i \in 1..k PROVE ChangeKind(L[i]) # "none" <=> Changed(L[i].id)
  <2>1. Describes(L[i], before, store, lamport) /\ L[i].id \in Ids
    BY <1>1 DEF Describes
  <2> DEFINE e == L[i]
             moved == \E j \in 1..k : L[j].id = e.id
  <2>2. e.id \in Objects \/ e.id \in Packages
    BY <2>1 DEF Ids
  <2>3. /\ ChangeKind(e) = "Created" <=>
              before[e.id].life = "absent" /\ store[e.id].life = "live" /\ e.id \in Objects
        /\ ChangeKind(e) = "Mutated" <=>
              before[e.id].life = "live" /\ store[e.id].life = "live" /\ e.id \in Objects
        /\ ChangeKind(e) = "Published" <=>
              before[e.id].life = "absent" /\ store[e.id].life = "live" /\ e.id \in Packages
        /\ ChangeKind(e) \in {"none", "Created", "Mutated", "Published"}
    BY <2>1, DescribedChange
  <2>4. moved /\ e.id \in Ids
    BY <2>1
  <2>5. ChangeKind(e) # "none" <=>
          /\ store[e.id].life = "live"
          /\ before[e.id].life = "absent" \/ (before[e.id].life = "live" /\ e.id \in Objects)
    <3> HIDE DEF e
    <3> QED BY <2>2, <2>3
  <2> QED BY <2>4, <2>5
<1>3. \A i, j \in 1..k : L[i].id = L[j].id => i = j
  BY DEF Described
<1>4. \A c : c \in told <=> \E i \in 1..N : Rendered(L[i]) /\ c = ToInternalObjectChange(L[i], sender)
  BY DEF Changes
<1>5. \A x : x \in v.errs <=> \E i \in 1..N : Unrendered(L[i]) /\ x = <<"change", L[i].id>>
  BY DEF Changes
<1>6. \A i \in 1..N : Rendered(L[i]) \/ Unrendered(L[i]) => i \in 1..k /\ ChangeKind(L[i]) # "none"
  <2>1. ASSUME NEW i \in 1..N, Rendered(L[i]) \/ Unrendered(L[i]) PROVE i \in 1..k /\ ChangeKind(L[i]) # "none"
    <3>1. ChangeKind(L[i]) # "none"
      BY <2>1 DEF Rendered, Unrendered
    <3> QED BY <3>1, ChangesDescribed
  <2> QED BY <2>1
<1>7. \A o : o \in reported <=> \E i \in 1..k : Unrendered(L[i]) /\ L[i].id = o
  <2>1. ASSUME NEW o, o \in reported PROVE \E i \in 1..k : Unrendered(L[i]) /\ L[i].id = o
    <3>1. PICK i \in 1..N : Unrendered(L[i]) /\ <<"change", o>> = <<"change", L[i].id>>
      BY <1>5, <2>1
    <3> QED BY <1>6, <3>1
  <2>2. ASSUME NEW o, NEW i \in 1..k, Unrendered(L[i]), L[i].id = o PROVE o \in reported
    <3>1. o \in Ids
      BY <1>1, <2>2 DEF Describes
    <3> QED BY <1>1, <1>5, <2>2, <3>1
  <2> QED BY <2>1, <2>2
<1>8. \A o : o \in ids <=> \E i \in 1..k : Rendered(L[i]) /\ L[i].id = o
  <2>1. ASSUME NEW o, o \in ids PROVE \E i \in 1..k : Rendered(L[i]) /\ L[i].id = o
    <3>1. PICK c \in told : c.id = o
      BY <2>1
    <3>2. PICK i \in 1..N : Rendered(L[i]) /\ c = ToInternalObjectChange(L[i], sender)
      BY <1>4, <3>1
    <3>3. c.id = L[i].id
      BY <3>2, ChangeId
    <3> QED BY <1>6, <3>1, <3>2, <3>3
  <2>2. ASSUME NEW o, NEW i \in 1..k, Rendered(L[i]), L[i].id = o PROVE o \in ids
    <3>1. ToInternalObjectChange(L[i], sender) \in told
      BY <1>1, <1>4, <2>2
    <3>2. ToInternalObjectChange(L[i], sender).id = o
      BY <2>2, ChangeId
    <3> HIDE DEF told
    <3> QED BY <3>1, <3>2
  <2> QED BY <2>1, <2>2
<1>9. \A e : Rendered(e) => ~ Unrendered(e)
  BY DEF Rendered
<1>10. \A o : (o \in reported => Unrenderable(o)) /\ (o \in ids => ~ Unrenderable(o))
  <2>1. \A i \in 1..k : Rendered(L[i]) \/ Unrendered(L[i]) => (Unrendered(L[i]) <=> Unrenderable(L[i].id))
    BY <1>1, <1>6, DescribedReport
  <2> HIDE DEF ids, reported
  <2> QED BY <1>7, <1>8, <1>9, <2>1
<1>11. \A e : ChangeKind(e) # "none" <=> Rendered(e) \/ Unrendered(e)
  BY DEF Rendered, Unrendered
<1>12. \A o : o \in ids \cup reported <=> Changed(o)
  <2>1. ASSUME NEW o, o \in ids \cup reported PROVE Changed(o)
    <3>1. PICK i \in 1..k : L[i].id = o /\ ChangeKind(L[i]) # "none"
      BY <1>7, <1>8, <1>11, <2>1
    <3> QED BY <1>2, <3>1
  <2>2. ASSUME NEW o, Changed(o) PROVE o \in ids \cup reported
    <3>1. PICK i \in 1..k : L[i].id = o
      BY <2>2
    <3>2. ChangeKind(L[i]) # "none"
      BY <1>2, <2>2, <3>1
    <3> QED BY <1>7, <1>8, <1>11, <3>1, <3>2
  <2> QED BY <2>1, <2>2
<1>13. ASSUME NEW o \in Ids
       PROVE  (\E i \in 1..k : L[i].id = o) <=> store[o] # before[o]
  <2>1. ASSUME NEW i \in 1..k, L[i].id = o PROVE store[o] # before[o]
    <3>1. store[o].version = lamport
      BY <1>1, <2>1 DEF Describes
    <3>2. before[o].version \in Nat /\ before[o].version < lamport /\ lamport \in Nat
      BY DEF Chain, Stores
    <3> QED BY <3>1, <3>2
  <2> QED BY <2>1 DEF Described
<1>14. ASSUME NEW o
       PROVE  Changed(o) <=> o \in {p \in Objects : Moved(p, "absent") \/ Moved(p, "live")}
                                    \cup {p \in Packages : Moved(p, "absent")}
  <2>1. o \in Ids <=> o \in Objects \/ o \in Packages
    BY DEF Ids
  <2>2. o \in Ids => ((\E i \in 1..k : L[i].id = o) <=> store[o] # before[o])
    BY <1>13
  <2>3. CASE o \notin Ids
    BY <2>1, <2>3
  <2>4. CASE o \in Ids
    <3>1. Changed(o) <=> /\ store[o].life = "live" /\ store[o] # before[o]
                         /\ before[o].life = "absent" \/ (before[o].life = "live" /\ o \in Objects)
      BY <2>2, <2>4
    <3>2. \A from : Moved(o, from) <=> before[o].life = from /\ store[o] # before[o] /\ store[o].life = "live"
      BY DEF Moved
    <3>3. o \in {p \in Objects : Moved(p, "absent") \/ Moved(p, "live")} \cup {p \in Packages : Moved(p, "absent")}
            <=> \/ o \in Objects /\ (Moved(o, "absent") \/ Moved(o, "live"))
                \/ o \in Packages /\ Moved(o, "absent")
      OBVIOUS
    <3> QED BY <2>1, <2>4, <3>1, <3>2, <3>3
  <2> QED BY <2>3, <2>4
<1>15. ASSUME NEW c \in told
       PROVE  /\ c.version = store[c.id].version
              /\ c.kind = "Created" <=> c.id \in Objects /\ before[c.id].life = "absent"
              /\ c.kind = "Mutated" => c.previousVersion = before[c.id].version
              /\ c.kind # "Published" => c.sender = sender
  <2>1. PICK i \in 1..N : Rendered(L[i]) /\ c = ToInternalObjectChange(L[i], sender)
    BY <1>4
  <2> DEFINE e == L[i]
  <2>2. Describes(e, before, store, lamport) /\ ChangeKind(e) # "none"
    BY <1>1, <1>6, <2>1
  <2>3. e.version = store[e.id].version /\ e.inputVersion = before[e.id].version
    BY <2>2 DEF Describes
  <2>4. /\ ChangeKind(e) = "Created" <=>
              before[e.id].life = "absent" /\ store[e.id].life = "live" /\ e.id \in Objects
        /\ ChangeKind(e) = "Published" <=>
              before[e.id].life = "absent" /\ store[e.id].life = "live" /\ e.id \in Packages
        /\ ChangeKind(e) = "Mutated" <=>
              before[e.id].life = "live" /\ store[e.id].life = "live" /\ e.id \in Objects
        /\ ChangeKind(e) \in {"Created", "Mutated", "Published"}
    BY <2>2, DescribedChange
  <2>5. c = ToInternalObjectChange(e, sender)
    BY <2>1
  <2> HIDE DEF e
  <2>6. CASE ChangeKind(e) = "Published"
    <3>1. c = [kind |-> "Published", id |-> e.id, version |-> e.version]
      BY <2>5, <2>6 DEF ToInternalObjectChange
    <3>2. e.id \notin Objects
      BY <2>4, <2>6, ResponseAssumptions
    <3> QED BY <2>3, <3>1, <3>2
  <2>7. CASE ChangeKind(e) = "Created"
    <3>1. c = [kind |-> "Created", id |-> e.id, version |-> e.version,
               owner |-> ToInternalObjectOwner(e.owner), sender |-> sender]
      BY <2>5, <2>7 DEF ToInternalObjectChange
    <3> QED BY <2>3, <2>4, <2>7, <3>1
  <2>8. CASE ChangeKind(e) = "Mutated"
    <3>1. c = [kind |-> "Mutated", id |-> e.id, version |-> e.version,
               previousVersion |-> e.inputVersion,
               owner |-> ToInternalObjectOwner(e.owner), sender |-> sender]
      BY <2>5, <2>8 DEF ToInternalObjectChange
    <3> QED BY <2>3, <2>4, <2>8, <3>1
  <2> QED BY <2>4, <2>6, <2>7, <2>8
<1>16. \A i, j \in DOMAIN v.changes : v.changes[i].id = v.changes[j].id => i = j
  <2>1. DOMAIN v.changes = 1..Len(v.changes)
    BY DEF Changes, List
  <2> QED BY <2>1 DEF Changes
<1> HIDE DEF Changed
<1>17. ids \cup reported = {p \in Objects : Moved(p, "absent") \/ Moved(p, "live")}
                                    \cup {p \in Packages : Moved(p, "absent")}
  <2> HIDE DEF ids, reported
  <2> QED BY <1>12, <1>14
<1>18. /\ ids = {o \in ids \cup reported : ~ Unrenderable(o)}
       /\ reported = {o \in ids \cup reported : Unrenderable(o)}
  <2> HIDE DEF ids, reported
  <2> QED BY <1>10
<1> QED BY <1>15, <1>16, <1>17, <1>18 DEF TellsWrites
-----------------------------------------------------------------------------
(***************************************************************************)
(* The steps.                                                              *)
(***************************************************************************)
LEMMA SeqIsList ==
  ASSUME NEW T, NEW s \in Seq(T)
  PROVE  List(s)
<1>1. Len(s) \in Nat /\ s = [i \in 1..Len(s) |-> s[i]] /\ \A i \in 1..Len(s) : s[i] \in ToSet(s)
  BY DEF ToSet
<1> QED BY <1>1 DEF List

(* The invariant holds at first. *)
LEMMA InitInv == Init => IInv
<1> SUFFICES ASSUME Init PROVE IInv
  OBVIOUS
<1>1. \A o \in Ids : /\ store[o].life \in {"absent", "live", "wrapped"} /\ store[o].version = 0
                     /\ store[o].owner = "ADDRESS"
                     /\ o \in Packages => store[o].life \in {"absent", "live"}
  BY DEF Init
<1>2. store \in Stores
  BY DEF Init, Stores
<1>3. Chain
  BY <1>1, <1>2 DEF Init, Chain, Plain
<1>4. Follows(view, store)
  <2>1. \A o \in Ids : view[o] = [life |-> IF store[o].life = "live" THEN "live" ELSE "gone", version |-> 0]
    BY DEF Init
  <2>2. ASSUME NEW o \in Ids
        PROVE  IF view[o].life = "lost" THEN store[o].owner = "BAD_ADDRESS"
               ELSE IF store[o].life = "live" THEN view[o] = [life |-> "live", version |-> store[o].version]
               ELSE view[o].life = "gone"
    <3>1. CASE store[o].life = "live"
      <4>1. view[o] = [life |-> "live", version |-> 0]
        BY <2>1, <3>1
      <4> QED BY <1>1, <3>1, <4>1
    <3>2. CASE store[o].life # "live"
      <4>1. view[o] = [life |-> "gone", version |-> 0]
        BY <2>1, <3>2
      <4> QED BY <3>2, <4>1
    <3> QED BY <3>1, <3>2
  <2> QED BY <2>2 DEF Follows
<1> QED BY <1>3, <1>4 DEF Init, IInv

(* A step that moves the objects of S. *)
Moving(S, moves, owner) ==
  /\ S \in SUBSET Ids /\ moves \in [S -> {"live", "wrapped", "deleted"}] /\ owner \in Owners
  /\ \A o \in S : MayMove(o, moves[o])
  /\ lamport' = lamport + 1 /\ before' = store
  /\ store' = [o \in Ids |->
                 IF o \in S THEN [life |-> moves[o], version |-> lamport + 1, owner |-> owner] ELSE store[o]]

EntryList(S, moves, owner) ==
  [i \in DOMAIN SetToSeq(S) |-> Entry(SetToSeq(S)[i], moves[SetToSeq(S)[i]], owner, lamport + 1)]

AccumulatorList(writes) == [i \in DOMAIN writes |-> AccumulatorEntry(writes[i])]

(* What the node tells of one object that moves. *)
LEMMA EntryDescribes ==
  ASSUME Chain, NEW S, NEW moves, NEW owner, Moving(S, moves, owner), NEW o \in S
  PROVE  LET e == Entry(o, moves[o], owner, lamport + 1)
         IN e \in Entries /\ e.id = o /\ Describes(e, store, store', lamport + 1)
<1> DEFINE n == lamport + 1
           e == Entry(o, moves[o], owner, n)
           a == store[o].life
           b == moves[o]
           out == CASE b # "live" -> "DOES_NOT_EXIST"
                    [] b = "live" /\ o \in Packages -> "PACKAGE_WRITE"
                    [] b = "live" /\ o \in Objects -> "OBJECT_WRITE"
           did == CASE a = "absent" -> "CREATED"
                    [] b = "deleted" -> "DELETED"
                    [] OTHER -> "NONE"
           in == IF a = "live" THEN "EXISTS" ELSE "DOES_NOT_EXIST"
<1>1. /\ o \in Ids /\ b \in {"live", "wrapped", "deleted"} /\ owner \in Owners
      /\ lamport' = n /\ before'[o] = store[o]
      /\ store'[o] = [life |-> b, version |-> n, owner |-> owner]
      /\ <<a, b>> \in Moves /\ (o \in Packages => b = "live")
  BY DEF Moving, MayMove
<1>2. n \in Nat /\ store[o].version \in Nat
  BY <1>1 DEF Chain, Stores
<1>3. e = [id |-> o, input |-> in, output |-> out, op |-> did, version |-> n,
           inputVersion |-> store[o].version, owner |-> owner, write |-> Unset]
  BY DEF Entry
<1> HIDE DEF e, n, a, b
<1>4. out = IF b # "live" THEN "DOES_NOT_EXIST"
            ELSE IF o \in Packages THEN "PACKAGE_WRITE" ELSE "OBJECT_WRITE"
  BY <1>1, ResponseAssumptions DEF Ids
<1>5. did = IF a = "absent" THEN "CREATED" ELSE IF b = "deleted" THEN "DELETED" ELSE "NONE"
  BY <1>1 DEF Moves
<1> HIDE DEF out, did
<1>6. /\ in \in {"EXISTS", "DOES_NOT_EXIST"} /\ did \in {"CREATED", "DELETED", "NONE"}
      /\ out \in {"DOES_NOT_EXIST", "PACKAGE_WRITE", "OBJECT_WRITE", "ACCUMULATOR_WRITE"}
  BY <1>4, <1>5
<1>7. e \in Entries
  <2> HIDE DEF in
  <2> QED BY <1>1, <1>2, <1>3, <1>6 DEF Entries
<1>8. /\ e.id = o /\ e.input = in /\ e.output = out /\ e.op = did /\ e.version = n
      /\ e.inputVersion = store[o].version /\ e.owner = owner
  BY <1>3
<1>9. store'[o].life = b /\ store'[o].version = n /\ store'[o].owner = owner
  BY <1>1
<1>10. Describes(e, store, store', lamport + 1)
  BY <1>1, <1>4, <1>5, <1>8, <1>9 DEF Describes, a, n
<1> QED BY <1>7, <1>8, <1>10 DEF e, n, b

(* What the node tells of a transaction. *)
LEMMA EntriesDescribe ==
  ASSUME Chain, NEW S, NEW moves, NEW owner, Moving(S, moves, owner),
         NEW writes, writes \in {<<>>} \cup {<<w>> : w \in Writes}
  PROVE  LET changed == EntryList(S, moves, owner)
             L == changed \o AccumulatorList(writes)
         IN /\ changed \in Seq(Entries) /\ L \in Seq(Entries)
            /\ Described(L, Len(changed), store, store', lamport + 1)
            /\ writes = <<>> => Len(L) = Len(changed)
            /\ writes # <<>> => Len(L) # Len(changed) /\ L[Len(changed) + 1].write = writes[1]
<1> DEFINE order == SetToSeq(S)
           k == Cardinality(S)
           changed == EntryList(S, moves, owner)
           acc == AccumulatorList(writes)
           L == changed \o acc
           told(o) == Entry(o, moves[o], owner, lamport + 1)
<1>1. IsFiniteSet(S)
  <2>1. IsFiniteSet(Ids)
    BY ResponseAssumptions, FS_Union DEF Ids
  <2> QED BY <2>1, FS_Subset DEF Moving
<1>2. /\ k \in Nat /\ order \in [1..k -> S]
      /\ \A i, j \in 1..k : order[i] = order[j] => i = j
      /\ \A o \in S : \E i \in 1..k : order[i] = o
  BY <1>1, SetInOrder
<1> HIDE DEF k
<1>3. changed = [i \in 1..k |-> told(order[i])]
  BY <1>2 DEF EntryList
<1> HIDE DEF order, changed
<1>4. \A o \in S : told(o) \in Entries /\ told(o).id = o /\ Describes(told(o), store, store', lamport + 1)
  BY EntryDescribes
<1> HIDE DEF told
<1>5. \A i \in 1..k : changed[i] \in Entries /\ changed[i] = told(order[i])
  BY <1>2, <1>3, <1>4
<1>6. changed \in Seq(Entries) /\ Len(changed) = k /\ DOMAIN changed = 1..k
  <2>1. changed \in [1..k -> Entries]
    BY <1>3, <1>5
  <2> HIDE DEF changed
  <2> QED BY <1>2, <2>1
<1>7. /\ acc \in Seq(Entries) /\ Len(acc) = Len(writes) /\ Len(writes) \in {0, 1}
      /\ writes = <<>> => Len(writes) = 0
      /\ writes # <<>> => Len(writes) = 1 /\ acc[1] = AccumulatorEntry(writes[1]) /\ writes[1] \in Writes
  <2>1. CASE writes = <<>>
    <3>1. acc = <<>>
      BY <2>1 DEF AccumulatorList
    <3>2. <<>> \in Seq(Entries) /\ Len(<<>>) = 0
      OBVIOUS
    <3> HIDE DEF acc
    <3> QED BY <2>1, <3>1, <3>2
  <2>2. CASE writes \in {<<w>> : w \in Writes}
    <3>1. PICK w \in Writes : writes = <<w>>
      BY <2>2
    <3>2. DOMAIN writes = 1..1 /\ writes[1] = w /\ Len(writes) = 1 /\ writes # <<>>
      BY <3>1
    <3>3. AccumulatorEntry(w) \in Entries
      BY DEF AccumulatorEntry, Entries
    <3>4. acc = [i \in 1..1 |-> AccumulatorEntry(w)]
      BY <3>2 DEF AccumulatorList
    <3>5. acc \in Seq(Entries) /\ Len(acc) = 1 /\ acc[1] = AccumulatorEntry(w)
      BY <3>3, <3>4
    <3> HIDE DEF acc
    <3> QED BY <3>2, <3>5
  <2>3. writes = <<>> \/ writes \in {<<w>> : w \in Writes}
    OBVIOUS
  <2> QED BY <2>1, <2>2, <2>3
<1> HIDE DEF acc
<1>8. /\ L \in Seq(Entries) /\ Len(L) = k + Len(acc)
      /\ \A i \in 1..k : L[i] = changed[i]
      /\ Len(acc) = 1 => L[k + 1] = acc[1]
  <2>1. L \in Seq(Entries) /\ Len(L) = k + Len(acc)
    BY <1>6, <1>7
  <2>2. \A i \in 1..k : L[i] = changed[i]
    BY <1>6, <1>7, <1>2
  <2>3. Len(acc) = 1 => L[k + 1] = acc[1]
    BY <1>6, <1>7, <1>2
  <2> QED BY <2>1, <2>2, <2>3
<1> HIDE DEF L
<1>9. \A i \in 1..k : L[i] = told(order[i]) /\ order[i] \in S /\ Describes(L[i], store, store', lamport + 1) /\ L[i].id = order[i]
  <2> SUFFICES ASSUME NEW i \in 1..k
               PROVE  /\ L[i] = told(order[i]) /\ order[i] \in S
                      /\ Describes(L[i], store, store', lamport + 1) /\ L[i].id = order[i]
    OBVIOUS
  <2>1. L[i] = told(order[i]) /\ order[i] \in S
    BY <1>2, <1>5, <1>8
  <2> QED BY <1>4, <2>1
<1>10. List(L)
  BY <1>8, SeqIsList
<1>11. \A i, j \in 1..k : L[i].id = L[j].id => i = j
  BY <1>2, <1>9
<1>12. ASSUME NEW o \in Ids PROVE (\E i \in 1..k : L[i].id = o) \/ store'[o] = store[o]
  <2>1. CASE o \in S
    BY <1>2, <1>9, <2>1
  <2>2. CASE o \notin S
    BY <2>2 DEF Moving
  <2> QED BY <2>1, <2>2
<1>13. writes # <<>> => L[k + 1].output = "ACCUMULATOR_WRITE" /\ L[k + 1].write = writes[1] /\ writes[1] \in Writes
  <2> SUFFICES ASSUME writes # <<>>
               PROVE  L[k + 1].output = "ACCUMULATOR_WRITE" /\ L[k + 1].write = writes[1] /\ writes[1] \in Writes
    OBVIOUS
  <2>1. L[k + 1] = AccumulatorEntry(writes[1]) /\ writes[1] \in Writes
    BY <1>7, <1>8
  <2> QED BY <2>1 DEF AccumulatorEntry
<1>14. Len(L) = k + Len(writes) /\ Len(writes) \in {0, 1} /\ k \in Nat
  BY <1>2, <1>7, <1>8
<1>15. k <= Len(L) /\ Len(L) <= k + 1 /\ (Len(L) = k + 1 => Len(writes) = 1) /\ (Len(L) = k <=> Len(writes) = 0)
  <2> DEFINE w == Len(writes)
             l == Len(L)
  <2>1. l = k + w /\ w \in {0, 1} /\ k \in Nat
    BY <1>14
  <2> HIDE DEF w, l
  <2>2. k <= l /\ l <= k + 1 /\ (l = k + 1 => w = 1) /\ (l = k <=> w = 0)
    BY <2>1
  <2> QED BY <2>2 DEF w, l
<1>16. Len(writes) = 1 <=> writes # <<>>
  BY <1>7
<1>17. Described(L, k, store, store', lamport + 1)
  BY <1>2, <1>9, <1>10, <1>11, <1>12, <1>13, <1>15, <1>16 DEF Described
<1>18. /\ writes = <<>> => Len(L) = k
       /\ writes # <<>> => Len(L) # k
  BY <1>7, <1>15
<1> QED BY <1>6, <1>8, <1>13, <1>17, <1>18 DEF L, acc, changed
(* A transaction is told, and leaves the reader behind by it. *)
LEMMA ExecuteInv ==
  ASSUME IInv, NEW S \in SUBSET Ids, NEW moves \in [S -> {"live", "wrapped", "deleted"}],
         NEW bcs \in {"user", "system"}, NEW owner \in Owners,
         NEW writes, writes \in {<<>>} \cup {<<w>> : w \in Writes}, NEW events \in EventLists,
         Execute(bcs, moves, owner, writes, events)
  PROVE  IInv'
<1> DEFINE n == lamport + 1
           changed == EntryList(DOMAIN moves, moves, owner)
           acc == AccumulatorList(writes)
           L == changed \o acc
           gasCoins == {e \in ToSet(changed) : e.input = "EXISTS" /\ e.output = "OBJECT_WRITE"}
           gas == IF bcs = "system" \/ gasCoins = {} THEN Unset ELSE CHOOSE e \in gasCoins : TRUE
           effects == [lamport |-> n, status |-> [success |-> "yes", description |-> ""],
                       gasObject |-> gas, changed |-> L]
<1>1. Chain /\ Follows(view, store) /\ fundsView = funds /\ seen = lamport /\ lamport \in Nat
  BY DEF IInv, Execute, Chain
<1>2. /\ lamport' = n /\ before' = store
      /\ \A o \in S : MayMove(o, moves[o])
      /\ store' = [o \in Ids |-> IF o \in S THEN [life |-> moves[o], version |-> n, owner |-> owner] ELSE store[o]]
  <2>1. DOMAIN moves = S
    OBVIOUS
  <2> QED BY <2>1 DEF Execute
<1>3. /\ funds' = IF writes = <<>> THEN funds ELSE FundsAfter(funds, writes[1])
      /\ resp' = Unset /\ view' = view /\ fundsView' = fundsView /\ seen' = seen
  BY DEF Execute
<1>4. tx' = [p \in Fields |->
               CASE p = "transaction.bcs" -> bcs
                 [] p = "signatures" -> "signatures"
                 [] p = "effects" -> effects
                 [] p \in {"events", "balance_changes"} -> events
                 [] p \in {"digest", "checkpoint", "timestamp"} -> n]
  BY DEF Execute, EntryList, AccumulatorList
<1> HIDE DEF effects
<1>5. /\ tx'["transaction.bcs"] = bcs /\ tx'["effects"] = effects /\ tx'["events"] = events
      /\ tx'["balance_changes"] = events
      /\ tx'["digest"] = n /\ tx'["checkpoint"] = n /\ tx'["timestamp"] = n
  BY <1>4 DEF Fields
<1>6. Moving(DOMAIN moves, moves, owner)
  <2>1. DOMAIN moves = S
    OBVIOUS
  <2> QED BY <1>2, <2>1 DEF Moving
<1> HIDE DEF gas
<1>7. /\ changed \in Seq(Entries) /\ L \in Seq(Entries)
      /\ Described(L, Len(changed), store, store', n)
      /\ writes = <<>> => Len(L) = Len(changed)
      /\ writes # <<>> => Len(L) # Len(changed) /\ L[Len(changed) + 1].write = writes[1]
  BY <1>1, <1>6, EntriesDescribe
<1> HIDE DEF changed, acc, L
<1>8. gas \in Entries \cup {Unset}
  <2>1. gasCoins \subseteq Entries
    BY <1>7 DEF ToSet
  <2> HIDE DEF gasCoins
  <2> QED BY <2>1 DEF gas
<1>9. effects \in Effects /\ effects.lamport = n /\ effects.changed = L
  BY <1>1, <1>7, <1>8 DEF effects, Effects
<1>10. Len(changed) \in 0..Len(L)
  BY <1>7 DEF Described, List
<1>11. /\ Follows(view', before')
       /\ funds' = FundsTold(fundsView', L, Len(changed))
  BY <1>1, <1>2, <1>3, <1>7 DEF FundsTold
<1>12. store' \in Stores
  <2>1. \A o \in Ids : store'[o] \in [life : {"absent", "live", "wrapped", "deleted"}, version : Nat,
                                      owner : Owners \cup {"ADDRESS"}]
    <3> SUFFICES ASSUME NEW o \in Ids
                 PROVE  store'[o] \in [life : {"absent", "live", "wrapped", "deleted"}, version : Nat,
                                       owner : Owners \cup {"ADDRESS"}]
      OBVIOUS
    <3>1. CASE o \in S
      BY <1>1, <1>2, <3>1
    <3>2. CASE o \notin S
      BY <1>1, <1>2, <3>2 DEF Chain, Stores
    <3> QED BY <3>1, <3>2
  <2> QED BY <1>2, <2>1 DEF Stores
<1>13. Plain(store')
  <2> SUFFICES ASSUME NEW o \in Ids
               PROVE  /\ store'[o].life = "absent" => store'[o].owner = "ADDRESS"
                      /\ o \in Packages => store'[o].life \in {"absent", "live"}
    BY DEF Plain
  <2>1. CASE o \in S
    <3>1. store'[o].life = moves[o] /\ moves[o] # "absent"
      BY <1>2, <2>1
    <3>2. o \in Packages => moves[o] = "live"
      BY <1>2, <2>1 DEF MayMove
    <3> QED BY <3>1, <3>2
  <2>2. CASE o \notin S
    BY <1>1, <1>2, <2>2 DEF Chain, Plain
  <2> QED BY <2>1, <2>2
<1>14. \A o \in Ids : store'[o].version <= n
  <2> SUFFICES ASSUME NEW o \in Ids PROVE store'[o].version <= n
    OBVIOUS
  <2>1. store[o].version \in Nat /\ store[o].version <= lamport
    BY <1>1 DEF Chain, Stores
  <2>2. store'[o].version = n \/ store'[o].version = store[o].version
    BY <1>2
  <2> QED BY <1>1, <2>1, <2>2
<1>15. \A o \in Ids : before'[o].version < n
  <2> SUFFICES ASSUME NEW o \in Ids PROVE before'[o].version < n
    OBVIOUS
  <2>1. store[o].version \in Nat /\ store[o].version <= lamport
    BY <1>1 DEF Chain, Stores
  <2> QED BY <1>1, <1>2, <2>1
<1>16. Chain'
  <2>1. before' \in Stores /\ Plain(before') /\ lamport' \in Nat
    BY <1>1, <1>2 DEF Chain
  <2> QED BY <1>2, <1>12, <1>13, <1>14, <1>15, <2>1 DEF Chain
<1>17. events \in Seq({"ok", "bad"})
  BY ResponseAssumptions
<1>18. \E k \in 0..Len(tx'["effects"].changed) :
         /\ Described(tx'["effects"].changed, k, before', store', lamport')
         /\ seen' # lamport' => /\ Follows(view', before')
                                /\ funds' = FundsTold(fundsView', tx'["effects"].changed, k)
  BY <1>2, <1>5, <1>7, <1>9, <1>10, <1>11
<1>19. Told'
  BY <1>2, <1>5, <1>9, <1>17, <1>18 DEF Told
<1>20. n # 0 /\ seen' # lamport'
  BY <1>1, <1>2, <1>3
<1> QED BY <1>2, <1>3, <1>16, <1>19, <1>20 DEF IInv

-----------------------------------------------------------------------------
(* What a read of the last transaction tells. *)
LEMMA AnswerTold ==
  ASSUME IInv, lamport # 0, NEW options
  PROVE  LET r == ToInternalType(Masked(tx, ResponseReadMaskPaths(options)), options)
             f == tx["effects"]
             E == EffectsToInternalType(f)
             C == ToInternalObjectChanges(f, SenderOf(tx))
         IN /\ Parts(r, tx, options)
            /\ \A k : Described(f.changed, k, before, store, lamport) =>
                        /\ Lists(E, f.changed, Len(f.changed), k, lamport)
                        /\ Changes(C, f.changed, Len(f.changed), SenderOf(tx))
                        /\ "Effects" \in options =>
                             \A o : <<"effects", o>> \in r.errors <=> <<"effects", o>> \in E.errs
                        /\ "ObjectChanges" \in options =>
                             \A o : <<"change", o>> \in r.errors <=> <<"change", o>> \in C.errs
<1> DEFINE r == ToInternalType(Masked(tx, ResponseReadMaskPaths(options)), options)
           f == tx["effects"]
           E == EffectsToInternalType(f)
           C == ToInternalObjectChanges(f, SenderOf(tx))
<1>1. Told
  BY DEF IInv
<1>2. f # Unset /\ f.lamport = lamport /\ tx["transaction.bcs"] \in {"user", "system"}
  BY <1>1, NilAssumption DEF Told
<1>3. Parts(r, tx, options)
  BY <1>2, ResponseParts
<1>4. ASSUME NEW k, Described(f.changed, k, before, store, lamport)
      PROVE  /\ Lists(E, f.changed, Len(f.changed), k, lamport)
             /\ Changes(C, f.changed, Len(f.changed), SenderOf(tx))
             /\ "Effects" \in options =>
                  \A o : <<"effects", o>> \in r.errors <=> <<"effects", o>> \in E.errs
             /\ "ObjectChanges" \in options =>
                  \A o : <<"change", o>> \in r.errors <=> <<"change", o>> \in C.errs
  <2>1. ObjectsFirst(f.changed, k) /\ WrittenOnce(f.changed)
    BY <1>4, DescribedObjectsFirst, DescribedOnce
  <2>2. Lists(E, f.changed, Len(f.changed), k, lamport)
    BY <1>2, <2>1, EffectsTold
  <2>3. Changes(C, f.changed, Len(f.changed), SenderOf(tx))
    BY <1>2, <2>1, ChangesTold
  <2>4. Lists(E, f.changed, Len(f.changed), k, f.lamport)
    BY <1>2, <2>2
  <2> HIDE DEF r
  <2> QED BY <1>3, <2>2, <2>3, <2>4, ErrorsTell
<1> QED BY <1>3, <1>4

(* A read brings the reader up to date, if it asks for effects. *)
LEMMA GetInv ==
  ASSUME IInv, NEW options, GetTransactionBlock(options)
  PROVE  IInv'
<1> DEFINE r == ToInternalType(Masked(tx, ResponseReadMaskPaths(options)), options)
           f == tx["effects"]
           L == f.changed
           E == EffectsToInternalType(f)
           first == "Effects" \in options /\ seen # lamport
<1>1. /\ resp' = r /\ opts' = options
      /\ view' = IF first THEN Replay(r) ELSE view
      /\ fundsView' = IF first THEN FoldLeft(FundsAfter, fundsView, r.effects["AccumulatorEvents"]) ELSE fundsView
      /\ seen' = IF first THEN lamport ELSE seen
      /\ store' = store /\ funds' = funds /\ before' = before /\ tx' = tx /\ lamport' = lamport
      /\ tx # Unset
  BY DEF GetTransactionBlock
<1>2. lamport # 0 /\ Told /\ Chain
  BY <1>1 DEF IInv
<1>3. PICK k \in 0..Len(L) :
        /\ Described(L, k, before, store, lamport)
        /\ seen # lamport => Follows(view, before) /\ funds = FundsTold(fundsView, L, k)
  BY <1>2 DEF Told
<1>4. /\ Parts(r, tx, options) /\ Lists(E, L, Len(L), k, lamport)
      /\ "Effects" \in options => \A o : <<"effects", o>> \in r.errors <=> <<"effects", o>> \in E.errs
  BY <1>2, <1>3, AnswerTold
<1> HIDE DEF r, E
<1>5. "Effects" \in options => r.effects = E.effects
  BY <1>4 DEF Parts, E
<1>6. first => Follows(Replay(r), store)
  BY <1>2, <1>3, <1>4, <1>5, ReplayFollows DEF Chain
<1>7. first => FoldLeft(FundsAfter, fundsView, r.effects["AccumulatorEvents"]) = funds
  <2>1. FoldLeft(FundsAfter, fundsView, E.effects["AccumulatorEvents"]) = FundsTold(fundsView, L, k)
    BY <1>3, <1>4, ReplayFunds
  <2> QED BY <1>3, <1>5, <2>1
<1>8. seen' = lamport' => Follows(view', store') /\ fundsView' = funds'
  <2>1. CASE first
    BY <1>1, <1>6, <1>7, <2>1
  <2>2. CASE ~ first
    BY <1>1, <2>2 DEF IInv
  <2> QED BY <2>1, <2>2
<1>9. Chain'
  BY <1>1, <1>2 DEF Chain
<1>10. seen' # lamport' => ~ first /\ view' = view /\ fundsView' = fundsView /\ seen # lamport
  BY <1>1
<1>11. Told'
  <2>1. \E j \in 0..Len(tx'["effects"].changed) :
          /\ Described(tx'["effects"].changed, j, before', store', lamport')
          /\ seen' # lamport' => /\ Follows(view', before')
                                 /\ funds' = FundsTold(fundsView', tx'["effects"].changed, j)
    BY <1>1, <1>3, <1>10
  <2> QED BY <1>1, <1>2, <2>1 DEF Told
<1>12. resp' = Answer'
  BY <1>1 DEF Answer, r
<1> QED BY <1>1, <1>2, <1>8, <1>9, <1>11, <1>12 DEF IInv

(* A failed read and a step of others change nothing the invariant speaks   *)
(* of but the response.                                                     *)
LEMMA OthersInv ==
  ASSUME IInv, UNCHANGED <<store, funds, before, tx, lamport, view, fundsView, seen>>,
         resp' = Unset \/ UNCHANGED <<resp, opts>>
  PROVE  IInv'
<1>1. Chain'
  BY DEF IInv, Chain
<1>2. Told => Told'
  BY DEF Told
<1>3. UNCHANGED <<resp, opts>> => Answer' = Answer
  BY DEF Answer
<1> QED BY <1>1, <1>2, <1>3 DEF IInv

(* The chain and what the node and the last response tell of it, and the    *)
(* picture of a reader that is up to date or one transaction behind.        *)
THEOREM Inductive == Spec => []IInv
<1>1. Init => IInv
  BY InitInv
<1>2. IInv /\ [Next]_vars => IInv'
  <2> SUFFICES ASSUME IInv, [Next]_vars PROVE IInv'
    OBVIOUS
  <2>1. ASSUME NEW S \in SUBSET Ids, NEW moves \in [S -> {"live", "wrapped", "deleted"}],
               NEW bcs \in {"user", "system"}, NEW owner \in Owners,
               NEW writes \in {<<>>} \cup {<<w>> : w \in Writes}, NEW events \in EventLists,
               Execute(bcs, moves, owner, writes, events)
        PROVE  IInv'
    BY <2>1, ExecuteInv
  <2>2. ASSUME NEW options \in OptionSets, GetTransactionBlock(options) PROVE IInv'
    BY <2>2, GetInv
  <2>3. CASE GetTransactionBlockFails
    BY <2>3, OthersInv DEF GetTransactionBlockFails
  <2>4. CASE UNCHANGED vars
    BY <2>4, OthersInv DEF vars
  <2> QED BY <2>1, <2>2, <2>3, <2>4 DEF Next
<1> QED BY <1>1, <1>2, PTL DEF Spec

(* ViewFollowsChain: a reader that replays the effects of each transaction  *)
(* keeps a right picture, for any number of objects and transactions.       *)
THEOREM ViewsFollow == Spec => []ViewFollowsChain
<1>1. IInv => ViewFollowsChain
  BY DEF IInv, ViewFollowsChain, Follows
<1> QED BY <1>1, Inductive, PTL

(* ChangesTellWrites: the object changes of a response are the objects that *)
(* its transaction created, mutated and published.                          *)
THEOREM ChangesAreWrites == Spec => []ChangesTellWrites
<1>1. IInv => ChangesTellWrites
  <2> SUFFICES ASSUME IInv, resp # Unset, "ObjectChanges" \in opts
               PROVE  TellsWrites(resp.objectChanges, {o \in Ids : <<"change", o>> \in resp.errors}, Sender)
    BY DEF ChangesTellWrites, TellsWrites
  <2> DEFINE f == tx["effects"]
             C == ToInternalObjectChanges(f, SenderOf(tx))
  <2>1. lamport # 0 /\ resp = Answer /\ Told /\ Chain
    BY DEF IInv
  <2>2. PICK k \in 0..Len(f.changed) : Described(f.changed, k, before, store, lamport)
    BY <2>1 DEF Told
  <2>3. /\ Parts(resp, tx, opts) /\ Changes(C, f.changed, Len(f.changed), SenderOf(tx))
        /\ \A o : <<"change", o>> \in resp.errors <=> <<"change", o>> \in C.errs
    BY <2>1, <2>2, AnswerTold DEF Answer
  <2>4. resp.objectChanges = C.changes
    BY <2>3 DEF Parts
  <2>5. Sender = SenderOf(tx)
    BY DEF Sender, SenderOf
  <2> HIDE DEF C, f
  <2>6. TellsWrites(C.changes, {o \in Ids : <<"change", o>> \in C.errs}, SenderOf(tx))
    BY <2>1, <2>2, <2>3, ChangesTell
  <2>7. {o \in Ids : <<"change", o>> \in resp.errors} = {o \in Ids : <<"change", o>> \in C.errs}
    BY <2>3
  <2> QED BY <2>4, <2>5, <2>6, <2>7
<1> QED BY <1>1, Inductive, PTL
-----------------------------------------------------------------------------
(***************************************************************************)
(* Nothing that was asked for is nil.                                      *)
(***************************************************************************)
(* Entries whose accumulator writes have a payload. *)
Sound == {e \in Entries : e.output = "ACCUMULATOR_WRITE" => e.write \in Writes}

(* Results of the fold, with their types. *)
Results ==
  {v \in [effects : ToldEffects, errs : SUBSET ({"effects", "gas"} \X (Ids \cup {"accumulator"}))] :
     \A b \in Buckets : v.effects[b] \in Seq(References)}

(* A typed result has the fields of a result. *)
LEMMA ResultsShaped ==
  ASSUME NEW v \in Results
  PROVE  Shaped(v)
<1>1. v \in [effects : ToldEffects, errs : SUBSET ({"effects", "gas"} \X (Ids \cup {"accumulator"}))]
  BY DEF Results
<1>2. v = [effects |-> v.effects, errs |-> v.errs] /\ v.effects \in ToldEffects
  BY <1>1
<1>3. v.effects = [b \in Buckets \cup {"Status"} |-> v.effects[b]]
  BY <1>2 DEF ToldEffects
<1> QED BY <1>2, <1>3 DEF Shaped

(* A result from its parts. *)
LEMMA ResultFrom ==
  ASSUME NEW v, Shaped(v), v.errs \subseteq {"effects", "gas"} \X (Ids \cup {"accumulator"}),
         \A b \in Buckets : v.effects[b] \in Seq(References),
         v.effects["Status"] \in Seq(References) \cup [status : {"success"}, error : {""}]
  PROVE  v \in Results
<1> DEFINE D == Buckets \cup {"Status"}
           T == Seq(References) \cup [status : {"success"}, error : {""}]
<1>1. \A b \in D : v.effects[b] \in T
  OBVIOUS
<1> HIDE DEF D, T
<1>2. v.effects = [b \in D |-> v.effects[b]]
  BY DEF Shaped, D
<1>3. v.effects \in [D -> T]
  BY <1>1, <1>2
<1>4. v.effects \in ToldEffects
  BY <1>3 DEF ToldEffects, D, T
<1>5. v = [effects |-> v.effects, errs |-> v.errs]
  BY DEF Shaped
<1>6. v \in [effects : ToldEffects, errs : SUBSET ({"effects", "gas"} \X (Ids \cup {"accumulator"}))]
  BY <1>4, <1>5
<1> QED BY <1>6 DEF Results

(* What the type of a result says of its parts. *)
LEMMA ResultsStatus ==
  ASSUME NEW v \in Results
  PROVE  /\ v.effects["Status"] \in Seq(References) \cup [status : {"success"}, error : {""}]
         /\ v.effects \in ToldEffects /\ \A b \in Buckets : v.effects[b] \in Seq(References)
         /\ v.errs \subseteq {"effects", "gas"} \X (Ids \cup {"accumulator"})
BY DEF Results, ToldEffects
(* The payload of an accumulator write. *)
LEMMA WritesTyped ==
  ASSUME NEW a \in Writes
  PROVE  a.operation \in {"Merge", "Split", ""} /\ a.value \in Nat
<1>1. CASE a = [operation |-> "Merge", value |-> 1]
  BY <1>1
<1>2. CASE a = [operation |-> "Split", value |-> 1]
  BY <1>2
<1>3. CASE a = [operation |-> "", value |-> 0]
  BY <1>3
<1> QED BY <1>1, <1>2, <1>3 DEF Writes

(* References have their type. *)
LEMMA ReferenceTypes ==
  ASSUME NEW e \in Entries
  PROVE  /\ OwnedObjectRef(e).owner # "error" => OwnedObjectRef(e) \in References
         /\ \A n \in Nat : MarkerObjectRef(e, n) \in References
         /\ e.write \in Writes => AccumulatorEvent(e) \in References
<1>1. e.id \in Ids \cup {"accumulator"} /\ e.version \in Nat
  BY DEF Entries
<1>2. ToInternalOwner(e.owner) \in {"AddressOwner", "ObjectOwner", "Shared", "Immutable", "zero", "error"}
  BY DEF ToInternalOwner
<1>3. OwnedObjectRef(e).owner # "error" => OwnedObjectRef(e) \in References
  <2>1. OwnedObjectRef(e) = [id |-> e.id, version |-> e.version, owner |-> ToInternalOwner(e.owner)]
        /\ OwnedObjectRef(e).owner = ToInternalOwner(e.owner)
    BY DEF OwnedObjectRef
  <2> QED BY <1>1, <1>2, <2>1 DEF References
<1>4. \A n \in Nat : MarkerObjectRef(e, n) \in References
  BY <1>1 DEF MarkerObjectRef, References
<1>5. ASSUME e.write \in Writes PROVE AccumulatorEvent(e) \in References
  <2>1. e.write.operation \in {"Merge", "Split", ""} /\ e.write.value \in Nat
    BY <1>5, WritesTyped
  <2> QED BY <1>1, <2>1 DEF AccumulatorEvent, References
<1> QED BY <1>3, <1>4, <1>5

(* A result with another list is a result. *)
LEMMA ResultsPut ==
  ASSUME NEW v \in Results, NEW b \in Buckets, NEW t \in Seq(References)
  PROVE  Put(v, b, t) \in Results
<1> DEFINE w == Put(v, b, t)
<1>1. /\ Shaped(v) /\ (\A c \in Buckets : v.effects[c] \in Seq(References))
      /\ v.effects["Status"] \in Seq(References) \cup [status : {"success"}, error : {""}]
      /\ v.errs \subseteq {"effects", "gas"} \X (Ids \cup {"accumulator"})
  BY ResultsShaped, ResultsStatus
<1>2. Shaped(v) /\ b \in Buckets
  BY <1>1
<1>3. /\ Shaped(w) /\ w.errs = v.errs
      /\ \A c \in Buckets : w.effects[c] = IF c = b THEN t ELSE v.effects[c]
      /\ w.effects["Status"] = v.effects["Status"]
  BY ONLY <1>2, PutFacts
<1> HIDE DEF w
<1>4. \A c \in Buckets : w.effects[c] \in Seq(References)
  BY <1>1, <1>3
<1>5. w \in Results
  BY <1>1, <1>3, <1>4, ResultFrom
<1> QED BY <1>5 DEF w

(* A result that takes in one more entry is a result. *)
LEMMA ResultsStep ==
  ASSUME NEW v \in Results, NEW e \in Sound, NEW version \in Nat
  PROVE  ApplyToInternalEffects(v, e, version) \in Results
<1> DEFINE w == ApplyToInternalEffects(v, e, version)
           bucket == BucketOf(e)
           Listed(x) == w = Put(v, bucket, Append(v.effects[bucket], x))
<1>1. /\ Shaped(v) /\ (\A b \in Buckets : v.effects[b] \in Seq(References))
      /\ v.effects["Status"] \in Seq(References) \cup [status : {"success"}, error : {""}]
      /\ v.errs \subseteq {"effects", "gas"} \X (Ids \cup {"accumulator"})
  BY ResultsShaped, ResultsStatus
<1>2. e \in Entries /\ e.id \in Ids \cup {"accumulator"}
  BY DEF Sound, Entries
<1>3. bucket \in Buckets \cup {"none"} /\ (bucket = "AccumulatorEvents" => e.output = "ACCUMULATOR_WRITE")
  BY DEF BucketOf, Buckets
<1>4. \/ w = v
      \/ w = PutErr(v, <<"effects", e.id>>)
      \/ bucket \in LiveBuckets /\ OwnedObjectRef(e).owner # "error" /\ Listed(OwnedObjectRef(e))
      \/ bucket = "AccumulatorEvents" /\ Listed(AccumulatorEvent(e))
      \/ bucket \in Buckets /\ Listed(MarkerObjectRef(e, version))
  BY <1>3 DEF ApplyToInternalEffects, LiveBuckets, Put, PutErr
<1> HIDE DEF w
<1>5. CASE w = PutErr(v, <<"effects", e.id>>)
  <2>1. Shaped(w) /\ w.effects = v.effects /\ w.errs = v.errs \cup {<<"effects", e.id>>}
    BY <1>1, <1>5, PutErrFacts
  <2>4. <<"effects", e.id>> \in {"effects", "gas"} \X (Ids \cup {"accumulator"})
    BY <1>2
  <2>2. w.errs \subseteq {"effects", "gas"} \X (Ids \cup {"accumulator"})
    <3> DEFINE R == {"effects", "gas"} \X (Ids \cup {"accumulator"})
               x == <<"effects", e.id>>
    <3>1. v.errs \subseteq R /\ x \in R /\ w.errs = v.errs \cup {x}
      BY <1>1, <2>1, <2>4
    <3> HIDE DEF R, x
    <3>2. w.errs \subseteq R
      BY <3>1
    <3> QED BY <3>2 DEF R
  <2>3. w \in Results
    BY <1>1, <2>1, <2>2, ResultFrom
  <2> QED BY <2>3 DEF w
<1>6. ASSUME NEW x \in References, bucket \in Buckets, Listed(x) PROVE w \in Results
  <2>1. v.effects[bucket] \in Seq(References)
    BY <1>1, <1>6
  <2>2. Append(v.effects[bucket], x) \in Seq(References)
    <3> DEFINE s == v.effects[bucket]
    <3>1. s \in Seq(References)
      BY <2>1
    <3> HIDE DEF s
    <3>2. Append(s, x) \in Seq(References)
      BY <3>1
    <3> QED BY <3>2 DEF s
  <2> HIDE DEF bucket
  <2> QED BY <1>6, <2>2, ResultsPut
<1>7. CASE bucket \in LiveBuckets /\ OwnedObjectRef(e).owner # "error" /\ Listed(OwnedObjectRef(e))
  <2>1. OwnedObjectRef(e) \in References /\ bucket \in Buckets
    BY <1>2, <1>7, ReferenceTypes DEF LiveBuckets, Buckets
  <2> HIDE DEF bucket
  <2>2. w \in Results
    BY <1>6, <1>7, <2>1
  <2> QED BY <2>2 DEF w
<1>8. CASE bucket = "AccumulatorEvents" /\ Listed(AccumulatorEvent(e))
  <2>1. AccumulatorEvent(e) \in References /\ bucket \in Buckets
    BY <1>2, <1>3, <1>8, ReferenceTypes DEF Sound, Buckets
  <2> HIDE DEF bucket
  <2>2. w \in Results
    BY <1>6, <1>8, <2>1
  <2> QED BY <2>2 DEF w
<1>9. CASE bucket \in Buckets /\ Listed(MarkerObjectRef(e, version))
  <2>1. MarkerObjectRef(e, version) \in References
    BY <1>2, ReferenceTypes
  <2> HIDE DEF bucket
  <2>2. w \in Results
    BY <1>6, <1>9, <2>1
  <2> QED BY <2>2 DEF w
<1>10. CASE w = v
  BY <1>10 DEF w
<1> QED BY <1>4, <1>5, <1>7, <1>8, <1>9, <1>10

(* The effects of a response have their type. *)
LEMMA EffectsTyped ==
  ASSUME NEW f \in Effects, f.changed \in Seq(Sound)
  PROVE  EffectsToInternalType(f).effects \in ToldEffects
<1> DEFINE gas == f.gasObject
           none == [effects |-> [b \in Buckets \cup {"Status"} |->
                                   IF b = "Status" THEN ToInternalStatus(f.status) ELSE <<>>],
                    errs |-> {}]
           start == CASE gas = Unset -> none
                      [] gas # Unset /\ OwnedObjectRef(gas).owner = "error" ->
                           [none EXCEPT !.errs = {<<"gas", gas.id>>}]
                      [] gas # Unset /\ OwnedObjectRef(gas).owner # "error" ->
                           [none EXCEPT !.effects["GasObject"] = <<OwnedObjectRef(gas)>>]
<1>1. EffectsToInternalType(f) = FE!Fold(start, f.lamport, f.changed)
  BY NilAssumption
     DEF EffectsToInternalType, FE!Fold, FoldLeft, MapThenFoldSet, FE!MapThenFoldSet, Max, FE!Max
<1>2. f.lamport \in Nat /\ f.status.success = "yes" /\ gas \in Entries \cup {Unset}
  BY DEF Effects
<1>3. /\ Shaped(none) /\ none.errs = {} /\ none.effects["Status"] = ToInternalStatus(f.status)
      /\ \A b \in Buckets : none.effects[b] = <<>>
  BY DEF Shaped, Buckets
<1>4. ToInternalStatus(f.status) \in [status : {"success"}, error : {""}]
  BY <1>2 DEF ToInternalStatus
<1>5. <<>> \in Seq(References)
  OBVIOUS
<1> HIDE DEF none
<1>6. none \in Results
  <2>1. \A b \in Buckets : none.effects[b] \in Seq(References)
    BY <1>3, <1>5
  <2>2. none.errs \subseteq {"effects", "gas"} \X (Ids \cup {"accumulator"})
    BY <1>3
  <2> QED BY <1>3, <1>4, <2>1, <2>2, ResultFrom
<1>7. start \in Results
  <2>1. CASE gas = Unset
    BY <1>6, <2>1
  <2>2. CASE gas # Unset /\ OwnedObjectRef(gas).owner = "error"
    <3>1. start = [none EXCEPT !.errs = {<<"gas", gas.id>>}]
      BY <2>2
    <3> HIDE DEF start
    <3>2. start = PutErr(none, <<"gas", gas.id>>)
      BY <1>3, <3>1 DEF PutErr
    <3>3. Shaped(start) /\ start.effects = none.effects /\ start.errs = {<<"gas", gas.id>>}
      BY <1>3, <3>2, PutErrFacts
    <3>4. gas.id \in Ids \cup {"accumulator"}
      BY <1>2, <2>2 DEF Entries
    <3>5. start.errs \subseteq {"effects", "gas"} \X (Ids \cup {"accumulator"})
      BY <3>3, <3>4
    <3>6. \A b \in Buckets : start.effects[b] \in Seq(References)
      BY <1>3, <1>5, <3>3
    <3>7. start.effects["Status"] \in [status : {"success"}, error : {""}]
      BY <1>3, <1>4, <3>3
    <3>8. start \in Results
      BY <3>3, <3>5, <3>6, <3>7, ResultFrom
    <3> QED BY <3>8 DEF start
  <2>3. CASE gas # Unset /\ OwnedObjectRef(gas).owner # "error"
    <3>1. start = Put(none, "GasObject", <<OwnedObjectRef(gas)>>)
      BY <2>3 DEF Put
    <3> HIDE DEF start
    <3>2. "GasObject" \in Buckets
      BY DEF Buckets
    <3>3. /\ Shaped(start) /\ start.errs = none.errs /\ start.effects["Status"] = none.effects["Status"]
          /\ \A c \in Buckets : start.effects[c] = IF c = "GasObject" THEN <<OwnedObjectRef(gas)>> ELSE none.effects[c]
      BY <1>3, <3>1, <3>2, PutFacts
    <3>4. OwnedObjectRef(gas) \in References
      BY <1>2, <2>3, ReferenceTypes
    <3>5. <<OwnedObjectRef(gas)>> \in Seq(References)
      BY <3>4
    <3>6. \A b \in Buckets : start.effects[b] \in Seq(References)
      BY <1>3, <1>5, <3>3, <3>5
    <3>7. start.errs \subseteq {"effects", "gas"} \X (Ids \cup {"accumulator"})
      BY <1>3, <3>3
    <3>8. start.effects["Status"] \in [status : {"success"}, error : {""}]
      BY <1>3, <1>4, <3>3
    <3>9. start \in Results
      BY <3>3, <3>6, <3>7, <3>8, ResultFrom
    <3> QED BY <3>9 DEF start
  <2> QED BY <2>1, <2>2, <2>3
<1> HIDE DEF start
<1>8. \A v \in Results, e \in Sound : ApplyToInternalEffects(v, e, f.lamport) \in Results
  BY <1>2, ResultsStep
<1>9. FE!Fold(start, f.lamport, f.changed) \in Results
  BY <1>7, <1>8, FEInduction, FE!FoldKeeps
<1> QED BY <1>1, <1>9, ResultsStatus

-----------------------------------------------------------------------------
(***************************************************************************)
(* Events and balance changes.                                             *)
(***************************************************************************)
(* The entries up to n that parse are told, with their numbers. *)
ParsedUpTo(out, list, n) ==
  /\ out \in ToldEvents
  /\ \A i \in 1..n : list[i] = "ok" => \E x \in ToSet(out) : x.seq = i - 1

(* One more event parsed, it is told. *)
LEMMA ParsedStep ==
  ASSUME NEW list \in Seq({"ok", "bad"}), NEW n \in Nat, n + 1 <= Len(list), NEW out, ParsedUpTo(out, list, n)
  PROVE  ParsedUpTo(AppendParsed(out, Indexed(list)[n + 1]), list, n + 1)
<1> DEFINE x == Indexed(list)[n + 1]
           w == AppendParsed(out, x)
<1>1. n + 1 \in DOMAIN list /\ \A i : i \in 1..(n + 1) <=> i \in 1..n \/ i = n + 1
  OBVIOUS
<1>2. x = [seq |-> n, entry |-> list[n + 1]]
  BY <1>1 DEF Indexed
<1>3. x.seq = n /\ x.entry = list[n + 1] /\ list[n + 1] \in {"ok", "bad"}
  BY <1>1, <1>2
<1>4. CASE list[n + 1] = "ok"
  <2>1. w = Append(out, x)
    BY <1>3, <1>4 DEF AppendParsed
  <2>2. x \in [seq : Nat, entry : {"ok"}]
    BY <1>2, <1>4
  <2>3. out \in Seq([seq : Nat, entry : {"ok"}])
    BY DEF ParsedUpTo, ToldEvents
  <2> HIDE DEF x
  <2>4. w \in ToldEvents
    BY <2>1, <2>2, <2>3 DEF ToldEvents
  <2>5. \A y : y \in ToSet(w) <=> y \in ToSet(out) \/ y = x
    BY <2>1, <2>3, SeqIsList, AppendFacts
  <2>6. ASSUME NEW i \in 1..(n + 1), list[i] = "ok" PROVE \E y \in ToSet(w) : y.seq = i - 1
    <3>1. CASE i \in 1..n
      BY <2>5, <2>6, <3>1 DEF ParsedUpTo
    <3>2. CASE i = n + 1
      BY <1>3, <2>5, <3>2
    <3> QED BY <1>1, <3>1, <3>2
  <2> HIDE DEF w
  <2>7. ParsedUpTo(w, list, n + 1)
    BY <2>4, <2>6 DEF ParsedUpTo
  <2> QED BY <2>7 DEF w, x
<1>5. CASE list[n + 1] = "bad"
  <2>1. w = out
    BY <1>3, <1>5 DEF AppendParsed
  <2> HIDE DEF w
  <2>2. ParsedUpTo(w, list, n + 1)
    BY <1>1, <1>5, <2>1 DEF ParsedUpTo
  <2> QED BY <2>2 DEF w
<1> QED BY <1>3, <1>4, <1>5

(* The events that parse are told, with their numbers. *)
LEMMA ParsedTold ==
  ASSUME NEW list \in Seq({"ok", "bad"})
  PROVE  ParsedUpTo(Parsed(list), list, Len(list))
<1> DEFINE s == Indexed(list)
           after(n) == FP!Fold(<<>>, 0, SubSeq(s, 1, n))
           K == {n \in Nat : n <= Len(list) => ParsedUpTo(after(n), list, n)}
<1>1. Parsed(list) = FP!Fold(<<>>, 0, s)
  BY DEF Parsed, FP!Fold, FoldLeft, MapThenFoldSet, FP!MapThenFoldSet, Max, FP!Max, AddParsed
<1>2. s \in Seq([seq : Int, entry : {"ok", "bad"}]) /\ Len(s) = Len(list) /\ Len(list) \in Nat
  <2> DEFINE T == [seq : Int, entry : {"ok", "bad"}]
  <2>1. s = [i \in 1..Len(list) |-> [seq |-> i - 1, entry |-> list[i]]] /\ Len(list) \in Nat
    BY DEF Indexed
  <2>2. \A i \in 1..Len(list) : [seq |-> i - 1, entry |-> list[i]] \in T
    OBVIOUS
  <2>3. s \in [1..Len(list) -> T]
    BY <2>1, <2>2
  <2> HIDE DEF s, T
  <2>4. s \in Seq(T) /\ Len(s) = Len(list)
    BY <2>1, <2>3
  <2> QED BY <2>1, <2>4 DEF T
<1> HIDE DEF s
<1>3. 0 \in K
  <2>1. SubSeq(s, 1, 0) = <<>>
    BY <1>2
  <2>2. after(0) = <<>>
    BY <2>1, FPInduction, FP!FoldEmpty
  <2>3. <<>> \in ToldEvents /\ \A i : i \notin 1..0
    BY DEF ToldEvents
  <2>4. ParsedUpTo(<<>>, list, 0)
    BY <2>3 DEF ParsedUpTo
  <2> QED BY <2>2, <2>4
<1>4. ASSUME NEW n \in Nat, n \in K PROVE n + 1 \in K
  <2> SUFFICES ASSUME n + 1 <= Len(list) PROVE ParsedUpTo(after(n + 1), list, n + 1)
    OBVIOUS
  <2>1. ParsedUpTo(after(n), list, n)
    BY <1>2, <1>4
  <2>2. after(n + 1) = AddParsed(after(n), s[n + 1], 0)
    BY <1>2, FPInduction, FP!FoldPrefix
  <2>3. after(n + 1) = AppendParsed(after(n), Indexed(list)[n + 1])
    BY <2>2 DEF AddParsed, s
  <2> HIDE DEF after
  <2> QED BY <2>1, <2>3, ParsedStep
<1> HIDE DEF K
<1>5. Nat \subseteq K
  BY <1>3, <1>4, SetInduction
<1>6. SubSeq(s, 1, Len(list)) = s
  BY <1>2
<1>7. ParsedUpTo(after(Len(list)), list, Len(list))
  BY <1>2, <1>5 DEF K
<1> QED BY <1>1, <1>6, <1>7
(* Events and balance changes: nil only if not asked for, and complete.     *)
Complete(list, what, asked, errors) ==
  \A i \in DOMAIN asked :
    IF asked[i] = "ok" THEN \E x \in ToSet(list) : x.seq = i - 1 ELSE <<what, i - 1>> \in errors

(* A converted list is not nil, and has or reports every entry. *)
LEMMA ListCompleted ==
  ASSUME NEW list \in Seq({"ok", "bad"}), NEW what
  PROVE  Parsed(list) # Unset /\ Complete(Parsed(list), what, list, Reported(what, list))
<1>1. Parsed(list) \in ToldEvents
      /\ \A i \in 1..Len(list) : list[i] = "ok" => \E x \in ToSet(Parsed(list)) : x.seq = i - 1
  BY ParsedTold DEF ParsedUpTo
<1>2. DOMAIN list = 1..Len(list)
  OBVIOUS
<1>3. \A i \in DOMAIN list : list[i] # "ok" => <<what, i - 1>> \in Reported(what, list)
  BY DEF Reported
<1> QED BY <1>1, <1>2, <1>3, NilAssumption DEF Complete

(* AskedIsAnswered: what a read asks for is in its response, or reported,   *)
(* and nothing else is.                                                     *)
THEOREM AskedAnswered == Spec => []AskedIsAnswered
<1>1. IInv => AskedIsAnswered
  <2> SUFFICES ASSUME IInv, resp # Unset PROVE AskedIsAnswered
    BY DEF AskedIsAnswered
  <2> DEFINE f == tx["effects"]
             L == f.changed
             E == EffectsToInternalType(f)
             evs == tx["events"]
             bls == tx["balance_changes"]
             V == EventsToInternalType(IF "Events" \in opts THEN evs ELSE Unset)
             B == BalanceChangesToInternal(IF "BalanceChanges" \in opts THEN bls ELSE Unset)
             signed == <<tx["transaction.bcs"], tx["signatures"]>>
             complete(list, what, asked) ==
               \A i \in DOMAIN asked :
                 IF asked[i] = "ok" THEN \E x \in ToSet(list) : x.seq = i - 1 ELSE <<what, i - 1>> \in resp.errors
  <2>1. lamport # 0 /\ resp = Answer /\ Told
    BY DEF IInv
  <2>2. PICK k \in 0..Len(L) : Described(L, k, before, store, lamport)
    BY <2>1 DEF Told
  <2>3. /\ f \in Effects /\ evs \in Seq({"ok", "bad"}) /\ bls = evs
        /\ tx["transaction.bcs"] \in {"user", "system"}
        /\ tx["digest"] = lamport /\ tx["checkpoint"] = lamport /\ tx["timestamp"] = lamport
    BY <2>1 DEF Told
  <2>4. Parts(resp, tx, opts)
    BY <2>1, AnswerTold DEF Answer
  <2>5. L \in Seq(Sound)
    <3>1. L \in Seq(Entries)
      BY <2>3 DEF Effects
    <3>2. ASSUME NEW i \in 1..Len(L) PROVE L[i] \in Sound
      <4>1. L[i] \in Entries /\ Len(L) \in Nat /\ k \in Nat
        BY <2>2, <3>1
      <4>2. CASE i \in 1..k
        <5>1. Describes(L[i], before, store, lamport)
          BY <2>2, <4>2 DEF Described
        <5>2. L[i].output # "ACCUMULATOR_WRITE"
          BY <5>1 DEF Describes
        <5> QED BY <4>1, <5>2 DEF Sound
      <4>3. CASE i \notin 1..k
        <5>1. Len(L) <= k + 1
          BY <2>2 DEF Described
        <5>2. Len(L) = k + 1 /\ i = k + 1
          BY <4>1, <4>3, <5>1
        <5>3. L[i].write \in Writes
          BY <2>2, <5>2 DEF Described
        <5> QED BY <4>1, <5>3 DEF Sound
      <4> QED BY <4>2, <4>3
    <3>3. L = [i \in 1..Len(L) |-> L[i]] /\ Len(L) \in Nat
      BY <3>1
    <3> HIDE DEF L
    <3> QED BY <3>2, <3>3
  <2>6. E.effects # Unset
    BY <2>3, <2>5, EffectsTyped, NilAssumption
  <2> HIDE DEF E, f
  <2>7. resp.digest = lamport /\ resp.checkpoint = lamport /\ resp.timestamp = lamport
    BY <2>3, <2>4 DEF Parts
  <2>8. resp.rawTransaction = IF "RawInput" \in opts THEN signed ELSE Unset
    BY <2>4 DEF Parts
  <2>9. \/ resp.transaction = IF "Input" \in opts THEN signed ELSE Unset
        \/ Sender = "zero" /\ <<"decode", 0>> \in resp.errors
    <3>1. resp.transaction = IF "Input" \in opts /\ tx["transaction.bcs"] # "system" THEN signed ELSE Unset
      BY <2>4 DEF Parts
    <3>2. "Input" \in opts /\ tx["transaction.bcs"] = "system" => <<"decode", 0>> \in resp.errors
      BY <2>4 DEF Parts
    <3> QED BY <3>1, <3>2 DEF Sender
  <2>10. resp.effects # Unset <=> "Effects" \in opts
    <3>1. resp.effects = IF "Effects" \in opts THEN E.effects ELSE Unset
      BY <2>4 DEF Parts, E, f
    <3> QED BY <2>6, <3>1
  <2>11. resp.objectChanges # <<>> => "ObjectChanges" \in opts
    BY <2>4 DEF Parts
  <2>12. /\ resp.events = V.out /\ resp.balanceChanges = B.out
         /\ V.errs \subseteq resp.errors /\ B.errs \subseteq resp.errors
    BY <2>4 DEF Parts
  <2>13. evs # Unset /\ bls # Unset
    BY <2>3, NilAssumption
  <2>14. resp.events # Unset <=> "Events" \in opts
    <3>1. CASE "Events" \in opts
      <4>1. V.out = Parsed(evs)
        BY <2>13, <3>1 DEF EventsToInternalType
      <4>2. Parsed(evs) # Unset
        BY <2>3, ListCompleted
      <4> QED BY <2>12, <3>1, <4>1, <4>2
    <3>2. CASE "Events" \notin opts
      <4>1. V.out = Unset
        BY <3>2 DEF EventsToInternalType
      <4> QED BY <2>12, <3>2, <4>1
    <3> QED BY <3>1, <3>2
  <2>15. "Events" \in opts => complete(resp.events, "event", evs)
    <3> SUFFICES ASSUME "Events" \in opts PROVE complete(resp.events, "event", evs)
      OBVIOUS
    <3>1. V.out = Parsed(evs) /\ V.errs = Reported("event", evs)
      BY <2>13 DEF EventsToInternalType
    <3>2. Complete(Parsed(evs), "event", evs, Reported("event", evs))
      BY <2>3, ListCompleted
    <3> HIDE DEF V
    <3> QED BY <2>12, <3>1, <3>2 DEF Complete
  <2>16. resp.balanceChanges # Unset <=> "BalanceChanges" \in opts /\ evs # <<>>
    <3>1. CASE "BalanceChanges" \in opts /\ evs # <<>>
      <4>1. B.out = Parsed(bls)
        BY <2>3, <2>13, <3>1 DEF BalanceChangesToInternal
      <4>2. Parsed(bls) # Unset
        BY <2>3, ListCompleted
      <4> QED BY <2>12, <3>1, <4>1, <4>2
    <3>2. CASE ~ ("BalanceChanges" \in opts /\ evs # <<>>)
      <4>1. B.out = Unset
        BY <2>3, <3>2 DEF BalanceChangesToInternal
      <4> QED BY <2>12, <3>2, <4>1
    <3> QED BY <3>1, <3>2
  <2>17. resp.balanceChanges # Unset => complete(resp.balanceChanges, "balance", bls)
    <3> SUFFICES ASSUME "BalanceChanges" \in opts, evs # <<>> PROVE complete(resp.balanceChanges, "balance", bls)
      BY <2>16
    <3>1. B.out = Parsed(bls) /\ B.errs = Reported("balance", bls)
      BY <2>3, <2>13 DEF BalanceChangesToInternal
    <3>2. Complete(Parsed(bls), "balance", bls, Reported("balance", bls))
      BY <2>3, ListCompleted
    <3> HIDE DEF B
    <3> QED BY <2>12, <3>1, <3>2 DEF Complete
  <2> QED BY <2>7, <2>8, <2>9, <2>10, <2>11, <2>14, <2>15, <2>16, <2>17 DEF AskedIsAnswered
<1> QED BY <1>1, Inductive, PTL
=============================================================================
