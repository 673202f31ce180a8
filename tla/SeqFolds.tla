------------------------------ MODULE SeqFolds ------------------------------
(***************************************************************************)
(* What FoldLeft of the community module SequencesExt computes, for any    *)
(* operator op(value, element, p), where p is the same at every step, and  *)
(* any base, proved by induction over the length of the sequence.  A       *)
(* module that folds instantiates this one with its operator, once for     *)
(* each, so that it extends little: Fold is spelled as FoldLeft is defined *)
(* and the module that instantiates proves that its FoldLeft is this Fold  *)
(* from the two definitions; and Induction is a hypothesis here, which     *)
(* that module proves from the library's WellFoundedInduction.             *)
(***************************************************************************)
EXTENDS Integers, Sequences, Folds, TLAPS

CONSTANT op(_, _, _)

Max(S) == CHOOSE x \in S : \A y \in S : x >= y

Fold(base, p, s) ==
  MapThenFoldSet(LAMBDA e, v : op(v, e, p), base, LAMBDA i : s[i], LAMBDA S : Max(S), DOMAIN s)

(* Induction over the natural numbers, for sets. *)
Induction ==
  \A S : 0 \in S /\ (\A n \in Nat : n \in S => n + 1 \in S) => Nat \subseteq S

-----------------------------------------------------------------------------
(***************************************************************************)
(* The function by which FoldLeft is defined.                              *)
(***************************************************************************)
StepsOver(base, p, D, s, f) ==
  [S \in SUBSET D |-> IF S = {} THEN base ELSE op(f[S \ {Max(S)}], s[Max(S)], p)]

Steps(base, p, s) == CHOOSE f : f = StepsOver(base, p, DOMAIN s, s, f)

(* FoldLeft takes the last of these steps. *)
LEMMA FoldIsSteps ==
  ASSUME NEW base, NEW p, NEW s
  PROVE  Fold(base, p, s) = Steps(base, p, s)[DOMAIN s]
BY DEF Fold, MapThenFoldSet, Steps, StepsOver

(* The greatest place of a set that has n + 1 and nothing above it. *)
LEMMA MaxAtEnd ==
  ASSUME NEW n \in Nat, NEW S \in SUBSET (1..(n + 1)), n + 1 \in S
  PROVE  Max(S) = n + 1
<1>1. \A y \in S : y \in Int /\ n + 1 >= y
  OBVIOUS
<1>2. \A x \in S : (\A y \in S : x >= y) => x = n + 1
  BY <1>1
<1> QED BY <1>1, <1>2 DEF Max

(* It exists for every length. *)
LEMMA StepsExist ==
  ASSUME Induction, NEW base, NEW p, NEW s, NEW n \in Nat
  PROVE  \E f : f = StepsOver(base, p, 1..n, s, f)
<1> DEFINE K == {k \in Nat : \E f : f = StepsOver(base, p, 1..k, s, f)}
<1>1. 0 \in K
  <2> DEFINE f == [S \in SUBSET (1..0) |-> base]
  <2>1. 1..0 = {}
    OBVIOUS
  <2>2. f = StepsOver(base, p, 1..0, s, f)
    BY <2>1 DEF StepsOver
  <2> HIDE DEF f
  <2> QED BY <2>2
<1>2. ASSUME NEW k \in Nat, k \in K PROVE k + 1 \in K
  <2>1. PICK f : f = StepsOver(base, p, 1..k, s, f)
    BY <1>2
  <2> DEFINE g == [S \in SUBSET (1..(k + 1)) |-> IF k + 1 \in S THEN op(f[S \ {k + 1}], s[k + 1], p) ELSE f[S]]
  <2>2. \A S \in SUBSET (1..k) : S \in SUBSET (1..(k + 1)) /\ k + 1 \notin S
    OBVIOUS
  <2>3. \A S \in SUBSET (1..k) : f[S] = IF S = {} THEN base ELSE op(f[S \ {Max(S)}], s[Max(S)], p)
    BY <2>1 DEF StepsOver
  <2>4. \A S \in SUBSET (1..k) : g[S] = f[S]
    BY <2>2
  <2>5. \A S \in SUBSET (1..(k + 1)) : k + 1 \in S => g[S] = op(f[S \ {k + 1}], s[k + 1], p)
    OBVIOUS
  <2>6. g = [S \in SUBSET (1..(k + 1)) |-> g[S]]
    OBVIOUS
  <2> HIDE DEF g
  <2>7. ASSUME NEW S \in SUBSET (1..(k + 1))
        PROVE  g[S] = IF S = {} THEN base ELSE op(g[S \ {Max(S)}], s[Max(S)], p)
    <3>1. CASE k + 1 \in S
      <4>1. Max(S) = k + 1 /\ S # {} /\ S \ {k + 1} \in SUBSET (1..k)
        BY <3>1, MaxAtEnd
      <4> QED BY <2>4, <2>5, <3>1, <4>1
    <3>2. CASE k + 1 \notin S
      <4>1. S \subseteq 1..k
        <5> SUFFICES ASSUME NEW x \in S PROVE x \in 1..k
          OBVIOUS
        <5>1. x \in 1..(k + 1) /\ x # k + 1
          BY <3>2
        <5> QED BY <5>1
      <4>2. S \in SUBSET (1..k) /\ S \ {Max(S)} \in SUBSET (1..k)
        BY <4>1
      <4> QED BY <2>3, <2>4, <4>2
    <3> QED BY <3>1, <3>2
  <2>8. g = StepsOver(base, p, 1..(k + 1), s, g)
    BY <2>6, <2>7 DEF StepsOver
  <2> QED BY <2>8
<1> HIDE DEF K
<1>3. Nat \subseteq K
  BY <1>1, <1>2 DEF Induction
<1> QED BY <1>3 DEF K

(* It takes the elements one after the other. *)
LEMMA StepsTaken ==
  ASSUME Induction, NEW base, NEW p, NEW T, NEW s \in Seq(T)
  PROVE  /\ Steps(base, p, s)[1..0] = base
         /\ \A n \in Nat : n + 1 <= Len(s) => Steps(base, p, s)[1..(n + 1)] = op(Steps(base, p, s)[1..n], s[n + 1], p)
<1>1. DOMAIN s = 1..Len(s) /\ Len(s) \in Nat
  OBVIOUS
<1>2. Steps(base, p, s) = StepsOver(base, p, 1..Len(s), s, Steps(base, p, s))
  <2>1. \E f : f = StepsOver(base, p, 1..Len(s), s, f)
    BY <1>1, StepsExist
  <2> QED BY <1>1, <2>1 DEF Steps
<1>3. \A S \in SUBSET (1..Len(s)) :
        Steps(base, p, s)[S] = IF S = {} THEN base ELSE op(Steps(base, p, s)[S \ {Max(S)}], s[Max(S)], p)
  BY <1>2 DEF StepsOver
<1>4. Steps(base, p, s)[1..0] = base
  <2>1. 1..0 = {} /\ 1..0 \in SUBSET (1..Len(s))
    OBVIOUS
  <2> QED BY <1>3, <2>1
<1>5. ASSUME NEW n \in Nat, n + 1 <= Len(s)
      PROVE  Steps(base, p, s)[1..(n + 1)] = op(Steps(base, p, s)[1..n], s[n + 1], p)
  <2>1. n + 1 \in 1..(n + 1)
    OBVIOUS
  <2>4. 1..(n + 1) \subseteq 1..Len(s)
    <3> SUFFICES ASSUME NEW x \in 1..(n + 1) PROVE x \in 1..Len(s)
      OBVIOUS
    <3>1. x \in Int /\ 1 <= x /\ x <= n + 1
      OBVIOUS
    <3> QED BY <1>1, <1>5, <3>1
  <2>2. Max(1..(n + 1)) = n + 1
    BY <2>1, MaxAtEnd
  <2>3. (1..(n + 1)) \ {n + 1} = 1..n
    OBVIOUS
  <2>5. 1..(n + 1) # {}
    BY <2>1
  <2> QED BY <1>3, <2>2, <2>3, <2>4, <2>5
<1> QED BY <1>4, <1>5

(* What it is after n elements depends on these only. *)
LEMMA StepsOfPrefix ==
  ASSUME Induction, NEW base, NEW p, NEW T, NEW s \in Seq(T), NEW t \in Seq(T), NEW n \in Nat, n <= Len(s), n <= Len(t),
         \A i \in 1..n : s[i] = t[i]
  PROVE  Steps(base, p, s)[1..n] = Steps(base, p, t)[1..n]
<1> DEFINE K == {k \in Nat : k <= n => Steps(base, p, s)[1..k] = Steps(base, p, t)[1..k]}
<1>1. 0 \in K
  BY StepsTaken
<1>2. ASSUME NEW k \in Nat, k \in K PROVE k + 1 \in K
  <2>1. SUFFICES ASSUME k + 1 <= n PROVE Steps(base, p, s)[1..(k + 1)] = Steps(base, p, t)[1..(k + 1)]
    OBVIOUS
  <2>2. k <= n /\ k + 1 <= Len(s) /\ k + 1 <= Len(t) /\ k + 1 \in 1..n
    BY <2>1
  <2>3. /\ Steps(base, p, s)[1..(k + 1)] = op(Steps(base, p, s)[1..k], s[k + 1], p)
        /\ Steps(base, p, t)[1..(k + 1)] = op(Steps(base, p, t)[1..k], t[k + 1], p)
    BY <2>2, StepsTaken
  <2>4. Steps(base, p, s)[1..k] = Steps(base, p, t)[1..k] /\ s[k + 1] = t[k + 1]
    BY <1>2, <2>2
  <2> QED BY <2>3, <2>4
<1> HIDE DEF K
<1>3. Nat \subseteq K
  BY <1>1, <1>2 DEF Induction
<1> QED BY <1>3 DEF K

-----------------------------------------------------------------------------
(***************************************************************************)
(* The results.                                                            *)
(***************************************************************************)
(* FoldLeft of the empty sequence is the base; each element is taken after  *)
(* the ones before it.                                                      *)
THEOREM FoldEmpty ==
  ASSUME Induction, NEW base, NEW p
  PROVE  Fold(base, p, <<>>) = base
<1>1. <<>> \in Seq({}) /\ DOMAIN <<>> = 1..0
  OBVIOUS
<1> QED BY <1>1, FoldIsSteps, StepsTaken

(* Folding a prefix that is one element longer takes one more step. *)
THEOREM FoldPrefix ==
  ASSUME Induction, NEW base, NEW p, NEW T, NEW s \in Seq(T), NEW n \in Nat, n + 1 <= Len(s)
  PROVE  Fold(base, p, SubSeq(s, 1, n + 1)) = op(Fold(base, p, SubSeq(s, 1, n)), s[n + 1], p)
<1> DEFINE a == SubSeq(s, 1, n)
           b == SubSeq(s, 1, n + 1)
<1>1. a \in Seq(T) /\ Len(a) = n /\ DOMAIN a = 1..n /\ \A i \in 1..n : a[i] = s[i]
  OBVIOUS
<1>2. b \in Seq(T) /\ Len(b) = n + 1 /\ DOMAIN b = 1..(n + 1) /\ \A i \in 1..(n + 1) : b[i] = s[i]
  OBVIOUS
<1> HIDE DEF a, b
<1>3. Fold(base, p, b) = Steps(base, p, b)[1..(n + 1)] /\ Fold(base, p, a) = Steps(base, p, a)[1..n]
  BY <1>1, <1>2, FoldIsSteps
<1>4. Steps(base, p, b)[1..(n + 1)] = op(Steps(base, p, b)[1..n], b[n + 1], p)
  BY <1>2, StepsTaken
<1>5. Steps(base, p, b)[1..n] = Steps(base, p, a)[1..n]
  <2>1. n <= Len(b) /\ n <= Len(a) /\ \A i \in 1..n : b[i] = a[i]
    BY <1>1, <1>2
  <2> QED BY <1>1, <1>2, <2>1, StepsOfPrefix
<1>6. b[n + 1] = s[n + 1]
  BY <1>2
<1> QED BY <1>3, <1>4, <1>5, <1>6 DEF a, b

(* Folding a sequence with one more element at its end takes one more step. *)
THEOREM FoldAppend ==
  ASSUME Induction, NEW base, NEW p, NEW T, NEW s \in Seq(T), NEW e \in T
  PROVE  Fold(base, p, Append(s, e)) = op(Fold(base, p, s), e, p)
<1> DEFINE t == Append(s, e)
<1>1. t \in Seq(T) /\ Len(t) = Len(s) + 1 /\ t[Len(s) + 1] = e /\ Len(s) \in Nat
  OBVIOUS
<1>2. SubSeq(t, 1, Len(s)) = s /\ SubSeq(t, 1, Len(s) + 1) = t
  OBVIOUS
<1> HIDE DEF t
<1>3. Fold(base, p, SubSeq(t, 1, Len(s) + 1)) = op(Fold(base, p, SubSeq(t, 1, Len(s))), t[Len(s) + 1], p)
  BY <1>1, FoldPrefix
<1> QED BY <1>1, <1>2, <1>3 DEF t

(* What holds of the base and is kept by op holds of the fold. *)
THEOREM FoldKeeps ==
  ASSUME Induction, NEW base, NEW p, NEW T, NEW s \in Seq(T), NEW I, base \in I, \A v \in I, e \in T : op(v, e, p) \in I
  PROVE  Fold(base, p, s) \in I
<1> DEFINE K == {k \in Nat : k <= Len(s) => Fold(base, p, SubSeq(s, 1, k)) \in I}
<1>1. 0 \in K
  <2>1. SubSeq(s, 1, 0) = <<>>
    OBVIOUS
  <2> QED BY <2>1, FoldEmpty
<1>2. ASSUME NEW k \in Nat, k \in K PROVE k + 1 \in K
  <2>1. SUFFICES ASSUME k + 1 <= Len(s) PROVE Fold(base, p, SubSeq(s, 1, k + 1)) \in I
    OBVIOUS
  <2>2. Fold(base, p, SubSeq(s, 1, k)) \in I /\ s[k + 1] \in T
    BY <1>2, <2>1
  <2> QED BY <2>1, <2>2, FoldPrefix
<1> HIDE DEF K
<1>3. Nat \subseteq K
  BY <1>1, <1>2 DEF Induction
<1>4. SubSeq(s, 1, Len(s)) = s /\ Len(s) \in Nat
  OBVIOUS
<1>5. Len(s) <= Len(s)
  BY <1>4
<1>6. Len(s) \in K
  BY <1>3, <1>4
<1>7. Fold(base, p, SubSeq(s, 1, Len(s))) \in I
  BY <1>5, <1>6 DEF K
<1> QED BY <1>4, <1>7
=============================================================================
