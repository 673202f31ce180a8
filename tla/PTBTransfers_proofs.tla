------------------------ MODULE PTBTransfers_proofs ------------------------
(***************************************************************************)
(* Proofs about PTBTransfers, for every set of addresses, every coin and   *)
(* balance and every sequence of calls.                                    *)
(*                                                                         *)
(* The argument has four layers.  A builder that the methods have written  *)
(* to is Sound: its map and its order agree and each key holds its kind of *)
(* value.  A builder whose commands execute is Live; Run is the machine of *)
(* MoveExec after its last command, and a builder that grows runs as       *)
(* before, with more places (frame lemmas).  Each method is then what it   *)
(* does to Run: it delivers an amount, draws it from a coin, or leaves a   *)
(* coin at an input.  The inductive invariant says that between two calls  *)
(* the builder is Settled, and that what Run has delivered is promised.    *)
(***************************************************************************)
EXTENDS PTBTransfers, FiniteSetTheorems, SequenceTheorems, WellFoundedInduction, TLAPS

(* A set of natural numbers that has 0 and with a number the next one has   *)
(* all of them: a least number outside it would be neither.                 *)
LEMMA SetInduction ==
  ASSUME NEW S, 0 \in S, \A n \in Nat : n \in S => n + 1 \in S
  PROVE  Nat \subseteq S
<1> DEFINE R == {ss \in Nat \X Nat : ss[1] < ss[2]}
<1> SUFFICES ASSUME Nat \ S # {} PROVE FALSE
  OBVIOUS
<1>1. IsWellFoundedOn(R, Nat)
  BY NatLessThanWellFounded DEF OpToRel
<1> HIDE DEF R
<1>2. PICK m \in Nat \ S : \A n \in Nat \ S : ~ (<<n, m>> \in R)
  BY <1>1, WFMin
<1>3. m # 0 /\ m - 1 \in Nat /\ m - 1 < m
  BY <1>2
<1>4. <<m - 1, m>> \in R
  BY <1>3 DEF R
<1>5. m - 1 \in S
  BY <1>2, <1>3, <1>4
<1> QED BY <1>2, <1>3, <1>5

(***************************************************************************)
(* What a builder looks like.                                              *)
(***************************************************************************)
(* Pure values: recipients and amounts. *)
PureValues == Addresses \cup Nat

(* Each kind of key holds its kind of value; the names of withdrawals are   *)
(* below the number n of inputs.                                            *)
KeyHolds(k, v, n) ==
  \/ \E id \in DOMAIN CoinBalance : k = ObjectKey(id) /\ v = ObjectCallArg(OwnedObject(id))
  \/ \E x \in PureValues : k = PureKey(x) /\ v = PureArg(x)
  \/ \E i \in 0..(n - 1), w \in Nat : k = ForcedKey(i) /\ v = WithdrawalArg(w)

IsSeq(s) == s \in Seq({s[i] : i \in DOMAIN s})

(* Map and order of the keys agree, and each key holds what it should. *)
Sound(B) ==
  /\ B = [inputs |-> B.inputs, order |-> B.order, commands |-> B.commands]
  /\ B.order \in Seq(DOMAIN B.inputs)
  /\ IsFiniteSet(DOMAIN B.inputs) /\ Cardinality(DOMAIN B.inputs) = Len(B.order)
  /\ \A i, j \in DOMAIN B.order : B.order[i] = B.order[j] => i = j
  /\ \A k \in DOMAIN B.inputs : \E i \in DOMAIN B.order : B.order[i] = k
  /\ \A k \in DOMAIN B.inputs : KeyHolds(k, B.inputs[k], Len(B.order))
  /\ IsSeq(B.commands)

(* The Argument of the input that is registered under key. *)
Slot(B, key) == InputArg(PositionOf(B.order, key))

(* C has the inputs and commands of B where they were, and maybe more. *)
Grows(B, C) ==
  /\ Len(B.order) <= Len(C.order) /\ \A i \in 1..Len(B.order) : C.order[i] = B.order[i]
  /\ DOMAIN B.inputs \subseteq DOMAIN C.inputs
  /\ \A k \in DOMAIN B.inputs : C.inputs[k] = B.inputs[k]
  /\ Len(B.commands) <= Len(C.commands)
  /\ \A i \in 1..Len(B.commands) : C.commands[i] = B.commands[i]

(* r is the outcome of registering an input under key in B. *)
Adds(r, B, key) ==
  /\ r.err = "none"
  /\ Sound(r.b) /\ Grows(B, r.b)
  /\ DOMAIN r.b.inputs = DOMAIN B.inputs \cup {key}
  /\ r.b.commands = B.commands
  /\ Fits(r.b) => r.arg = Slot(r.b, key)

-----------------------------------------------------------------------------
(* A number below m is its own remainder. *)
LEMMA FitsU16 ==
  ASSUME NEW n \in Nat, NEW m \in Nat, n < m
  PROVE  n % m = n
  BY Z3

(* The domains of the two sequences of a builder. *)
LEMMA SoundFacts ==
  ASSUME NEW B, Sound(B)
  PROVE  /\ DOMAIN B.order = 1..Len(B.order) /\ Len(B.order) \in Nat
         /\ \A i \in 1..Len(B.order) : B.order[i] \in DOMAIN B.inputs
         /\ DOMAIN B.commands = 1..Len(B.commands) /\ Len(B.commands) \in Nat
BY DEF Sound, IsSeq

(* An input stands at its slot. *)
LEMMA SlotIs ==
  ASSUME NEW B, Sound(B), NEW i \in 1..Len(B.order)
  PROVE  Slot(B, B.order[i]) = InputArg(i - 1)
<1> DEFINE key == B.order[i]
           first(x) == /\ B.order[x] = key
                       /\ \A j \in DOMAIN B.order : B.order[j] = key => x <= j
           c == CHOOSE x \in DOMAIN B.order : first(x)
<1>1. \A j, k \in DOMAIN B.order : B.order[j] = B.order[k] => j = k
  BY DEF Sound
<1>2. DOMAIN B.order = 1..Len(B.order) /\ Len(B.order) \in Nat
  BY SoundFacts
<1>3. first(i) /\ i \in DOMAIN B.order
  BY <1>1, <1>2
<1>4. c \in DOMAIN B.order /\ first(c)
  BY <1>3
<1>5. c = i
  BY <1>1, <1>2, <1>4
<1>6. PositionOf(B.order, key) = c - 1
  BY DEF PositionOf
<1> QED BY <1>5, <1>6 DEF Slot

(* Every registered key has a position, and its slot is that position. *)
LEMMA SlotAt ==
  ASSUME NEW B, Sound(B), NEW key \in DOMAIN B.inputs
  PROVE  \E i \in 1..Len(B.order) : B.order[i] = key /\ Slot(B, key) = InputArg(i - 1)
<1>1. PICK i \in DOMAIN B.order : B.order[i] = key
  BY DEF Sound
<1> QED BY <1>1, SoundFacts, SlotIs

(* InputArg is injective. *)
LEMMA InputArgsDiffer ==
  ASSUME NEW i, NEW j, InputArg(i) = InputArg(j)
  PROVE  i = j
<1>1. InputArg(i)[2] = i /\ InputArg(j)[2] = j
  BY DEF InputArg
<1> QED BY <1>1

(* Different keys have different slots. *)
LEMMA SlotsDiffer ==
  ASSUME NEW B, Sound(B), NEW k \in DOMAIN B.inputs, NEW l \in DOMAIN B.inputs, Slot(B, k) = Slot(B, l)
  PROVE  k = l
<1>1. PICK i \in 1..Len(B.order) : B.order[i] = k /\ Slot(B, k) = InputArg(i - 1)
  BY SlotAt
<1>2. PICK j \in 1..Len(B.order) : B.order[j] = l /\ Slot(B, l) = InputArg(j - 1)
  BY SlotAt
<1>3. i - 1 = j - 1
  BY <1>1, <1>2, InputArgsDiffer
<1> QED BY <1>1, <1>2, <1>3, SoundFacts

(* A slot keeps its Argument. *)
LEMMA SlotKept ==
  ASSUME NEW B, NEW C, Sound(B), Sound(C), Grows(B, C), NEW key \in DOMAIN B.inputs
  PROVE  Slot(C, key) = Slot(B, key)
<1>1. PICK i \in 1..Len(B.order) : B.order[i] = key /\ Slot(B, key) = InputArg(i - 1)
  BY SlotAt
<1>2. i \in 1..Len(C.order) /\ C.order[i] = key
  BY <1>1, SoundFacts DEF Grows
<1> QED BY <1>1, <1>2, SlotIs

(* A builder grows into itself. *)
LEMMA GrowsSame ==
  ASSUME NEW B, Sound(B)
  PROVE  Grows(B, B)
BY SoundFacts DEF Grows

(* Growing twice is growing. *)
LEMMA GrowsOn ==
  ASSUME NEW B, NEW C, NEW D, Sound(B), Sound(C), Sound(D), Grows(B, C), Grows(C, D)
  PROVE  Grows(B, D)
<1>1. /\ Len(B.order) \in Nat /\ Len(C.order) \in Nat /\ Len(D.order) \in Nat
      /\ Len(B.commands) \in Nat /\ Len(C.commands) \in Nat /\ Len(D.commands) \in Nat
  BY SoundFacts
<1> QED BY <1>1 DEF Grows

(* The number of inputs and commands only grows. *)
LEMMA FitsBefore ==
  ASSUME NEW B, NEW C, Sound(B), Sound(C), Grows(B, C), Fits(C)
  PROVE  Fits(B)
BY U16Assumption, SoundFacts DEF Grows, Fits

(* insertFull with a key that is not known. *)
LEMMA InsertNew ==
  ASSUME NEW B, Sound(B), NEW key, NEW value, key \notin DOMAIN B.inputs,
         KeyHolds(key, value, Len(B.order) + 1)
  PROVE  /\ Adds(InsertFull(B, key, value), B, key)
         /\ InsertFull(B, key, value).b.inputs[key] = value
<1> DEFINE r == InsertFull(B, key, value)
           C == r.b
           keys == DOMAIN B.inputs
           n == Len(B.order)
<1>1. /\ B.order \in Seq(keys) /\ IsFiniteSet(keys) /\ Cardinality(keys) = n
      /\ \A i, j \in DOMAIN B.order : B.order[i] = B.order[j] => i = j
      /\ \A k \in keys : \E i \in DOMAIN B.order : B.order[i] = k
      /\ DOMAIN B.order = 1..n /\ n \in Nat
  BY SoundFacts DEF Sound
<1>2. /\ DOMAIN C.inputs = keys \cup {key}
      /\ C.inputs[key] = value
      /\ \A k \in keys : C.inputs[k] = B.inputs[k]
      /\ C.commands = B.commands
      /\ r.err = "none"
      /\ C = [inputs |-> C.inputs, order |-> C.order, commands |-> C.commands]
  BY DEF InsertFull, Outcome
<1>3. C.order = Append(B.order, key) /\ r.arg = InputArg(n % U16)
  BY DEF InsertFull, Outcome
<1> HIDE DEF r
<1>4. /\ C.order \in Seq(keys \cup {key})
      /\ Len(C.order) = n + 1
      /\ DOMAIN C.order = 1..(n + 1)
      /\ C.order[n + 1] = key
      /\ \A i \in 1..n : C.order[i] = B.order[i] /\ B.order[i] \in keys
  <2>1. B.order \in Seq(keys \cup {key})
    BY <1>1
  <2> QED
    BY <1>1, <1>3, <2>1
<1>5. /\ IsFiniteSet(keys \cup {key})
      /\ Cardinality(keys \cup {key}) = n + 1
  BY <1>1, FS_AddElement
<1>6. \A i, j \in DOMAIN C.order : C.order[i] = C.order[j] => i = j
  <2> SUFFICES ASSUME NEW i \in 1..(n + 1), NEW j \in 1..(n + 1), C.order[i] = C.order[j]
               PROVE  i = j
    BY <1>4
  <2>1. CASE i \in 1..n /\ j \in 1..n
    BY <1>1, <1>4, <2>1
  <2>2. CASE i \in 1..n /\ j = n + 1
    BY <1>4, <2>2
  <2>3. CASE i = n + 1 /\ j \in 1..n
    BY <1>4, <2>3
  <2>4. CASE i = n + 1 /\ j = n + 1
    BY <2>4
  <2> HIDE DEF n
  <2> QED
    BY <1>1, <2>1, <2>2, <2>3, <2>4
<1>7. \A k \in keys \cup {key} : \E i \in DOMAIN C.order : C.order[i] = k
  <2>1. ASSUME NEW k \in keys PROVE \E i \in DOMAIN C.order : C.order[i] = k
    <3>1. PICK i \in DOMAIN B.order : B.order[i] = k
      BY <1>1
    <3>2. i \in DOMAIN C.order /\ C.order[i] = k
      BY <1>1, <1>4, <3>1
    <3> QED
      BY <3>2
  <2>2. n + 1 \in DOMAIN C.order
    BY <1>1, <1>4
  <2> QED
    BY <1>4, <2>1, <2>2
<1>8. \A k \in DOMAIN C.inputs : KeyHolds(k, C.inputs[k], n + 1)
  <2>1. ASSUME NEW k \in keys PROVE KeyHolds(k, C.inputs[k], n + 1)
    <3>1. KeyHolds(k, C.inputs[k], n)
      BY <1>2 DEF Sound
    <3>2. \A i \in 0..(n - 1) : i \in 0..(n + 1 - 1)
      BY <1>1
    <3> QED BY <3>1, <3>2 DEF KeyHolds
  <2> QED BY <1>2, <2>1
<1>9. Sound(C)
  <2>1. IsSeq(C.commands)
    BY <1>2 DEF Sound
  <2> QED BY <1>2, <1>4, <1>5, <1>6, <1>7, <1>8, <2>1 DEF Sound
<1>10. Grows(B, C)
  BY <1>1, <1>2, <1>4, SoundFacts DEF Grows
<1>11. ASSUME Fits(C) PROVE r.arg = Slot(C, key)
  <2>1. n % U16 = n
    <3>1. n \in Nat /\ U16 \in Nat /\ n < U16
      BY <1>1, <1>4, <1>11, U16Assumption DEF Fits
    <3> QED BY <3>1, FitsU16
  <2>2. n + 1 \in 1..Len(C.order) /\ (n + 1) - 1 = n
    BY <1>1, <1>4
  <2>3. Slot(C, key) = InputArg(n)
    BY <1>4, <1>9, <2>2, SlotIs
  <2> QED BY <1>3, <2>1, <2>3
<1> QED BY <1>2, <1>9, <1>10, <1>11 DEF Adds, r

(* Pure *)
LEMMA PureAdds ==
  ASSUME NEW B, Sound(B), NEW x \in PureValues
  PROVE  Adds(Pure(B, x), B, PureKey(x))
<1> DEFINE key == PureKey(x)
           r == InsertFull(B, key, PureArg(x))
<1>1. Pure(B, x) = r
  BY DEF Pure, PureBytes
<1>2. CASE key \notin DOMAIN B.inputs
  <2>1. KeyHolds(key, PureArg(x), Len(B.order) + 1)
    BY DEF KeyHolds
  <2> QED BY <1>1, <1>2, <2>1, InsertNew
<1>3. CASE key \in DOMAIN B.inputs
  <2>1. B.inputs[key] = PureArg(x)
    <3>1. KeyHolds(key, B.inputs[key], Len(B.order))
      BY <1>3 DEF Sound
    <3> QED BY <3>1 DEF KeyHolds, PureKey, ObjectKey, ForcedKey
  <2>2. /\ r.b.order = B.order /\ r.b.commands = B.commands /\ r.err = "none"
        /\ DOMAIN r.b.inputs = DOMAIN B.inputs /\ \A k \in DOMAIN B.inputs : r.b.inputs[k] = B.inputs[k]
        /\ r.arg = InputArg(PositionOf(B.order, key) % U16)
        /\ r.b = [inputs |-> r.b.inputs, order |-> r.b.order, commands |-> r.b.commands]
    BY <1>3, <2>1 DEF InsertFull, Outcome
  <2> HIDE DEF r
  <2>3. Sound(r.b)
    BY <2>2 DEF Sound
  <2>4. Grows(B, r.b)
    BY <2>2, SoundFacts DEF Grows
  <2>5. ASSUME Fits(r.b) PROVE r.arg = Slot(r.b, key)
    <3>1. PICK i \in 1..Len(B.order) : B.order[i] = key /\ Slot(B, key) = InputArg(i - 1)
      BY <1>3, SlotAt
    <3>2. PositionOf(B.order, key) = i - 1
      BY <3>1 DEF Slot, InputArg
    <3>3. i - 1 \in Nat /\ i - 1 < U16
      BY <2>2, <2>5, <3>1, SoundFacts, U16Assumption DEF Fits
    <3>4. PositionOf(B.order, key) % U16 = PositionOf(B.order, key)
      BY <3>2, <3>3, U16Assumption, FitsU16
    <3> QED BY <2>2, <3>4 DEF Slot
  <2> QED BY <1>1, <1>3, <2>2, <2>3, <2>4, <2>5 DEF Adds
<1> QED BY <1>2, <1>3

(* Obj, for a coin that is not registered. *)
LEMMA ObjAdds ==
  ASSUME NEW B, Sound(B), NEW id \in DOMAIN CoinBalance, ObjectKey(id) \notin DOMAIN B.inputs
  PROVE  /\ Adds(Obj(B, OwnedObject(id)), B, ObjectKey(id))
         /\ Obj(B, OwnedObject(id)).b.inputs[ObjectKey(id)] = ObjectCallArg(OwnedObject(id))
<1>1. OwnedObject(id).id = id
  BY DEF OwnedObject
<1>2. Obj(B, OwnedObject(id)) = InsertFull(B, ObjectKey(id), ObjectCallArg(OwnedObject(id)))
  BY <1>1 DEF Obj
<1>3. KeyHolds(ObjectKey(id), ObjectCallArg(OwnedObject(id)), Len(B.order) + 1)
  BY DEF KeyHolds
<1> QED BY <1>2, <1>3, InsertNew

(* Each withdrawal has an input of its own. *)
LEMMA WithdrawalAdds ==
  ASSUME NEW B, Sound(B), NEW w \in Nat
  PROVE  LET key == ForcedKey(Len(B.order))
             r == CreateFundsWithdrawalArgument(B, w)
         IN key \notin DOMAIN B.inputs /\ Adds(r, B, key) /\ r.b.inputs[key] = WithdrawalArg(w)
<1> DEFINE key == ForcedKey(Len(B.order))
<1>1. Len(B.order) \in Nat /\ InputCount(B) = Len(B.order)
  BY SoundFacts DEF Sound, InputCount
<1>2. key \notin DOMAIN B.inputs
  <2> SUFFICES ASSUME key \in DOMAIN B.inputs PROVE FALSE
    OBVIOUS
  <2>1. KeyHolds(key, B.inputs[key], Len(B.order))
    BY DEF Sound
  <2>2. \E i \in 0..(Len(B.order) - 1) : i = Len(B.order)
    BY <2>1 DEF KeyHolds, ForcedKey, ObjectKey, PureKey
  <2> QED BY <1>1, <2>2
<1>3. KeyHolds(key, WithdrawalArg(w), Len(B.order) + 1)
  <2>1. Len(B.order) \in 0..(Len(B.order) + 1 - 1)
    BY <1>1
  <2> QED BY <2>1 DEF KeyHolds
<1>4. CreateFundsWithdrawalArgument(B, w) = InsertFull(B, key, WithdrawalArg(w))
  BY <1>1 DEF CreateFundsWithdrawalArgument
<1> HIDE DEF key
<1>5. key \notin DOMAIN B.inputs /\ Adds(InsertFull(B, key, WithdrawalArg(w)), B, key)
      /\ InsertFull(B, key, WithdrawalArg(w)).b.inputs[key] = WithdrawalArg(w)
  BY <1>2, <1>3, InsertNew
<1> QED BY <1>4, <1>5 DEF key

(* What Append does to a sequence of any elements. *)
LEMMA AppendIsSeq ==
  ASSUME NEW s, IsSeq(s), NEW e
  PROVE  /\ IsSeq(Append(s, e)) /\ Len(Append(s, e)) = Len(s) + 1
         /\ Append(s, e)[Len(s) + 1] = e /\ \A i \in 1..Len(s) : Append(s, e)[i] = s[i]
<1> DEFINE T == {s[i] : i \in DOMAIN s} \cup {e}
           t == Append(s, e)
<1>1. s \in Seq(T) /\ e \in T
  <2>1. {s[i] : i \in DOMAIN s} \subseteq T
    OBVIOUS
  <2> QED BY <2>1 DEF IsSeq
<1> HIDE DEF T
<1>2. /\ t \in Seq(T) /\ Len(t) = Len(s) + 1 /\ t[Len(s) + 1] = e
      /\ \A i \in 1..Len(s) : t[i] = s[i]
  BY <1>1
<1> HIDE DEF t
<1>3. DOMAIN t = 1..Len(t) /\ Len(t) \in Nat
  BY <1>2
<1>4. t = [i \in 1..Len(t) |-> t[i]]
  BY <1>2
<1>5. t \in Seq({t[i] : i \in DOMAIN t})
  BY <1>3, <1>4, IsASeq
<1> QED BY <1>2, <1>5 DEF t, IsSeq

(* A sequence of anything is one of what it holds. *)
LEMMA SeqIsSeq ==
  ASSUME NEW T, NEW s \in Seq(T)
  PROVE  IsSeq(s)
<1>1. Len(s) \in Nat /\ DOMAIN s = 1..Len(s) /\ s = [i \in 1..Len(s) |-> s[i]]
  OBVIOUS
<1>2. \A i \in 1..Len(s) : s[i] \in {s[j] : j \in DOMAIN s}
  BY <1>1
<1>3. [i \in 1..Len(s) |-> s[i]] \in Seq({s[j] : j \in DOMAIN s})
  BY <1>1, <1>2, IsASeq
<1> QED BY <1>1, <1>3 DEF IsSeq

(* Command *)
LEMMA CommandAdds ==
  ASSUME NEW B, Sound(B), NEW c
  PROVE  LET r == Command(B, c)
         IN /\ r.err = "none" /\ Sound(r.b) /\ Grows(B, r.b)
            /\ r.b.inputs = B.inputs /\ r.b.order = B.order
            /\ Len(r.b.commands) = Len(B.commands) + 1 /\ r.b.commands[Len(B.commands) + 1] = c
            /\ Fits(r.b) => r.arg = ResultArg(Len(B.commands))
<1> DEFINE r == Command(B, c)
<1>1. /\ r.err = "none" /\ r.b.inputs = B.inputs /\ r.b.order = B.order
      /\ r.b.commands = Append(B.commands, c) /\ r.arg = ResultArg(Len(B.commands) % U16)
      /\ r.b = [inputs |-> r.b.inputs, order |-> r.b.order, commands |-> r.b.commands]
  BY DEF Command, Outcome
<1> HIDE DEF r
<1>2. IsSeq(B.commands) /\ Len(B.commands) \in Nat
  BY SoundFacts DEF Sound
<1>3. /\ IsSeq(r.b.commands) /\ Len(r.b.commands) = Len(B.commands) + 1
      /\ r.b.commands[Len(B.commands) + 1] = c
      /\ \A i \in 1..Len(B.commands) : r.b.commands[i] = B.commands[i]
  BY <1>1, <1>2, AppendIsSeq
<1>4. Sound(r.b)
  BY <1>1, <1>3 DEF Sound
<1>5. Grows(B, r.b)
  BY <1>1, <1>2, <1>3, SoundFacts DEF Grows
<1>6. ASSUME Fits(r.b) PROVE r.arg = ResultArg(Len(B.commands))
  <2>1. U16 \in Nat /\ Len(B.commands) < U16
    BY <1>2, <1>3, <1>6, U16Assumption DEF Fits
  <2>2. Len(B.commands) % U16 = Len(B.commands)
    BY <1>2, <2>1, FitsU16
  <2> QED BY <1>1, <2>2
<1> QED BY <1>1, <1>3, <1>4, <1>5, <1>6 DEF r

(* The loops of the methods, as folds. *)
Collect(acc, r) ==
  Outcome(r.b, IF r.err = "none" THEN Append(acc.arg, r.arg) ELSE NoArg, r.err)

OneId(acc, id, p) ==
  Then(acc, LAMBDA bb, args :
    LET r == Obj(bb, OwnedObject(id))
    IN Outcome(r.b, IF r.err = "none" THEN Append(args, r.arg) ELSE NoArg, r.err))
OneObj(acc, x, p) ==
  Then(acc, LAMBDA bb, args :
    LET r == Obj(bb, x)
    IN Outcome(r.b, IF r.err = "none" THEN Append(args, r.arg) ELSE NoArg, r.err))
OneInput(acc, x, p) ==
  Then(acc, LAMBDA bb, args :
    LET r == Input(bb, x)
    IN Outcome(r.b, IF r.err = "none" THEN Append(args, r.arg) ELSE NoArg, r.err))
OnePure(acc, x, p) ==
  Then(acc, LAMBDA bb, args :
    LET r == Pure(bb, x)
    IN Outcome(r.b, IF r.err = "none" THEN Append(args, r.arg) ELSE NoArg, r.err))

FId == INSTANCE SeqFolds WITH op <- OneId
FObj == INSTANCE SeqFolds WITH op <- OneObj
FInput == INSTANCE SeqFolds WITH op <- OneInput
FPure == INSTANCE SeqFolds WITH op <- OnePure

(* Induction, the hypothesis of FId. *)
LEMMA FIdInduction == FId!Induction
BY SetInduction DEF FId!Induction

(* Induction, the hypothesis of FObj. *)
LEMMA FObjInduction == FObj!Induction
BY SetInduction DEF FObj!Induction

(* Induction, the hypothesis of FInput. *)
LEMMA FInputInduction == FInput!Induction
BY SetInduction DEF FInput!Induction

(* Induction, the hypothesis of FPure. *)
LEMMA FPureInduction == FPure!Induction
BY SetInduction DEF FPure!Induction

Start(B) == Outcome(B, <<>>, "none")

(* Objs is the fold of its round. *)
LEMMA ObjsFold ==
  ASSUME NEW B, NEW ids
  PROVE  Objs(B, ids) = FId!Fold(Start(B), 0, ids)
BY DEF Objs, Each, Then, FId!Fold, FId!MapThenFoldSet, FId!Max,
       FoldLeft, MapThenFoldSet, Max, OneId, Start

(* So is the loop of MakeObjList. *)
LEMMA ObjectsFold ==
  ASSUME NEW B, NEW objs
  PROVE  Each(B, objs, Obj) = FObj!Fold(Start(B), 0, objs)
BY DEF Each, Then, FObj!Fold, FObj!MapThenFoldSet, FObj!Max,
       FoldLeft, MapThenFoldSet, Max, OneObj, Start

(* So is the loop of MoveCall. *)
LEMMA InputsFold ==
  ASSUME NEW B, NEW args
  PROVE  Each(B, args, Input) = FInput!Fold(Start(B), 0, args)
BY DEF Each, Then, FInput!Fold, FInput!MapThenFoldSet, FInput!Max,
       FoldLeft, MapThenFoldSet, Max, OneInput, Start

(* So is the loop over the amounts of PayMulInternal. *)
LEMMA PuresFold ==
  ASSUME NEW B, NEW xs
  PROVE  Each(B, xs, Pure) = FPure!Fold(Start(B), 0, xs)
BY DEF Each, Then, FPure!Fold, FPure!MapThenFoldSet, FPure!Max,
       FoldLeft, MapThenFoldSet, Max, OnePure, Start

-----------------------------------------------------------------------------
(* r is the outcome of registering inputs under the m keys K in B, one      *)
(* after the other.                                                         *)
AddsAll(r, B, K, m) ==
  /\ r.err = "none"
  /\ Sound(r.b) /\ Grows(B, r.b)
  /\ DOMAIN r.b.inputs = DOMAIN B.inputs \cup {K[i] : i \in 1..m}
  /\ r.b.commands = B.commands
  /\ Fits(r.b) => r.arg = [i \in 1..m |-> Slot(r.b, K[i])]

(* A loop whose rounds each register an input. *)
LEMMA RegisterLoop ==
  ASSUME NEW B, Sound(B), NEW m \in Nat, NEW A, NEW K, NEW R,
         A[0] = Start(B),
         \A k \in 0..(m - 1) : A[k].err = "none" => A[k + 1] = Collect(A[k], R[k]),
         \A k \in 0..(m - 1) :
           /\ Sound(A[k].b)
           /\ DOMAIN A[k].b.inputs = DOMAIN B.inputs \cup {K[i] : i \in 1..k}
           => Adds(R[k], A[k].b, K[k + 1])
  PROVE  AddsAll(A[m], B, K, m)
<1> DEFINE S == {k \in Nat : k <= m => AddsAll(A[k], B, K, k)}
<1>1. 0 \in S
  <2>1. A[0].b = B /\ A[0].arg = <<>> /\ A[0].err = "none"
    BY DEF Start, Outcome
  <2>2. 1..0 = {}
    OBVIOUS
  <2>3. [i \in 1..0 |-> Slot(B, K[i])] = <<>>
    BY <2>2
  <2>4. {K[i] : i \in 1..0} = {}
    BY <2>2
  <2>5. DOMAIN B.inputs = DOMAIN B.inputs \cup {K[i] : i \in 1..0}
    BY <2>4
  <2> QED BY <2>1, <2>3, <2>5, GrowsSame DEF AddsAll
<1>2. ASSUME NEW k \in Nat, k \in S PROVE k + 1 \in S
  <2> SUFFICES ASSUME k + 1 <= m PROVE AddsAll(A[k + 1], B, K, k + 1)
    OBVIOUS
  <2> DEFINE a == A[k]
             r == R[k]
             C == r.b
             key == K[k + 1]
  <2>1. AddsAll(a, B, K, k) /\ k \in 0..(m - 1)
    BY <1>2
  <2>2. Adds(r, a.b, key)
    BY <2>1 DEF AddsAll
  <2>3. A[k + 1] = Collect(a, r)
    BY <2>1 DEF AddsAll
  <2>4. A[k + 1].b = C /\ A[k + 1].arg = Append(a.arg, r.arg) /\ A[k + 1].err = "none"
    BY <2>2, <2>3 DEF Adds, Collect, Outcome
  <2> HIDE DEF a, r
  <2>5. Sound(a.b) /\ Sound(C) /\ Grows(a.b, C) /\ Grows(B, a.b) /\ C.commands = B.commands
    BY <2>1, <2>2 DEF Adds, AddsAll
  <2>6. Grows(B, C)
    BY <2>5, GrowsOn
  <2>7. DOMAIN C.inputs = DOMAIN B.inputs \cup {K[i] : i \in 1..(k + 1)}
    <3>1. DOMAIN C.inputs = (DOMAIN B.inputs \cup {K[i] : i \in 1..k}) \cup {key}
      BY <2>1, <2>2 DEF Adds, AddsAll
    <3>2. 1..(k + 1) = (1..k) \cup {k + 1}
      OBVIOUS
    <3>3. {K[i] : i \in 1..(k + 1)} = {K[i] : i \in 1..k} \cup {key}
      BY <3>2
    <3> QED BY <3>1, <3>3
  <2>8. ASSUME Fits(C) PROVE Append(a.arg, r.arg) = [i \in 1..(k + 1) |-> Slot(C, K[i])]
    <3>1. Fits(a.b)
      BY <2>5, <2>8, FitsBefore
    <3>2. a.arg = [i \in 1..k |-> Slot(a.b, K[i])] /\ r.arg = Slot(C, key)
      BY <2>1, <2>2, <2>8, <3>1 DEF Adds, AddsAll
    <3>3. ASSUME NEW i \in 1..k PROVE Slot(a.b, K[i]) = Slot(C, K[i])
      <4>1. K[i] \in DOMAIN a.b.inputs
        BY <2>1 DEF AddsAll
      <4> QED BY <2>5, <4>1, SlotKept
    <3>4. a.arg = [i \in 1..k |-> Slot(C, K[i])]
      BY <3>2, <3>3
    <3> DEFINE T == {Slot(C, K[i]) : i \in 1..(k + 1)}
               t == [i \in 1..(k + 1) |-> Slot(C, K[i])]
    <3>5. a.arg \in Seq(T) /\ Len(a.arg) = k
      <4>1. \A i \in 1..k : Slot(C, K[i]) \in T
        OBVIOUS
      <4> HIDE DEF T
      <4>2. a.arg \in [1..k -> T]
        BY <3>4, <4>1
      <4> QED BY <4>2
    <3>6. t \in Seq(T) /\ Len(t) = k + 1
      <4>1. \A i \in 1..(k + 1) : Slot(C, K[i]) \in T
        OBVIOUS
      <4> HIDE DEF T
      <4>2. t \in [1..(k + 1) -> T]
        BY <4>1
      <4> QED BY <4>2
    <3>7. r.arg \in T
      <4>1. k + 1 \in 1..(k + 1)
        OBVIOUS
      <4>2. r.arg = Slot(C, K[k + 1])
        BY <3>2
      <4> QED BY <4>1, <4>2
    <3>8. Append(a.arg, r.arg) \in Seq(T) /\ Len(Append(a.arg, r.arg)) = k + 1
      <4> HIDE DEF T
      <4> QED BY <3>5, <3>7
    <3>9. ASSUME NEW i \in 1..(k + 1) PROVE Append(a.arg, r.arg)[i] = t[i]
      <4>1. CASE i = k + 1
        <5>1. Append(a.arg, r.arg)[k + 1] = r.arg
          <6> HIDE DEF T
          <6> QED BY <3>5, <3>7
        <5> QED BY <3>2, <4>1, <5>1
      <4>2. CASE i \in 1..k
        <5>1. Append(a.arg, r.arg)[i] = a.arg[i]
          <6> HIDE DEF T
          <6> QED BY <3>5, <3>7, <4>2
        <5>2. a.arg[i] = Slot(C, K[i])
          BY <3>4, <4>2
        <5>3. t[i] = Slot(C, K[i])
          OBVIOUS
        <5> HIDE DEF T, t
        <5> QED BY <5>1, <5>2, <5>3
      <4>3. i = k + 1 \/ i \in 1..k
        OBVIOUS
      <4> HIDE DEF T, t
      <4> QED BY <4>1, <4>2, <4>3
    <3> HIDE DEF T, t
    <3>10. Append(a.arg, r.arg) = t
      BY <3>6, <3>8, <3>9, SeqEqual
    <3> QED BY <3>10 DEF t
  <2> QED BY <2>4, <2>5, <2>6, <2>7, <2>8 DEF AddsAll
<1> HIDE DEF S
<1>3. Nat \subseteq S
  BY <1>1, <1>2, SetInduction
<1>4. m \in S
  BY <1>3
<1> QED BY <1>4 DEF S

(* Coins that can be used in a call: no two are the same, none is          *)
(* registered.                                                              *)
Unused(B, ids) ==
  /\ ids \in Seq(DOMAIN CoinBalance)
  /\ \A i, j \in 1..Len(ids) : ids[i] = ids[j] => i = j
  /\ \A i \in 1..Len(ids) : ObjectKey(ids[i]) \notin DOMAIN B.inputs

ObjectKeys(ids) == [i \in 1..Len(ids) |-> ObjectKey(ids[i])]

(* The next coin can be registered. *)
LEMMA NextUnused ==
  ASSUME NEW B, NEW ids, Unused(B, ids), NEW k \in 0..(Len(ids) - 1), NEW C, Sound(C),
         DOMAIN C.inputs = DOMAIN B.inputs \cup {ObjectKeys(ids)[i] : i \in 1..k}
  PROVE  /\ ids[k + 1] \in DOMAIN CoinBalance /\ k + 1 \in 1..Len(ids)
         /\ Adds(Obj(C, OwnedObject(ids[k + 1])), C, ObjectKeys(ids)[k + 1])
<1>1. /\ k + 1 \in 1..Len(ids) /\ ids[k + 1] \in DOMAIN CoinBalance /\ Len(ids) \in Nat
      /\ \A i \in 1..k : i \in 1..Len(ids) /\ i # k + 1
  BY DEF Unused
<1>2. ObjectKey(ids[k + 1]) \notin DOMAIN C.inputs
  <2> SUFFICES ASSUME ObjectKey(ids[k + 1]) \in DOMAIN C.inputs PROVE FALSE
    OBVIOUS
  <2>1. ObjectKey(ids[k + 1]) \notin DOMAIN B.inputs
    BY <1>1 DEF Unused
  <2>2. PICK i \in 1..k : ObjectKey(ids[k + 1]) = ObjectKey(ids[i])
    BY <1>1, <2>1 DEF ObjectKeys
  <2>3. ids[k + 1] = ids[i]
    BY <2>2 DEF ObjectKey
  <2> QED BY <1>1, <2>3 DEF Unused
<1>3. ObjectKeys(ids)[k + 1] = ObjectKey(ids[k + 1])
  BY <1>1 DEF ObjectKeys
<1> QED BY <1>1, <1>2, <1>3, ObjAdds

(* A round of Objs. *)
LEMMA IdStep ==
  ASSUME NEW acc, acc.err = "none", NEW x
  PROVE  OneId(acc, x, 0) = Collect(acc, Obj(acc.b, OwnedObject(x)))
BY DEF OneId, Then, Collect

(* A round of the loop of MakeObjList. *)
LEMMA ObjStep ==
  ASSUME NEW acc, acc.err = "none", NEW x
  PROVE  OneObj(acc, x, 0) = Collect(acc, Obj(acc.b, x))
BY DEF OneObj, Then, Collect

(* A round of the loop of MoveCall. *)
LEMMA InputStep ==
  ASSUME NEW acc, acc.err = "none", NEW x
  PROVE  OneInput(acc, x, 0) = Collect(acc, Input(acc.b, x))
BY DEF OneInput, Then, Collect

(* A round of the loop over amounts. *)
LEMMA PureStep ==
  ASSUME NEW acc, acc.err = "none", NEW x
  PROVE  OnePure(acc, x, 0) = Collect(acc, Pure(acc.b, x))
BY DEF OnePure, Then, Collect

(* Objs registers coins that are not in use, each under a key of its own. *)
LEMMA ObjsAdds ==
  ASSUME NEW B, Sound(B), NEW ids, Unused(B, ids)
  PROVE  AddsAll(Objs(B, ids), B, ObjectKeys(ids), Len(ids))
<1> DEFINE m == Len(ids)
           s == ids
           A == [k \in 0..m |-> FId!Fold(Start(B), 0, SubSeq(s, 1, k))]
           R == [k \in 0..(m - 1) |-> Obj(A[k].b, OwnedObject(ids[k + 1]))]
<1>1. s \in Seq(DOMAIN CoinBalance) /\ Len(s) = m /\ m \in Nat
  BY DEF Unused
<1>2. A[0] = Start(B)
  <2>1. SubSeq(s, 1, 0) = <<>> /\ 0 \in 0..m
    BY <1>1
  <2> QED BY <2>1, FIdInduction, FId!FoldEmpty
<1>3. ASSUME NEW k \in 0..(m - 1), A[k].err = "none" PROVE A[k + 1] = Collect(A[k], R[k])
  <2>1. k \in Nat /\ k + 1 <= Len(s) /\ k \in 0..m /\ k + 1 \in 0..m
    BY <1>1
  <2>2. FId!Fold(Start(B), 0, SubSeq(s, 1, k + 1)) = OneId(FId!Fold(Start(B), 0, SubSeq(s, 1, k)), s[k + 1], 0)
    BY <1>1, <2>1, FIdInduction, FId!FoldPrefix
  <2>3. A[k + 1] = OneId(A[k], s[k + 1], 0)
    BY <2>1, <2>2
  <2> HIDE DEF A
  <2> QED BY <1>3, <2>3, IdStep
<1>4. ASSUME NEW k \in 0..(m - 1), Sound(A[k].b),
             DOMAIN A[k].b.inputs = DOMAIN B.inputs \cup {ObjectKeys(ids)[i] : i \in 1..k}
      PROVE  Adds(R[k], A[k].b, ObjectKeys(ids)[k + 1])
  <2> HIDE DEF A
  <2> QED BY <1>4, NextUnused
<1>5. A[m] = Objs(B, ids)
  <2>1. SubSeq(s, 1, m) = s /\ m \in 0..m
    BY <1>1
  <2> QED BY <2>1, ObjsFold
<1> HIDE DEF A, R
<1>6. AddsAll(A[m], B, ObjectKeys(ids), m)
  BY <1>1, <1>2, <1>3, <1>4, RegisterLoop
<1> QED BY <1>5, <1>6

(* The loop of MakeObjList. *)
LEMMA ObjectsAdd ==
  ASSUME NEW B, Sound(B), NEW ids, Unused(B, ids), NEW s, s = [i \in DOMAIN ids |-> OwnedObject(ids[i])]
  PROVE  AddsAll(Each(B, s, Obj), B, ObjectKeys(ids), Len(ids))
<1> DEFINE m == Len(ids)
           T == {OwnedObject(ids[i]) : i \in 1..m}
           A == [k \in 0..m |-> FObj!Fold(Start(B), 0, SubSeq(s, 1, k))]
           R == [k \in 0..(m - 1) |-> Obj(A[k].b, OwnedObject(ids[k + 1]))]
<1>1. m \in Nat /\ DOMAIN ids = 1..m
  BY DEF Unused
<1>2. s \in Seq(T) /\ Len(s) = m /\ \A i \in 1..m : s[i] = OwnedObject(ids[i])
  <2>1. \A i \in 1..m : OwnedObject(ids[i]) \in T
    OBVIOUS
  <2> HIDE DEF T
  <2>2. s \in [1..m -> T]
    BY <1>1, <2>1
  <2> QED BY <1>1, <2>2
<1> HIDE DEF T
<1>3. A[0] = Start(B)
  <2>1. SubSeq(s, 1, 0) = <<>> /\ 0 \in 0..m
    BY <1>1, <1>2
  <2> QED BY <2>1, FObjInduction, FObj!FoldEmpty
<1>4. ASSUME NEW k \in 0..(m - 1), A[k].err = "none" PROVE A[k + 1] = Collect(A[k], R[k])
  <2>1. k \in Nat /\ k + 1 <= Len(s) /\ k \in 0..m /\ k + 1 \in 0..m /\ k + 1 \in 1..m
    BY <1>1, <1>2
  <2>2. FObj!Fold(Start(B), 0, SubSeq(s, 1, k + 1)) = OneObj(FObj!Fold(Start(B), 0, SubSeq(s, 1, k)), s[k + 1], 0)
    BY <1>2, <2>1, FObjInduction, FObj!FoldPrefix
  <2>3. A[k + 1] = OneObj(A[k], s[k + 1], 0)
    BY <2>1, <2>2
  <2>4. Obj(A[k].b, s[k + 1]) = R[k]
    BY <1>2, <2>1
  <2> HIDE DEF A, R
  <2> QED BY <1>4, <2>3, <2>4, ObjStep
<1>5. ASSUME NEW k \in 0..(m - 1), Sound(A[k].b),
             DOMAIN A[k].b.inputs = DOMAIN B.inputs \cup {ObjectKeys(ids)[i] : i \in 1..k}
      PROVE  Adds(R[k], A[k].b, ObjectKeys(ids)[k + 1])
  <2> HIDE DEF A
  <2> QED BY <1>5, NextUnused
<1>6. A[m] = Each(B, s, Obj)
  <2>1. SubSeq(s, 1, m) = s /\ m \in 0..m
    BY <1>1, <1>2
  <2> QED BY <2>1, ObjectsFold
<1> HIDE DEF A, R
<1>7. AddsAll(A[m], B, ObjectKeys(ids), m)
  BY <1>1, <1>3, <1>4, <1>5, RegisterLoop
<1> QED BY <1>6, <1>7

(* The loop of MoveCall. *)
LEMMA InputsAdd ==
  ASSUME NEW B, Sound(B), NEW ids, Unused(B, ids), NEW s, s = [i \in DOMAIN ids |-> ObjectCallArg(OwnedObject(ids[i]))]
  PROVE  AddsAll(Each(B, s, Input), B, ObjectKeys(ids), Len(ids))
<1> DEFINE m == Len(ids)
           T == {ObjectCallArg(OwnedObject(ids[i])) : i \in 1..m}
           A == [k \in 0..m |-> FInput!Fold(Start(B), 0, SubSeq(s, 1, k))]
           R == [k \in 0..(m - 1) |-> Obj(A[k].b, OwnedObject(ids[k + 1]))]
<1>1. m \in Nat /\ DOMAIN ids = 1..m
  BY DEF Unused
<1>2. s \in Seq(T) /\ Len(s) = m /\ \A i \in 1..m : s[i] = ObjectCallArg(OwnedObject(ids[i]))
  <2>1. \A i \in 1..m : ObjectCallArg(OwnedObject(ids[i])) \in T
    OBVIOUS
  <2> HIDE DEF T
  <2>2. s \in [1..m -> T]
    BY <1>1, <2>1
  <2> QED BY <1>1, <2>2
<1> HIDE DEF T
<1>3. A[0] = Start(B)
  <2>1. SubSeq(s, 1, 0) = <<>> /\ 0 \in 0..m
    BY <1>1, <1>2
  <2> QED BY <2>1, FInputInduction, FInput!FoldEmpty
<1>4. ASSUME NEW k \in 0..(m - 1), A[k].err = "none" PROVE A[k + 1] = Collect(A[k], R[k])
  <2>1. k \in Nat /\ k + 1 <= Len(s) /\ k \in 0..m /\ k + 1 \in 0..m /\ k + 1 \in 1..m
    BY <1>1, <1>2
  <2>2. FInput!Fold(Start(B), 0, SubSeq(s, 1, k + 1)) = OneInput(FInput!Fold(Start(B), 0, SubSeq(s, 1, k)), s[k + 1], 0)
    BY <1>2, <2>1, FInputInduction, FInput!FoldPrefix
  <2>3. A[k + 1] = OneInput(A[k], s[k + 1], 0)
    BY <2>1, <2>2
  <2>4. Input(A[k].b, s[k + 1]) = R[k]
    BY <1>2, <2>1 DEF Input, ObjectCallArg
  <2> HIDE DEF A, R
  <2> QED BY <1>4, <2>3, <2>4, InputStep
<1>5. ASSUME NEW k \in 0..(m - 1), Sound(A[k].b),
             DOMAIN A[k].b.inputs = DOMAIN B.inputs \cup {ObjectKeys(ids)[i] : i \in 1..k}
      PROVE  Adds(R[k], A[k].b, ObjectKeys(ids)[k + 1])
  <2> HIDE DEF A
  <2> QED BY <1>5, NextUnused
<1>6. A[m] = Each(B, s, Input)
  <2>1. SubSeq(s, 1, m) = s /\ m \in 0..m
    BY <1>1, <1>2
  <2> QED BY <2>1, InputsFold
<1> HIDE DEF A, R
<1>7. AddsAll(A[m], B, ObjectKeys(ids), m)
  BY <1>1, <1>3, <1>4, <1>5, RegisterLoop
<1> QED BY <1>6, <1>7

PureKeys(xs) == [i \in 1..Len(xs) |-> PureKey(xs[i])]

(* The loop of PayMulInternal over the amounts. *)
LEMMA PuresAdd ==
  ASSUME NEW B, Sound(B), NEW s \in Seq(PureValues)
  PROVE  AddsAll(Each(B, s, Pure), B, PureKeys(s), Len(s))
<1> DEFINE m == Len(s)
           A == [k \in 0..m |-> FPure!Fold(Start(B), 0, SubSeq(s, 1, k))]
           R == [k \in 0..(m - 1) |-> Pure(A[k].b, s[k + 1])]
<1>1. m \in Nat
  OBVIOUS
<1>3. A[0] = Start(B)
  <2>1. SubSeq(s, 1, 0) = <<>> /\ 0 \in 0..m
    BY <1>1
  <2> QED BY <2>1, FPureInduction, FPure!FoldEmpty
<1>4. ASSUME NEW k \in 0..(m - 1), A[k].err = "none" PROVE A[k + 1] = Collect(A[k], R[k])
  <2>1. k \in Nat /\ k + 1 <= Len(s) /\ k \in 0..m /\ k + 1 \in 0..m
    BY <1>1
  <2>2. FPure!Fold(Start(B), 0, SubSeq(s, 1, k + 1)) = OnePure(FPure!Fold(Start(B), 0, SubSeq(s, 1, k)), s[k + 1], 0)
    BY <2>1, FPureInduction, FPure!FoldPrefix
  <2>3. A[k + 1] = OnePure(A[k], s[k + 1], 0)
    BY <2>1, <2>2
  <2> HIDE DEF A
  <2> QED BY <1>4, <2>3, PureStep
<1>5. ASSUME NEW k \in 0..(m - 1), Sound(A[k].b)
      PROVE  Adds(R[k], A[k].b, PureKeys(s)[k + 1])
  <2>1. k + 1 \in 1..m /\ s[k + 1] \in PureValues
    BY <1>1
  <2>2. PureKeys(s)[k + 1] = PureKey(s[k + 1])
    BY <2>1 DEF PureKeys
  <2> HIDE DEF A
  <2> QED BY <1>5, <2>1, <2>2, PureAdds
<1>6. A[m] = Each(B, s, Pure)
  <2>1. SubSeq(s, 1, m) = s /\ m \in 0..m
    BY <1>1
  <2> QED BY <2>1, PuresFold
<1> HIDE DEF A, R
<1>7. AddsAll(A[m], B, PureKeys(s), m)
  BY <1>1, <1>3, <1>4, <1>5, RegisterLoop
<1> QED BY <1>6, <1>7

Plus(x, y, p) == x + y
OneRecipient(acc, r, p) == IF Contains(acc, r) THEN acc ELSE Append(acc, r)
OnePosition(is, i, p) == IF p[1][i] = p[2] THEN Append(is, i) ELSE is

FSum == INSTANCE SeqFolds WITH op <- Plus
FRec == INSTANCE SeqFolds WITH op <- OneRecipient
FPos == INSTANCE SeqFolds WITH op <- OnePosition

(* Induction, the hypothesis of FSum. *)
LEMMA FSumInduction == FSum!Induction
BY SetInduction DEF FSum!Induction

(* Induction, the hypothesis of FRec. *)
LEMMA FRecInduction == FRec!Induction
BY SetInduction DEF FRec!Induction

(* Induction, the hypothesis of FPos. *)
LEMMA FPosInduction == FPos!Induction
BY SetInduction DEF FPos!Induction

-----------------------------------------------------------------------------
(* Total is a fold. *)
LEMMA TotalFold ==
  ASSUME NEW s PROVE Total(s) = FSum!Fold(0, 0, s)
BY DEF Total, FSum!Fold, Plus, FSum!MapThenFoldSet, FSum!Max,
       FoldLeft, MapThenFoldSet, Max

(* The sum of nothing. *)
LEMMA TotalEmpty == Total(<<>>) = 0
BY TotalFold, FSumInduction, FSum!FoldEmpty

(* The sum of one more. *)
LEMMA TotalAppend ==
  ASSUME NEW s \in Seq(Nat), NEW x \in Nat
  PROVE  Total(Append(s, x)) = Total(s) + x
BY TotalFold, FSumInduction, FSum!FoldAppend DEF Plus

(* A sum of numbers is a number. *)
LEMMA TotalNat ==
  ASSUME NEW s \in Seq(Nat)
  PROVE  Total(s) \in Nat
<1>1. \A v \in Nat, e \in Nat : Plus(v, e, 0) \in Nat
  BY DEF Plus
<1>2. FSum!Fold(0, 0, s) \in Nat
  BY <1>1, FSumInduction, FSum!FoldKeeps
<1> QED BY <1>2, TotalFold

(* A prefix that is one longer. *)
LEMMA TotalPrefix ==
  ASSUME NEW s \in Seq(Nat), NEW k \in Nat, k + 1 <= Len(s)
  PROVE  Total(SubSeq(s, 1, k + 1)) = Total(SubSeq(s, 1, k)) + s[k + 1]
BY TotalFold, FSumInduction, FSum!FoldPrefix DEF Plus

(* The sum of one number. *)
LEMMA TotalOne ==
  ASSUME NEW x \in Nat
  PROVE  Total(<<x>>) = x
<1>1. <<>> \in Seq(Nat) /\ Append(<<>>, x) = <<x>>
  OBVIOUS
<1>2. Total(Append(<<>>, x)) = 0 + x
  BY <1>1, TotalAppend, TotalEmpty
<1> QED BY <1>1, <1>2

(* The sum of two numbers. *)
LEMMA TotalTwo ==
  ASSUME NEW x \in Nat, NEW y \in Nat
  PROVE  Total(<<x, y>>) = x + y
<1>1. <<x>> \in Seq(Nat)
  OBVIOUS
<1>2. Append(<<x>>, y) = <<x, y>>
  <2>1. /\ Append(<<x>>, y) \in Seq(Nat) /\ Len(Append(<<x>>, y)) = 2
        /\ Append(<<x>>, y)[1] = x /\ Append(<<x>>, y)[2] = y
    BY <1>1
  <2>2. <<x, y>> \in Seq(Nat) /\ Len(<<x, y>>) = 2 /\ <<x, y>>[1] = x /\ <<x, y>>[2] = y
    OBVIOUS
  <2>3. \A i \in 1..2 : i = 1 \/ i = 2
    OBVIOUS
  <2> QED BY <2>1, <2>2, <2>3, SeqEqual
<1>3. Total(Append(<<x>>, y)) = Total(<<x>>) + y
  BY <1>1, TotalAppend
<1>4. Total(<<x>>) = x
  BY TotalOne
<1> QED BY <1>2, <1>3, <1>4

(* The first element and the others. *)
LEMMA TotalHead ==
  ASSUME NEW s \in Seq(Nat), s # <<>>
  PROVE  Total(s) = Head(s) + Total(Tail(s))
<1> DEFINE t == Tail(s)
           S == {k \in Nat : k + 1 <= Len(s) => Total(SubSeq(s, 1, k + 1)) = s[1] + Total(SubSeq(t, 1, k))}
<1>1. /\ t \in Seq(Nat) /\ Len(t) = Len(s) - 1 /\ Len(s) \in Nat /\ Len(s) >= 1
      /\ \A i \in 1..Len(t) : t[i] = s[i + 1]
  <2>1. Len(s) \in Nat /\ Len(s) >= 1
    <3>1. Len(s) \in Nat /\ Len(s) # 0
      BY EmptySeq
    <3> QED BY <3>1
  <2>2. t \in Seq(Nat) /\ Len(t) = Len(s) - 1
    BY HeadTailProperties
  <2>3. \A i \in 1..Len(t) : t[i] = s[i + 1]
    BY HeadTailProperties
  <2> QED BY <2>1, <2>2, <2>3
<1> HIDE DEF t
<1>2. 0 \in S
  <2>1. SubSeq(s, 1, 0) = <<>> /\ SubSeq(t, 1, 0) = <<>>
    BY <1>1
  <2>2. Total(SubSeq(s, 1, 0 + 1)) = 0 + s[0 + 1]
    <3>1. 0 \in Nat /\ 0 + 1 <= Len(s)
      BY <1>1
    <3>2. Total(SubSeq(s, 1, 0 + 1)) = Total(SubSeq(s, 1, 0)) + s[0 + 1]
      BY <3>1, TotalPrefix
    <3> QED BY <2>1, <3>2, TotalEmpty
  <2>3. s[1] \in Nat
    <3>1. 1 \in 1..Len(s)
      BY <1>1
    <3> QED BY <3>1
  <2>4. Total(SubSeq(s, 1, 0 + 1)) = s[1] + Total(SubSeq(t, 1, 0))
    <3>1. 0 + s[0 + 1] = s[1] + 0 /\ 0 + s[0 + 1] = s[1]
      BY <2>3
    <3>2. Total(SubSeq(t, 1, 0)) = 0
      BY <2>1, TotalEmpty
    <3> QED BY <2>2, <3>1, <3>2
  <2> QED BY <2>4
<1>3. ASSUME NEW k \in Nat, k \in S PROVE k + 1 \in S
  <2> SUFFICES ASSUME (k + 1) + 1 <= Len(s)
               PROVE  Total(SubSeq(s, 1, (k + 1) + 1)) = s[1] + Total(SubSeq(t, 1, k + 1))
    OBVIOUS
  <2>1. Total(SubSeq(s, 1, (k + 1) + 1)) = Total(SubSeq(s, 1, k + 1)) + s[(k + 1) + 1]
    BY TotalPrefix
  <2>2. Total(SubSeq(t, 1, k + 1)) = Total(SubSeq(t, 1, k)) + t[k + 1]
    <3>1. k + 1 <= Len(t)
      BY <1>1
    <3> QED BY <1>1, <3>1, TotalPrefix
  <2>3. k + 1 <= Len(s)
    BY <1>1
  <2>4. Total(SubSeq(s, 1, k + 1)) = s[1] + Total(SubSeq(t, 1, k))
    BY <1>3, <2>3
  <2>5. t[k + 1] = s[(k + 1) + 1] /\ s[(k + 1) + 1] \in Nat /\ s[1] \in Nat
    BY <1>1
  <2>6. Total(SubSeq(t, 1, k)) \in Nat
    <3>1. SubSeq(t, 1, k) \in Seq(Nat)
      BY <1>1
    <3> QED BY <3>1, TotalNat
  <2> QED BY <2>1, <2>2, <2>4, <2>5, <2>6
<1> HIDE DEF S
<1>4. Nat \subseteq S
  BY <1>2, <1>3, SetInduction
<1>5. Len(t) \in S /\ Len(t) + 1 = Len(s)
  BY <1>1, <1>4
<1>6. SubSeq(s, 1, Len(s)) = s /\ SubSeq(t, 1, Len(t)) = t /\ Head(s) = s[1]
  BY <1>1
<1>7. Len(t) + 1 <= Len(s)
  BY <1>1
<1>8. Total(SubSeq(s, 1, Len(t) + 1)) = s[1] + Total(SubSeq(t, 1, Len(t)))
  BY <1>5, <1>7 DEF S
<1> QED BY <1>5, <1>6, <1>8 DEF t

-----------------------------------------------------------------------------
(* RecipientOrder is a fold. *)
LEMMA RecipientsFold ==
  ASSUME NEW s PROVE RecipientOrder(s) = FRec!Fold(<<>>, 0, s)
BY DEF RecipientOrder, FRec!Fold, OneRecipient, Contains, FRec!MapThenFoldSet, FRec!Max,
       FoldLeft, MapThenFoldSet, Max

(* Every recipient is there, and once. *)
LEMMA RecipientFacts ==
  ASSUME NEW T, NEW s \in Seq(T)
  PROVE  /\ RecipientOrder(s) \in Seq(T)
         /\ \A i, j \in 1..Len(RecipientOrder(s)) : RecipientOrder(s)[i] = RecipientOrder(s)[j] => i = j
         /\ \A i \in 1..Len(s) : \E j \in 1..Len(RecipientOrder(s)) : RecipientOrder(s)[j] = s[i]
         /\ \A j \in 1..Len(RecipientOrder(s)) : \E i \in 1..Len(s) : RecipientOrder(s)[j] = s[i]
<1> DEFINE O(k) == FRec!Fold(<<>>, 0, SubSeq(s, 1, k))
           Good(o, k) == /\ o \in Seq(T)
                         /\ \A i, j \in 1..Len(o) : o[i] = o[j] => i = j
                         /\ \A i \in 1..k : \E j \in 1..Len(o) : o[j] = s[i]
                         /\ \A j \in 1..Len(o) : \E i \in 1..k : o[j] = s[i]
           S == {k \in Nat : k <= Len(s) => Good(O(k), k)}
<1>1. 0 \in S
  <2>1. O(0) = <<>>
    <3>1. SubSeq(s, 1, 0) = <<>>
      OBVIOUS
    <3> QED BY <3>1, FRecInduction, FRec!FoldEmpty
  <2>2. 1..Len(<<>>) = {} /\ 1..0 = {} /\ <<>> \in Seq(T)
    OBVIOUS
  <2> HIDE DEF O
  <2>3. Good(O(0), 0)
    BY <2>1, <2>2
  <2> HIDE DEF Good
  <2> QED BY <2>3
<1>2. ASSUME NEW k \in Nat, k \in S PROVE k + 1 \in S
  <2> SUFFICES ASSUME k + 1 <= Len(s) PROVE Good(O(k + 1), k + 1)
    OBVIOUS
  <2> DEFINE o == O(k)
             x == s[k + 1]
  <2>1. Good(o, k) /\ x \in T
    BY <1>2
  <2>2. O(k + 1) = OneRecipient(o, x, 0)
    BY FRecInduction, FRec!FoldPrefix
  <2>3. Contains(o, x) <=> \E j \in 1..Len(o) : o[j] = x
    <3>1. DOMAIN o = 1..Len(o)
      BY <2>1
    <3> HIDE DEF o
    <3> QED BY <3>1 DEF Contains
  <2>4. \A i \in 1..(k + 1) : i \in 1..k \/ i = k + 1
    OBVIOUS
  <2>5. \A i \in 1..k : i \in 1..(k + 1)
    OBVIOUS
  <2>6. k + 1 \in 1..(k + 1)
    OBVIOUS
  <2> HIDE DEF O, x
  <2>7. CASE Contains(o, x)
    <3>1. O(k + 1) = o
      BY <2>2, <2>7 DEF OneRecipient
    <3>2. \A i \in 1..(k + 1) : \E j \in 1..Len(o) : o[j] = s[i]
      BY <2>1, <2>3, <2>4, <2>7 DEF x
    <3>3. \A j \in 1..Len(o) : \E i \in 1..(k + 1) : o[j] = s[i]
      BY <2>1, <2>5
    <3> QED BY <2>1, <3>1, <3>2, <3>3
  <2>8. CASE ~ Contains(o, x)
    <3> DEFINE p == O(k + 1)
    <3>1. p = Append(o, x)
      BY <2>2, <2>8 DEF OneRecipient
    <3>2. /\ p \in Seq(T) /\ Len(p) = Len(o) + 1 /\ Len(o) \in Nat
          /\ p[Len(o) + 1] = x /\ \A j \in 1..Len(o) : p[j] = o[j]
      <4>1. o \in Seq(T) /\ x \in T
        BY <2>1
      <4> HIDE DEF p, o
      <4> QED BY <3>1, <4>1
    <3> HIDE DEF p, o
    <3>3. \A j \in 1..Len(p) : j \in 1..Len(o) \/ j = Len(o) + 1
      BY <3>2
    <3>4. \A j \in 1..Len(o) : j \in 1..Len(p)
      BY <3>2
    <3>5. Len(o) + 1 \in 1..Len(p)
      BY <3>2
    <3>6. \A i, j \in 1..Len(p) : p[i] = p[j] => i = j
      <4> SUFFICES ASSUME NEW i \in 1..Len(p), NEW j \in 1..Len(p), p[i] = p[j] PROVE i = j
        OBVIOUS
      <4>1. CASE i \in 1..Len(o) /\ j \in 1..Len(o)
        BY <2>1, <3>2, <4>1
      <4>2. CASE i \in 1..Len(o) /\ j = Len(o) + 1
        BY <2>3, <2>8, <3>2, <4>2
      <4>3. CASE i = Len(o) + 1 /\ j \in 1..Len(o)
        BY <2>3, <2>8, <3>2, <4>3
      <4> QED BY <3>3, <4>1, <4>2, <4>3, Zenon
    <3>7. \A i \in 1..(k + 1) : \E j \in 1..Len(p) : p[j] = s[i]
      <4> SUFFICES ASSUME NEW i \in 1..(k + 1) PROVE \E j \in 1..Len(p) : p[j] = s[i]
        OBVIOUS
      <4>1. CASE i \in 1..k
        <5>1. PICK j \in 1..Len(o) : o[j] = s[i]
          BY <2>1, <4>1
        <5> QED BY <3>2, <3>4, <5>1
      <4>2. CASE i = k + 1
        BY <3>2, <3>5, <4>2 DEF x
      <4> QED BY <2>4, <4>1, <4>2
    <3>8. \A j \in 1..Len(p) : \E i \in 1..(k + 1) : p[j] = s[i]
      <4> SUFFICES ASSUME NEW j \in 1..Len(p) PROVE \E i \in 1..(k + 1) : p[j] = s[i]
        OBVIOUS
      <4>1. CASE j \in 1..Len(o)
        <5>1. PICK i \in 1..k : o[j] = s[i]
          BY <2>1, <4>1
        <5> QED BY <2>5, <3>2, <4>1, <5>1
      <4>2. CASE j = Len(o) + 1
        BY <2>6, <3>2, <4>2 DEF x
      <4> QED BY <3>3, <4>1, <4>2
    <3> QED BY <3>2, <3>6, <3>7, <3>8 DEF p
  <2> QED BY <2>7, <2>8
<1> HIDE DEF S
<1>3. Nat \subseteq S
  BY <1>1, <1>2, SetInduction
<1>4. Len(s) \in S
  BY <1>3
<1>5. Len(s) <= Len(s)
  OBVIOUS
<1>6. Good(O(Len(s)), Len(s))
  BY <1>4, <1>5 DEF S
<1>7. O(Len(s)) = RecipientOrder(s)
  <2>1. SubSeq(s, 1, Len(s)) = s
    OBVIOUS
  <2> QED BY <2>1, RecipientsFold
<1> HIDE DEF O
<1> QED BY <1>6, <1>7

(* A sequence of zeros. *)
LEMMA TotalZero ==
  ASSUME NEW s \in Seq(Nat), \A i \in 1..Len(s) : s[i] = 0
  PROVE  Total(s) = 0
<1> DEFINE S == {k \in Nat : k <= Len(s) => Total(SubSeq(s, 1, k)) = 0}
<1>1. 0 \in S
  <2>1. SubSeq(s, 1, 0) = <<>>
    OBVIOUS
  <2> QED BY <2>1, TotalEmpty
<1>2. ASSUME NEW k \in Nat, k \in S PROVE k + 1 \in S
  <2> SUFFICES ASSUME k + 1 <= Len(s) PROVE Total(SubSeq(s, 1, k + 1)) = 0
    OBVIOUS
  <2>1. k <= Len(s) /\ k + 1 \in 1..Len(s)
    OBVIOUS
  <2>2. Total(SubSeq(s, 1, k)) = 0
    BY <1>2, <2>1
  <2>3. Total(SubSeq(s, 1, k + 1)) = Total(SubSeq(s, 1, k)) + s[k + 1]
    BY TotalPrefix
  <2> QED BY <2>1, <2>2, <2>3
<1> HIDE DEF S
<1>3. Len(s) \in S /\ SubSeq(s, 1, Len(s)) = s /\ Len(s) <= Len(s)
  <2>1. Nat \subseteq S
    BY <1>1, <1>2, SetInduction
  <2>2. Len(s) \in Nat /\ SubSeq(s, 1, Len(s)) = s
    OBVIOUS
  <2> QED BY <2>1, <2>2
<1> QED BY <1>3 DEF S

-----------------------------------------------------------------------------
(* PositionsOf is a fold. *)
LEMMA PositionsFold ==
  ASSUME NEW rs, NEW v
  PROVE  PositionsOf(rs, v) = FPos!Fold(<<>>, <<rs, v>>, [i \in DOMAIN rs |-> i])
<1>1. <<rs, v>>[1] = rs /\ <<rs, v>>[2] = v
  OBVIOUS
<1> QED BY <1>1 DEF PositionsOf, FPos!Fold, OnePosition, FPos!MapThenFoldSet, FPos!Max,
       FoldLeft, MapThenFoldSet, Max

(* The amounts for v, and 0 for the other recipients. *)
Masked(rs, amounts, v) == [i \in 1..Len(amounts) |-> IF rs[i] = v THEN amounts[i] ELSE 0]

(* The positions is of v: each once, and they carry all that is for v. *)
RightPositions(is, n, rs, amounts, v) ==
  /\ is \in Seq(1..n)
  /\ \A i, j \in 1..Len(is) : is[i] = is[j] => i = j
  /\ \A i \in 1..n : rs[i] = v <=> \E j \in 1..Len(is) : is[j] = i
  /\ Total([j \in 1..Len(is) |-> amounts[is[j]]]) = Total(Masked(rs, amounts, v))

(* The positions of a recipient are those at which it stands, each once,    *)
(* and the amounts there are what it is owed.                               *)
LEMMA PositionFacts ==
  ASSUME NEW n \in Nat, NEW T, NEW rs \in Seq(T), Len(rs) = n, NEW amounts \in Seq(Nat), Len(amounts) = n, NEW v
  PROVE  RightPositions(PositionsOf(rs, v), n, rs, amounts, v)
<1> DEFINE ix == [i \in DOMAIN rs |-> i]
           mask == Masked(rs, amounts, v)
           P(k) == FPos!Fold(<<>>, <<rs, v>>, SubSeq(ix, 1, k))
           Sums(o, k) == Total([j \in 1..Len(o) |-> amounts[o[j]]]) = Total(SubSeq(mask, 1, k))
           Good(o, k) == /\ o \in Seq(1..k)
                         /\ \A i, j \in 1..Len(o) : o[i] = o[j] => i = j
                         /\ \A i \in 1..k : rs[i] = v <=> \E j \in 1..Len(o) : o[j] = i
                         /\ Sums(o, k)
           S == {k \in Nat : k <= n => Good(P(k), k)}
<1>1. ix \in Seq(Nat) /\ Len(ix) = n /\ \A i \in 1..n : ix[i] = i
  <2>1. DOMAIN rs = 1..n
    OBVIOUS
  <2>2. ix \in [1..n -> Nat]
    BY <2>1
  <2> QED BY <2>1, <2>2
<1>2. mask \in Seq(Nat) /\ Len(mask) = n /\ \A i \in 1..n : mask[i] = IF rs[i] = v THEN amounts[i] ELSE 0
  <2>1. \A i \in 1..n : amounts[i] \in Nat
    OBVIOUS
  <2>2. mask \in [1..n -> Nat]
    BY <2>1 DEF Masked
  <2> QED BY <2>2 DEF Masked
<1> HIDE DEF ix, mask
<1>3. 0 \in S
  <2>1. P(0) = <<>>
    <3>1. SubSeq(ix, 1, 0) = <<>>
      BY <1>1
    <3> QED BY <3>1, FPosInduction, FPos!FoldEmpty
  <2>2. 1..Len(<<>>) = {} /\ 1..0 = {} /\ <<>> \in Seq(1..0)
    OBVIOUS
  <2>3. [j \in 1..Len(<<>>) |-> amounts[<<>>[j]]] = <<>>
    BY <2>2
  <2>4. SubSeq(mask, 1, 0) = <<>>
    BY <1>2
  <2> HIDE DEF P
  <2>5. Sums(P(0), 0)
    BY <2>1, <2>3, <2>4
  <2> HIDE DEF Sums
  <2>6. Good(P(0), 0)
    BY <2>1, <2>2, <2>5
  <2> HIDE DEF Good
  <2> QED BY <2>6
<1>4. ASSUME NEW k \in Nat, k \in S PROVE k + 1 \in S
  <2> HIDE DEF Good, P
  <2> SUFFICES ASSUME k + 1 <= n PROVE Good(P(k + 1), k + 1)
    OBVIOUS
  <2> DEFINE o == P(k)
             p == P(k + 1)
  <2>0. k \in 0..n /\ k + 1 \in 1..n /\ k <= n
    OBVIOUS
  <2>1. Good(o, k) /\ k \in 0..n /\ k + 1 \in 1..n
    BY <1>4, <2>0
  <2> USE DEF Good, P
  <2>2. p = IF rs[k + 1] = v THEN Append(o, k + 1) ELSE o
    <3>1. p = OnePosition(o, ix[k + 1], <<rs, v>>)
      BY <1>1, FPosInduction, FPos!FoldPrefix
    <3>2. ix[k + 1] = k + 1 /\ <<rs, v>>[1] = rs /\ <<rs, v>>[2] = v
      BY <1>1, <2>1
    <3> HIDE DEF p, o
    <3> QED BY <3>1, <3>2 DEF OnePosition
  <2>3. Total(SubSeq(mask, 1, k + 1)) = Total(SubSeq(mask, 1, k)) + mask[k + 1]
    BY <1>2, TotalPrefix
  <2>4. \A i \in 1..(k + 1) : i \in 1..k \/ i = k + 1
    OBVIOUS
  <2>5. \A i \in 1..k : i \in 1..(k + 1) /\ i # k + 1
    OBVIOUS
  <2>6. k + 1 \in 1..(k + 1)
    OBVIOUS
  <2>7. Len(o) \in Nat /\ \A j \in 1..Len(o) : o[j] \in 1..k
    <3> HIDE DEF o
    <3> QED BY <2>1
  <2>8. Total(SubSeq(mask, 1, k)) \in Nat
    <3>1. SubSeq(mask, 1, k) \in Seq(Nat)
      BY <1>2, <2>1
    <3> QED BY <3>1, TotalNat
  <2> HIDE DEF P
  <2>9. CASE rs[k + 1] # v
    <3>1. p = o /\ mask[k + 1] = 0
      BY <1>2, <2>1, <2>2, <2>9
    <3>2. o \in Seq(1..(k + 1))
      <4> HIDE DEF o
      <4>1. o \in Seq(1..k) /\ 1..k \subseteq 1..(k + 1)
        BY <2>1
      <4> QED BY <4>1
    <3>3. \A i \in 1..(k + 1) : rs[i] = v <=> \E j \in 1..Len(o) : o[j] = i
      <4> HIDE DEF o
      <4> SUFFICES ASSUME NEW i \in 1..(k + 1) PROVE rs[i] = v <=> \E j \in 1..Len(o) : o[j] = i
        OBVIOUS
      <4>1. CASE i \in 1..k
        BY <2>1, <4>1
      <4>2. CASE i = k + 1
        BY <2>5, <2>7, <2>9, <4>2
      <4> QED BY <2>4, <4>1, <4>2
    <3>4. Sums(o, k + 1)
      BY <2>1, <2>3, <2>8, <3>1
    <3> HIDE DEF Sums
    <3>5. Good(o, k + 1)
      BY <2>1, <3>2, <3>3, <3>4
    <3> HIDE DEF Good, o, p
    <3> QED BY <3>1, <3>5 DEF p
  <2>10. CASE rs[k + 1] = v
    <3>1. p = Append(o, k + 1) /\ mask[k + 1] = amounts[k + 1] /\ amounts[k + 1] \in Nat
      BY <1>2, <2>1, <2>2, <2>10
    <3>2. /\ p \in Seq(1..(k + 1)) /\ Len(p) = Len(o) + 1
          /\ p[Len(o) + 1] = k + 1 /\ \A j \in 1..Len(o) : p[j] = o[j]
      <4>1. o \in Seq(1..k) /\ 1..k \subseteq 1..(k + 1)
        BY <2>1
      <4> HIDE DEF o, p
      <4>2. o \in Seq(1..(k + 1))
        BY <4>1
      <4> QED BY <2>6, <3>1, <4>2
    <3>3. \A j \in 1..Len(p) : j \in 1..Len(o) \/ j = Len(o) + 1
      <4> HIDE DEF o, p
      <4> QED BY <2>7, <3>2
    <3>4. Len(o) + 1 \in 1..Len(p) /\ \A j \in 1..Len(o) : j \in 1..Len(p)
      <4> HIDE DEF o, p
      <4> QED BY <2>7, <3>2
    <3>5. \A i, j \in 1..Len(p) : p[i] = p[j] => i = j
      <4> HIDE DEF o, p
      <4> SUFFICES ASSUME NEW i \in 1..Len(p), NEW j \in 1..Len(p), p[i] = p[j] PROVE i = j
        OBVIOUS
      <4>1. CASE i \in 1..Len(o) /\ j \in 1..Len(o)
        BY <2>1, <3>2, <4>1
      <4>2. CASE i \in 1..Len(o) /\ j = Len(o) + 1
        BY <2>5, <2>7, <3>2, <4>2
      <4>3. CASE i = Len(o) + 1 /\ j \in 1..Len(o)
        BY <2>5, <2>7, <3>2, <4>3
      <4> QED BY <3>3, <4>1, <4>2, <4>3, Zenon
    <3>6. \A i \in 1..(k + 1) : rs[i] = v <=> \E j \in 1..Len(p) : p[j] = i
      <4> HIDE DEF o, p
      <4> SUFFICES ASSUME NEW i \in 1..(k + 1) PROVE rs[i] = v <=> \E j \in 1..Len(p) : p[j] = i
        OBVIOUS
      <4>1. CASE i \in 1..k
        <5>1. rs[i] = v <=> \E j \in 1..Len(o) : o[j] = i
          BY <2>1, <4>1
        <5>2. ASSUME NEW j \in 1..Len(o), o[j] = i PROVE \E jj \in 1..Len(p) : p[jj] = i
          BY <3>2, <3>4, <5>2
        <5>3. ASSUME NEW j \in 1..Len(p), p[j] = i PROVE j \in 1..Len(o) /\ o[j] = i
          BY <2>5, <3>2, <3>3, <4>1, <5>3
        <5> QED BY <5>1, <5>2, <5>3
      <4>2. CASE i = k + 1
        BY <2>10, <3>2, <3>4, <4>2
      <4> QED BY <2>4, <4>1, <4>2
    <3>7. Sums(p, k + 1)
      <4> DEFINE f == [j \in 1..Len(o) |-> amounts[o[j]]]
                 g == [j \in 1..Len(p) |-> amounts[p[j]]]
      <4>0. \A j \in 1..Len(o) : amounts[o[j]] \in Nat
        <5> HIDE DEF o, p
        <5>1. \A j \in 1..Len(o) : o[j] \in 1..Len(amounts)
          BY <2>1, <2>7
        <5> QED BY <5>1
      <4>1. f \in Seq(Nat) /\ Len(f) = Len(o) /\ \A j \in 1..Len(o) : f[j] = amounts[o[j]]
        <5> HIDE DEF o, p
        <5>1. f \in [1..Len(o) -> Nat]
          BY <4>0
        <5> QED BY <2>7, <5>1
      <4>2. g \in Seq(Nat) /\ Len(g) = Len(o) + 1 /\ g[Len(o) + 1] = amounts[k + 1]
            /\ \A j \in 1..Len(o) : g[j] = f[j]
        <5> HIDE DEF o, p
        <5>1. \A j \in 1..Len(p) : amounts[p[j]] \in Nat
          BY <3>1, <3>2, <3>3, <4>0
        <5>2. g \in [1..Len(p) -> Nat]
          BY <5>1
        <5>3. Len(p) \in Nat
          BY <2>7, <3>2
        <5>4. g \in Seq(Nat) /\ Len(g) = Len(p)
          BY <5>2, <5>3
        <5> QED BY <3>2, <3>4, <5>4
      <4> HIDE DEF f, g
      <4>3. g = Append(f, amounts[k + 1])
        <5> DEFINE h == Append(f, amounts[k + 1])
        <5>1. h \in Seq(Nat) /\ Len(h) = Len(o) + 1 /\ h[Len(o) + 1] = amounts[k + 1]
              /\ \A j \in 1..Len(o) : h[j] = f[j]
          <6> HIDE DEF o, p
          <6> QED BY <3>1, <4>1
        <5> HIDE DEF h, o, p
        <5>2. \A j \in 1..(Len(o) + 1) : j \in 1..Len(o) \/ j = Len(o) + 1
          BY <2>7
        <5>3. \A j \in 1..Len(g) : g[j] = h[j]
          BY <4>2, <5>1, <5>2
        <5>4. g = h
          BY <4>2, <5>1, <5>3, SeqEqual
        <5> QED BY <5>4 DEF h
      <4>4. Total(g) = Total(f) + amounts[k + 1]
        BY <3>1, <4>1, <4>3, TotalAppend
      <4>5. Total(f) = Total(SubSeq(mask, 1, k))
        BY <2>1 DEF f
      <4>6. Total(g) = Total(SubSeq(mask, 1, k + 1))
        BY <2>3, <3>1, <4>4, <4>5
      <4> QED BY <4>6 DEF g
    <3> HIDE DEF Sums
    <3>8. Good(p, k + 1)
      <4> HIDE DEF p, o
      <4> QED BY <3>2, <3>5, <3>6, <3>7
    <3> HIDE DEF Good
    <3> QED BY <3>8
  <2> QED BY <2>9, <2>10
<1> HIDE DEF S
<1>5. n \in S /\ n <= n
  <2>1. Nat \subseteq S
    BY <1>3, <1>4, SetInduction
  <2> QED BY <2>1
<1>6. Good(P(n), n)
  BY <1>5 DEF S
<1>7. P(n) = PositionsOf(rs, v)
  <2>1. SubSeq(ix, 1, n) = ix
    BY <1>1
  <2> QED BY <2>1, PositionsFold DEF ix
<1>8. SubSeq(mask, 1, n) = mask
  BY <1>2
<1> HIDE DEF P
<1> QED BY <1>6, <1>7, <1>8 DEF mask, RightPositions

(***************************************************************************)
(* The machine of MoveExec, one command at a time.                         *)
(***************************************************************************)
OneStep(m, c, pt) == Step(pt, m, c)
FRun == INSTANCE SeqFolds WITH op <- OneStep

(* Induction, the hypothesis of FRun. *)
LEMMA FRunInduction == FRun!Induction
BY SetInduction DEF FRun!Induction

Delivering == {"TransferObjects", "deposit", "coin::send_funds", "balance::send_funds"}
Making == {"MakeMoveVec", "coin::redeem_funds", "balance::redeem_funds"}
Names == Delivering \cup Making \cup {"SplitCoins", "MergeCoins"}

Sends(cmd) == cmd.name \in {"coin::send_funds", "balance::send_funds"}

IsMachine(m) ==
  /\ m = [at |-> m.at, got |-> m.got, err |-> m.err]
  /\ m.at \in [DOMAIN m.at -> Nat]
  /\ m.got \in [Accounts -> Nat]

(* What is taken for args, and what it is worth. *)
TakenBy(pt, args) == {Place(pt, args[i]) : i \in DOMAIN args}
SumAt(pt, m, args) == Total([i \in DOMAIN args |-> m.at[Place(pt, args[i])]])

CanTake(pt, m, types, args) ==
  /\ \A i, j \in DOMAIN args : Place(pt, args[i]) = Place(pt, args[j]) => i = j
  /\ TakenBy(pt, args) \subseteq DOMAIN m.at
  /\ \A i \in DOMAIN args : TypeOf(pt, Place(pt, args[i])) \in types

TypesOf(cmd) ==
  CASE cmd.name \in {"TransferObjects", "MakeMoveVec", "MergeCoins", "coin::send_funds"} -> {"Object"}
    [] cmd.name = "deposit" -> {"Object", "Vector"}
    [] cmd.name = "balance::send_funds" -> {"Balance"}
    [] cmd.name \in {"coin::redeem_funds", "balance::redeem_funds"} -> {"FundsWithdrawal"}

(* The arguments whose values are taken. *)
Given(cmd) == IF Sends(cmd) THEN <<cmd.args[1]>> ELSE cmd.args

Account(pt, cmd) ==
  CASE cmd.name = "TransferObjects" -> <<PureOf(pt, cmd.arg), "coin">>
    [] cmd.name = "deposit" -> <<Pool, "coin">>
    [] Sends(cmd) -> <<PureOf(pt, cmd.args[2]), "balance">>

Pieces(pt, cmd) == [i \in DOMAIN cmd.args |-> PureOf(pt, cmd.args[i])]

(* What the command at c needs, and the machine after it. *)
Needs(pt, m, cmd) ==
  /\ (\E i \in DOMAIN cmd.args : cmd.args[i] = GasCoin) => cmd.name = "TransferObjects"
  /\ cmd.name \in Names \ {"SplitCoins"} => CanTake(pt, m, TypesOf(cmd), Given(cmd))
  /\ cmd.name = "SplitCoins" =>
       /\ Place(pt, cmd.arg) \in DOMAIN m.at
       /\ Total(Pieces(pt, cmd)) <= m.at[Place(pt, cmd.arg)]
  /\ cmd.name = "MergeCoins" =>
       Place(pt, cmd.arg) \in DOMAIN m.at \ TakenBy(pt, cmd.args)

Placed(at, c, amounts) ==
  [p \in DOMAIN at \cup {NestedResultArg(c, i - 1) : i \in DOMAIN amounts} |->
     IF p \in DOMAIN at THEN at[p] ELSE amounts[p[3] + 1]]

Rest(pt, m, cmd) == Without(m.at, TakenBy(pt, Given(cmd)))

Does(pt, m, c) ==
  LET cmd == pt.commands[c + 1]
      sum == SumAt(pt, m, Given(cmd))
      rest == Rest(pt, m, cmd)
      old == Place(pt, cmd.arg)
  IN [at  |-> CASE cmd.name \in Delivering -> rest
                [] cmd.name \in Making -> Placed(rest, c, <<sum>>)
                [] cmd.name = "SplitCoins" ->
                     Placed([m.at EXCEPT ![old] = @ - Total(Pieces(pt, cmd))], c, Pieces(pt, cmd))
                [] cmd.name = "MergeCoins" -> [rest EXCEPT ![old] = @ + sum],
      got |-> IF cmd.name \in Delivering THEN [m.got EXCEPT ![Account(pt, cmd)] = @ + sum] ELSE m.got,
      err |-> "none"]

-----------------------------------------------------------------------------
(* Whether Take takes, in terms of the places of the arguments. *)
LEMMA TakePlaces ==
  ASSUME NEW pt, NEW m, NEW types, NEW args
  PROVE  LET places == [i \in DOMAIN args |-> Place(pt, args[i])]
         IN /\ ToSet(places) = TakenBy(pt, args)
            /\ (/\ IsInjective(places) /\ ToSet(places) \subseteq DOMAIN m.at
                /\ ~ \E i \in DOMAIN places : TypeOf(pt, places[i]) \notin types)
               <=> CanTake(pt, m, types, args)
BY DEF ToSet, TakenBy, IsInjective, CanTake

(* A machine that aborts has an error. *)
LEMMA AbortErr ==
  ASSUME NEW m, IsMachine(m), NEW why
  PROVE  Abort(m, why).err = why
BY DEF IsMachine, Abort

(* A command that takes the gas coin without transferring it. *)
LEMMA StepGas ==
  ASSUME NEW pt, NEW m, IsMachine(m), m.err = "none", NEW c,
         NEW cmd, cmd = pt.commands[c + 1],
         \E i \in DOMAIN cmd.args : cmd.args[i] = GasCoin, cmd.name # "TransferObjects"
  PROVE  Step(pt, m, c).err # "none"
<1>1. GasCoin \in ToSet(cmd.args)
  BY DEF ToSet
<1>2. Step(pt, m, c) = Abort(m, "InvalidGasCoinUsage")
  BY <1>1 DEF Step
<1> QED BY <1>2, AbortErr

(* Machines as records. *)
LEMMA MachineAt ==
  ASSUME NEW m, IsMachine(m), NEW x
  PROVE  [m EXCEPT !.at = x] = [at |-> x, got |-> m.got, err |-> m.err]
BY DEF IsMachine

(* An update of one place of a machine. *)
LEMMA MachineAtEntry ==
  ASSUME NEW x, NEW g, NEW e, NEW p, NEW y
  PROVE  /\ [[at |-> x, got |-> g, err |-> e] EXCEPT !.at[p] = @ + y]
              = [at |-> [x EXCEPT ![p] = @ + y], got |-> g, err |-> e]
         /\ [[at |-> x, got |-> g, err |-> e] EXCEPT !.at[p] = @ - y]
              = [at |-> [x EXCEPT ![p] = @ - y], got |-> g, err |-> e]
OBVIOUS

(* What Put answers, field by field. *)
LEMMA PutIs ==
  ASSUME NEW x, NEW g, NEW e, NEW c, NEW amounts
  PROVE  Put([at |-> x, got |-> g, err |-> e], c, amounts) = [at |-> Placed(x, c, amounts), got |-> g, err |-> e]
BY DEF Put, Placed

(* The commands that deliver what they take. *)
LEMMA StepDelivers ==
  ASSUME NEW pt, NEW m, IsMachine(m), m.err = "none", NEW c,
         NEW cmd, cmd = pt.commands[c + 1], cmd.name \in Delivering,
         (\E i \in DOMAIN cmd.args : cmd.args[i] = GasCoin) => cmd.name = "TransferObjects"
  PROVE  /\ CanTake(pt, m, TypesOf(cmd), Given(cmd)) =>
              Step(pt, m, c) = Pay1([m EXCEPT !.at = Rest(pt, m, cmd)], Account(pt, cmd), SumAt(pt, m, Given(cmd)))
         /\ ~ CanTake(pt, m, TypesOf(cmd), Given(cmd)) => Step(pt, m, c).err # "none"
<1> DEFINE types == TypesOf(cmd)
           args == Given(cmd)
           places == [i \in DOMAIN args |-> Place(pt, args[i])]
           S == Step(pt, m, c)
<1>1. ~ (GasCoin \in ToSet(cmd.args) /\ cmd.name # "TransferObjects")
  BY DEF ToSet
<1>2. ASSUME CanTake(pt, m, types, args)
      PROVE  S = Pay1([m EXCEPT !.at = Rest(pt, m, cmd)], Account(pt, cmd), SumAt(pt, m, args))
  <2>3. /\ IsInjective(places) /\ ToSet(places) \subseteq DOMAIN m.at
        /\ ~ \E i \in DOMAIN places : TypeOf(pt, places[i]) \notin types
        /\ ToSet(places) = TakenBy(pt, args)
    BY <1>2, TakePlaces
  <2>4. [i \in DOMAIN args |-> m.at[places[i]]] = [i \in DOMAIN args |-> m.at[Place(pt, args[i])]]
    OBVIOUS
  <2>5. CASE cmd.name = "TransferObjects"
    <3>1. types = {"Object"} /\ args = cmd.args /\ Account(pt, cmd) = <<PureOf(pt, cmd.arg), "coin">>
      BY <2>5 DEF TypesOf, Given, Sends, Account
    <3> HIDE DEF types
    <3> QED BY Zenon, <1>1, <2>3, <2>4, <2>5, <3>1 DEF Step, Take, SumAt, Rest
  <2>6. CASE cmd.name = "deposit"
    <3>1. types = {"Object", "Vector"} /\ args = cmd.args /\ Account(pt, cmd) = <<Pool, "coin">>
      BY <2>6 DEF TypesOf, Given, Sends, Account
    <3> HIDE DEF types
    <3> QED BY Zenon, <1>1, <2>3, <2>4, <2>6, <3>1 DEF Step, Take, SumAt, Rest
  <2>7. CASE cmd.name = "coin::send_funds"
    <3>1. types = {"Object"} /\ args = <<cmd.args[1]>> /\ Account(pt, cmd) = <<PureOf(pt, cmd.args[2]), "balance">>
      BY <2>7 DEF TypesOf, Given, Sends, Account
    <3> HIDE DEF types
    <3> QED BY Zenon, <1>1, <2>3, <2>4, <2>7, <3>1 DEF Step, Take, SumAt, Rest
  <2>8. CASE cmd.name = "balance::send_funds"
    <3>1. types = {"Balance"} /\ args = <<cmd.args[1]>> /\ Account(pt, cmd) = <<PureOf(pt, cmd.args[2]), "balance">>
      BY <2>8 DEF TypesOf, Given, Sends, Account
    <3> HIDE DEF types
    <3> QED BY Zenon, <1>1, <2>3, <2>4, <2>8, <3>1 DEF Step, Take, SumAt, Rest
  <2> QED BY <2>5, <2>6, <2>7, <2>8 DEF Delivering
<1>3. ASSUME ~ CanTake(pt, m, types, args)
      PROVE  S.err # "none"
  <2>3. ~ (/\ IsInjective(places) /\ ToSet(places) \subseteq DOMAIN m.at
           /\ ~ \E i \in DOMAIN places : TypeOf(pt, places[i]) \notin types)
    BY <1>3, TakePlaces
  <2>4. \A why : Abort(m, why).err = why
    BY AbortErr
  <2>5. CASE cmd.name = "TransferObjects"
    <3>1. types = {"Object"} /\ args = cmd.args
      BY <2>5 DEF TypesOf, Given, Sends
    <3> HIDE DEF types
    <3>2. S = Abort(m, "InvalidValueUsage") \/ S = Abort(m, "TypeMismatch")
      BY <1>1, <2>3, <2>5, <3>1 DEF Step, Take
    <3> QED BY <2>4, <3>2
  <2>6. CASE cmd.name = "deposit"
    <3>1. types = {"Object", "Vector"} /\ args = cmd.args
      BY <2>6 DEF TypesOf, Given, Sends
    <3> HIDE DEF types
    <3>2. S = Abort(m, "InvalidValueUsage") \/ S = Abort(m, "TypeMismatch")
      BY Zenon, <1>1, <2>3, <2>6, <3>1 DEF Step, Take
    <3> QED BY <2>4, <3>2
  <2>7. CASE cmd.name = "coin::send_funds"
    <3>1. types = {"Object"} /\ args = <<cmd.args[1]>>
      BY <2>7 DEF TypesOf, Given, Sends
    <3> HIDE DEF types
    <3>2. S = Abort(m, "InvalidValueUsage") \/ S = Abort(m, "TypeMismatch")
      BY Zenon, <1>1, <2>3, <2>7, <3>1 DEF Step, Take
    <3> QED BY <2>4, <3>2
  <2>8. CASE cmd.name = "balance::send_funds"
    <3>1. types = {"Balance"} /\ args = <<cmd.args[1]>>
      BY <2>8 DEF TypesOf, Given, Sends
    <3> HIDE DEF types
    <3>2. S = Abort(m, "InvalidValueUsage") \/ S = Abort(m, "TypeMismatch")
      BY Zenon, <1>1, <2>3, <2>8, <3>1 DEF Step, Take
    <3> QED BY <2>4, <3>2
  <2> QED BY <2>5, <2>6, <2>7, <2>8 DEF Delivering
<1> QED BY <1>2, <1>3

(* The commands that make one value of what they take. *)
LEMMA StepMakes ==
  ASSUME NEW pt, NEW m, IsMachine(m), m.err = "none", NEW c,
         NEW cmd, cmd = pt.commands[c + 1], cmd.name \in Making,
         ~ \E i \in DOMAIN cmd.args : cmd.args[i] = GasCoin
  PROVE  /\ CanTake(pt, m, TypesOf(cmd), Given(cmd)) =>
              Step(pt, m, c) = Put([m EXCEPT !.at = Rest(pt, m, cmd)], c, <<SumAt(pt, m, Given(cmd))>>)
         /\ ~ CanTake(pt, m, TypesOf(cmd), Given(cmd)) => Step(pt, m, c).err # "none"
<1> DEFINE types == TypesOf(cmd)
           args == cmd.args
           places == [i \in DOMAIN args |-> Place(pt, args[i])]
           S == Step(pt, m, c)
<1>1. ~ (GasCoin \in ToSet(cmd.args) /\ cmd.name # "TransferObjects")
  BY DEF ToSet
<1>0. Given(cmd) = args
  BY DEF Making, Given, Sends
<1>2. ASSUME CanTake(pt, m, types, args)
      PROVE  S = Put([m EXCEPT !.at = Rest(pt, m, cmd)], c, <<SumAt(pt, m, args)>>)
  <2>3. /\ IsInjective(places) /\ ToSet(places) \subseteq DOMAIN m.at
        /\ ~ \E i \in DOMAIN places : TypeOf(pt, places[i]) \notin types
        /\ ToSet(places) = TakenBy(pt, args)
    BY <1>2, TakePlaces
  <2>4. [i \in DOMAIN args |-> m.at[places[i]]] = [i \in DOMAIN args |-> m.at[Place(pt, args[i])]]
    OBVIOUS
  <2>5. CASE cmd.name = "MakeMoveVec"
    <3>1. types = {"Object"}
      BY <2>5 DEF TypesOf
    <3> HIDE DEF types
    <3> QED BY Zenon, <1>0, <1>1, <2>3, <2>4, <2>5, <3>1 DEF Step, Take, SumAt, Rest
  <2>6. CASE cmd.name = "coin::redeem_funds"
    <3>1. types = {"FundsWithdrawal"}
      BY <2>6 DEF TypesOf
    <3> HIDE DEF types
    <3> QED BY Zenon, <1>0, <1>1, <2>3, <2>4, <2>6, <3>1 DEF Step, Take, SumAt, Rest
  <2>7. CASE cmd.name = "balance::redeem_funds"
    <3>1. types = {"FundsWithdrawal"}
      BY <2>7 DEF TypesOf
    <3> HIDE DEF types
    <3> QED BY Zenon, <1>0, <1>1, <2>3, <2>4, <2>7, <3>1 DEF Step, Take, SumAt, Rest
  <2> QED BY <2>5, <2>6, <2>7 DEF Making
<1>3. ASSUME ~ CanTake(pt, m, types, args)
      PROVE  S.err # "none"
  <2>3. ~ (/\ IsInjective(places) /\ ToSet(places) \subseteq DOMAIN m.at
           /\ ~ \E i \in DOMAIN places : TypeOf(pt, places[i]) \notin types)
    BY <1>3, TakePlaces
  <2>4. \A why : Abort(m, why).err = why
    BY AbortErr
  <2>5. CASE cmd.name = "MakeMoveVec"
    <3>1. types = {"Object"}
      BY <2>5 DEF TypesOf
    <3> HIDE DEF types
    <3>2. S = Abort(m, "InvalidValueUsage") \/ S = Abort(m, "TypeMismatch")
      BY Zenon, <1>1, <2>3, <2>5, <3>1 DEF Step, Take
    <3> QED BY <2>4, <3>2
  <2>6. CASE cmd.name = "coin::redeem_funds"
    <3>1. types = {"FundsWithdrawal"}
      BY <2>6 DEF TypesOf
    <3> HIDE DEF types
    <3>2. S = Abort(m, "InvalidValueUsage") \/ S = Abort(m, "TypeMismatch")
      BY Zenon, <1>1, <2>3, <2>6, <3>1 DEF Step, Take
    <3> QED BY <2>4, <3>2
  <2>7. CASE cmd.name = "balance::redeem_funds"
    <3>1. types = {"FundsWithdrawal"}
      BY <2>7 DEF TypesOf
    <3> HIDE DEF types
    <3>2. S = Abort(m, "InvalidValueUsage") \/ S = Abort(m, "TypeMismatch")
      BY Zenon, <1>1, <2>3, <2>7, <3>1 DEF Step, Take
    <3> QED BY <2>4, <3>2
  <2> QED BY <2>5, <2>6, <2>7 DEF Making
<1> QED BY <1>0, <1>2, <1>3

(* What a SplitCoins does: it splits if the coin is there and worth enough, *)
(* and aborts otherwise.                                                    *)
LEMMA StepSplits ==
  ASSUME NEW pt, NEW m, IsMachine(m), m.err = "none", NEW c,
         NEW cmd, cmd = pt.commands[c + 1], cmd.name = "SplitCoins",
         ~ \E i \in DOMAIN cmd.args : cmd.args[i] = GasCoin
  PROVE  LET from == Place(pt, cmd.arg)
             sum == Total(Pieces(pt, cmd))
             can == from \in DOMAIN m.at /\ ~ (sum > m.at[from])
         IN /\ can => Step(pt, m, c) = Put([m EXCEPT !.at[from] = @ - sum], c, Pieces(pt, cmd))
            /\ ~ can => Step(pt, m, c).err # "none"
<1>1. ~ (GasCoin \in ToSet(cmd.args) /\ cmd.name # "TransferObjects")
  BY DEF ToSet
<1>2. Step(pt, m, c) = Split(pt, m, c, cmd.arg, Pieces(pt, cmd))
  BY <1>1 DEF Step, Pieces
<1>3. \A why : Abort(m, why).err = why
  BY AbortErr
<1> QED BY <1>2, <1>3 DEF Split

(* What a MergeCoins does: it merges if all coins are there and differ, and *)
(* aborts otherwise.                                                        *)
LEMMA StepMerges ==
  ASSUME NEW pt, NEW m, IsMachine(m), m.err = "none", NEW c,
         NEW cmd, cmd = pt.commands[c + 1], cmd.name = "MergeCoins",
         ~ \E i \in DOMAIN cmd.args : cmd.args[i] = GasCoin,
         NEW rest, rest = Rest(pt, m, cmd),
         NEW into, into = Place(pt, cmd.arg)
  PROVE  /\ CanTake(pt, m, {"Object"}, cmd.args) /\ into \in DOMAIN rest =>
              Step(pt, m, c) = [at |-> [rest EXCEPT ![into] = @ + SumAt(pt, m, cmd.args)],
                                got |-> m.got, err |-> "none"]
         /\ ~ (CanTake(pt, m, {"Object"}, cmd.args) /\ into \in DOMAIN rest) => Step(pt, m, c).err # "none"
<1> DEFINE args == cmd.args
           places == [i \in DOMAIN args |-> Place(pt, args[i])]
           S == Step(pt, m, c)
           can == CanTake(pt, m, {"Object"}, args)
           m1 == [at |-> rest, got |-> m.got, err |-> "none"]
<1>1. ~ (GasCoin \in ToSet(cmd.args) /\ cmd.name # "TransferObjects")
  BY DEF ToSet
<1>2. S = Merge(pt, m, cmd.arg, args)
  BY <1>1 DEF Step
<1>3. \A why : Abort(m, why).err = why
  BY AbortErr
<1>4. ToSet(places) = TakenBy(pt, args) /\ Given(cmd) = args
  BY TakePlaces DEF Given, Sends
<1>5. can <=> (/\ IsInjective(places) /\ ToSet(places) \subseteq DOMAIN m.at
               /\ ~ \E i \in DOMAIN places : TypeOf(pt, places[i]) \notin {"Object"})
  BY TakePlaces
<1>6. [m EXCEPT !.at = Without(m.at, ToSet(places))] = m1
  <2>1. [m EXCEPT !.at = rest] = m1
    BY MachineAt
  <2>2. rest = Without(m.at, ToSet(places))
    BY <1>4 DEF Rest
  <2> QED BY <2>1, <2>2
<1>7. [i \in DOMAIN args |-> m.at[places[i]]] = [i \in DOMAIN args |-> m.at[Place(pt, args[i])]]
  OBVIOUS
<1> HIDE DEF can
<1>8. ASSUME can, into \in DOMAIN rest
      PROVE  S = [at |-> [rest EXCEPT ![into] = @ + SumAt(pt, m, args)], got |-> m.got, err |-> "none"]
  <2>1. [m1 EXCEPT !.at[into] = @ + SumAt(pt, m, args)] = [at |-> [rest EXCEPT ![into] = @ + SumAt(pt, m, args)], got |-> m.got, err |-> "none"]
    BY MachineAtEntry
  <2>2. m1.at = rest
    OBVIOUS
  <2> HIDE DEF m1
  <2>3. Merge(pt, m, cmd.arg, args) = [m1 EXCEPT !.at[into] = @ + Total([i \in DOMAIN args |-> m.at[places[i]]])]
    BY Zenon, <1>5, <1>6, <1>8, <2>2 DEF Merge, Take
  <2> QED BY Zenon, <1>2, <1>7, <2>1, <2>3 DEF SumAt
<1>10. ASSUME can, into \notin DOMAIN rest PROVE S.err # "none"
  <2>1. rest = Without(m.at, ToSet(places))
    BY <1>4 DEF Rest
  <2> QED BY <1>2, <1>5, <1>10, <2>1 DEF Merge, Take, Abort, IsMachine
<1>11. ASSUME ~ can PROVE S.err # "none"
  <2>1. S = Abort(m, "InvalidValueUsage") \/ S = Abort(m, "TypeMismatch")
    BY Zenon, <1>2, <1>5, <1>11 DEF Merge, Take
  <2> QED BY <1>3, <2>1
<1> QED BY <1>8, <1>10, <1>11 DEF can

(* One step of the machine: the effect of the command if it has what it     *)
(* needs, an abort if not.                                                  *)
LEMMA StepIs ==
  ASSUME NEW pt, NEW m, IsMachine(m), m.err = "none", NEW c,
         NEW cmd, cmd = pt.commands[c + 1], cmd.name \in Names,
         cmd.name = "SplitCoins" => Total(Pieces(pt, cmd)) \in Nat
  PROVE  /\ Needs(pt, m, cmd) => Step(pt, m, c) = Does(pt, m, c)
         /\ ~ Needs(pt, m, cmd) => Step(pt, m, c).err # "none"
<1> DEFINE byGas == \E i \in DOMAIN cmd.args : cmd.args[i] = GasCoin
<1>1. CASE byGas /\ cmd.name # "TransferObjects"
  <2>1. Step(pt, m, c).err # "none"
    BY <1>1, StepGas
  <2> QED BY <1>1, <2>1 DEF Needs
<1>2. CASE cmd.name \in Delivering /\ ~ (byGas /\ cmd.name # "TransferObjects")
  <2> DEFINE can == CanTake(pt, m, TypesOf(cmd), Given(cmd))
  <2>1. cmd.name \in Names \ {"SplitCoins"} /\ cmd.name \notin {"SplitCoins", "MergeCoins"} /\ cmd.name \notin Making
    BY <1>2 DEF Names, Delivering, Making
  <2>2. Needs(pt, m, cmd) <=> can
    BY <1>2, <2>1 DEF Needs
  <2>3. /\ can => Step(pt, m, c) = Pay1([m EXCEPT !.at = Rest(pt, m, cmd)], Account(pt, cmd), SumAt(pt, m, Given(cmd)))
        /\ ~ can => Step(pt, m, c).err # "none"
    BY <1>2, StepDelivers
  <2>4. Pay1([m EXCEPT !.at = Rest(pt, m, cmd)], Account(pt, cmd), SumAt(pt, m, Given(cmd))) = Does(pt, m, c)
    <3> DEFINE rest == Rest(pt, m, cmd)
               sum == SumAt(pt, m, Given(cmd))
               to == Account(pt, cmd)
    <3>1. Does(pt, m, c) = [at |-> rest, got |-> [m.got EXCEPT ![to] = @ + sum], err |-> "none"]
      BY <2>1, <1>2 DEF Does
    <3> HIDE DEF rest, sum, to
    <3>2. [m EXCEPT !.at = rest] = [at |-> rest, got |-> m.got, err |-> "none"]
      BY MachineAt
    <3>3. Pay1([at |-> rest, got |-> m.got, err |-> "none"], to, sum)
            = [at |-> rest, got |-> [m.got EXCEPT ![to] = @ + sum], err |-> "none"]
      BY DEF Pay1
    <3> QED BY <3>1, <3>2, <3>3 DEF rest, sum, to
  <2> QED BY <2>2, <2>3, <2>4
<1>3. CASE cmd.name \in Making /\ ~ byGas
  <2> DEFINE can == CanTake(pt, m, TypesOf(cmd), Given(cmd))
  <2>1. cmd.name \in Names \ {"SplitCoins"} /\ cmd.name \notin {"SplitCoins", "MergeCoins"} /\ cmd.name \notin Delivering
    BY <1>3 DEF Names, Delivering, Making
  <2>2. Needs(pt, m, cmd) <=> can
    BY <1>3, <2>1 DEF Needs
  <2>3. /\ can => Step(pt, m, c) = Put([m EXCEPT !.at = Rest(pt, m, cmd)], c, <<SumAt(pt, m, Given(cmd))>>)
        /\ ~ can => Step(pt, m, c).err # "none"
    BY <1>3, StepMakes
  <2>4. Put([m EXCEPT !.at = Rest(pt, m, cmd)], c, <<SumAt(pt, m, Given(cmd))>>) = Does(pt, m, c)
    <3> DEFINE rest == Rest(pt, m, cmd)
               amounts == <<SumAt(pt, m, Given(cmd))>>
    <3>1. Does(pt, m, c) = [at |-> Placed(rest, c, amounts), got |-> m.got, err |-> "none"]
      BY <1>3, <2>1 DEF Does
    <3> HIDE DEF rest, amounts
    <3>2. [m EXCEPT !.at = rest] = [at |-> rest, got |-> m.got, err |-> "none"]
      BY MachineAt
    <3> QED BY <3>1, <3>2, PutIs DEF rest, amounts
  <2> QED BY <2>2, <2>3, <2>4
<1>4. CASE cmd.name = "SplitCoins" /\ ~ byGas
  <2> DEFINE from == Place(pt, cmd.arg)
             sum == Total(Pieces(pt, cmd))
             can == from \in DOMAIN m.at /\ ~ (sum > m.at[from])
  <2>1. cmd.name \notin Delivering /\ cmd.name \notin Making
    BY <1>4 DEF Delivering, Making
  <2>2. Needs(pt, m, cmd) <=> can
    <3>1. from \in DOMAIN m.at => m.at[from] \in Nat
      BY DEF IsMachine
    <3>2. sum \in Nat
      BY <1>4
    <3>3. Needs(pt, m, cmd) <=> from \in DOMAIN m.at /\ sum <= m.at[from]
      BY <1>4 DEF Needs
    <3> HIDE DEF from, sum
    <3> QED BY <3>1, <3>2, <3>3
  <2>3. /\ can => Step(pt, m, c) = Put([m EXCEPT !.at[from] = @ - sum], c, Pieces(pt, cmd))
        /\ ~ can => Step(pt, m, c).err # "none"
    BY <1>4, StepSplits
  <2>4. Put([m EXCEPT !.at[from] = @ - sum], c, Pieces(pt, cmd)) = Does(pt, m, c)
    <3> DEFINE amounts == Pieces(pt, cmd)
               left == [m.at EXCEPT ![from] = @ - sum]
    <3>1. Does(pt, m, c) = [at |-> Placed(left, c, amounts), got |-> m.got, err |-> "none"]
      BY <1>4, <2>1 DEF Does, Delivering, Making
    <3>2. m = [at |-> m.at, got |-> m.got, err |-> "none"]
      BY DEF IsMachine
    <3> HIDE DEF from, sum, amounts
    <3>3. [[at |-> m.at, got |-> m.got, err |-> "none"] EXCEPT !.at[from] = @ - sum]
            = [at |-> left, got |-> m.got, err |-> "none"]
      BY MachineAtEntry
    <3>4. [m EXCEPT !.at[from] = @ - sum] = [at |-> left, got |-> m.got, err |-> "none"]
      BY <3>2, <3>3, Zenon
    <3> HIDE DEF left
    <3>5. Put([m EXCEPT !.at[from] = @ - sum], c, amounts) = [at |-> Placed(left, c, amounts), got |-> m.got, err |-> "none"]
      BY <3>4, PutIs
    <3> QED BY <3>1, <3>5 DEF amounts
  <2> QED BY <2>2, <2>3, <2>4
<1>5. CASE cmd.name = "MergeCoins" /\ ~ byGas
  <2> DEFINE into == Place(pt, cmd.arg)
             rest == Rest(pt, m, cmd)
             result == [at |-> [rest EXCEPT ![into] = @ + SumAt(pt, m, cmd.args)], got |-> m.got, err |-> "none"]
             can == CanTake(pt, m, {"Object"}, cmd.args) /\ into \in DOMAIN rest
  <2>1. cmd.name \notin Delivering /\ cmd.name \notin Making /\ Given(cmd) = cmd.args /\ TypesOf(cmd) = {"Object"}
        /\ cmd.name \in Names \ {"SplitCoins"}
    BY <1>5 DEF Delivering, Making, Given, Sends, TypesOf, Names
  <2>2. DOMAIN rest = DOMAIN m.at \ TakenBy(pt, cmd.args)
    BY <2>1 DEF Rest, Without
  <2>3. Needs(pt, m, cmd) <=> can
    BY <1>5, <2>1, <2>2 DEF Needs
  <2>4. (can => Step(pt, m, c) = result) /\ (~ can => Step(pt, m, c).err # "none")
    BY <1>5, StepMerges
  <2>5. Does(pt, m, c) = result
    BY <1>5, <2>1 DEF Does
  <2> QED BY <2>3, <2>4, <2>5
<1> QED BY <1>1, <1>2, <1>3, <1>4, <1>5 DEF Names, Delivering

(* m2 is m1 with the places N besides, which hold what A says. *)
Widens(at1, at2, N, A) ==
  /\ DOMAIN at2 = DOMAIN at1 \cup N
  /\ DOMAIN at1 \cap N = {}
  /\ \A p \in DOMAIN at1 : at2[p] = at1[p]
  /\ \A p \in N : at2[p] = A[p]

Extends(m1, m2, N, A) ==
  /\ m2.err = m1.err /\ m2.got = m1.got
  /\ Widens(m1.at, m2.at, N, A)

(* A command in two transactions that agree on what it refers to. *)
Agree(pt1, pt2, cmd, places) ==
  /\ \A i \in DOMAIN cmd.args : Place(pt1, cmd.args[i]) = Place(pt2, cmd.args[i])
  /\ \A p \in places : TypeOf(pt1, p) = TypeOf(pt2, p)
  /\ cmd.name \in {"SplitCoins", "MergeCoins"} => Place(pt1, cmd.arg) = Place(pt2, cmd.arg)
  /\ cmd.name = "SplitCoins" => Pieces(pt1, cmd) = Pieces(pt2, cmd)
  /\ cmd.name \in Delivering => Account(pt1, cmd) = Account(pt2, cmd)
  /\ Sends(cmd) => 1 \in DOMAIN cmd.args

(* Taking the same places keeps one machine wider than the other. *)
LEMMA WithoutWidens ==
  ASSUME NEW at1, NEW at2, NEW N, NEW A, Widens(at1, at2, N, A), NEW P, P \subseteq DOMAIN at1
  PROVE  Widens(Without(at1, P), Without(at2, P), N, A)
BY DEF Widens, Without

(* So does placing the same results. *)
LEMMA PlacedWidens ==
  ASSUME NEW at1, NEW at2, NEW N, NEW A, Widens(at1, at2, N, A), NEW c, NEW amounts,
         \A i \in DOMAIN amounts : NestedResultArg(c, i - 1) \notin N
  PROVE  Widens(Placed(at1, c, amounts), Placed(at2, c, amounts), N, A)
<1> DEFINE new == {NestedResultArg(c, i - 1) : i \in DOMAIN amounts}
           p1 == Placed(at1, c, amounts)
           p2 == Placed(at2, c, amounts)
<1>1. DOMAIN p1 = DOMAIN at1 \cup new /\ DOMAIN p2 = DOMAIN at2 \cup new
  BY DEF Placed
<1>2. /\ \A p \in DOMAIN p1 : p1[p] = IF p \in DOMAIN at1 THEN at1[p] ELSE amounts[p[3] + 1]
      /\ \A p \in DOMAIN p2 : p2[p] = IF p \in DOMAIN at2 THEN at2[p] ELSE amounts[p[3] + 1]
  BY DEF Placed
<1>3. new \cap N = {}
  OBVIOUS
<1> HIDE DEF new, p1, p2
<1>4. Widens(p1, p2, N, A)
  BY <1>1, <1>2, <1>3 DEF Widens
<1> QED BY <1>4 DEF p1, p2

(* So does the same change of a place both have. *)
LEMMA ExceptWidens ==
  ASSUME NEW at1, NEW at2, NEW N, NEW A, Widens(at1, at2, N, A), NEW p \in DOMAIN at1, NEW y
  PROVE  /\ Widens([at1 EXCEPT ![p] = @ + y], [at2 EXCEPT ![p] = @ + y], N, A)
         /\ Widens([at1 EXCEPT ![p] = @ - y], [at2 EXCEPT ![p] = @ - y], N, A)
BY DEF Widens

(* What can be taken can be taken with more places there. *)
LEMMA CanTakeWidens ==
  ASSUME NEW pt1, NEW pt2, NEW m1, NEW m2, NEW N, NEW A, Widens(m1.at, m2.at, N, A), NEW types, NEW args,
         \A i \in DOMAIN args : Place(pt1, args[i]) = Place(pt2, args[i]),
         \A p \in DOMAIN m1.at : TypeOf(pt1, p) = TypeOf(pt2, p),
         CanTake(pt1, m1, types, args)
  PROVE  CanTake(pt2, m2, types, args)
<1>1. TakenBy(pt2, args) = TakenBy(pt1, args) /\ TakenBy(pt1, args) \subseteq DOMAIN m1.at
  BY DEF TakenBy, CanTake
<1>2. CanTake(pt2, m2, types, args)
  <2>1. TakenBy(pt2, args) \subseteq DOMAIN m2.at
    BY <1>1 DEF Widens
  <2>2. \A i \in DOMAIN args : Place(pt1, args[i]) \in DOMAIN m1.at
    BY <1>1 DEF TakenBy
  <2>3. \A i \in DOMAIN args : TypeOf(pt2, Place(pt2, args[i])) \in types
    BY <2>2 DEF CanTake
  <2> QED BY <2>1, <2>3 DEF CanTake
<1> QED BY <1>1, <1>2

(* The command has the same effect in both. *)
LEMMA DoesExtends ==
  ASSUME NEW pt1, NEW pt2, NEW m1, NEW m2, NEW N, NEW A, Extends(m1, m2, N, A), NEW c, NEW cmd,
         cmd = pt1.commands[c + 1], cmd = pt2.commands[c + 1], cmd.name \in Names,
         Agree(pt1, pt2, cmd, DOMAIN m1.at), \A l : NestedResultArg(c, l) \notin N,
         Needs(pt1, m1, cmd)
  PROVE  Needs(pt2, m2, cmd) /\ Extends(Does(pt1, m1, c), Does(pt2, m2, c), N, A)
<1> DEFINE sum1 == SumAt(pt1, m1, Given(cmd))
           sum2 == SumAt(pt2, m2, Given(cmd))
           rest1 == Rest(pt1, m1, cmd)
           rest2 == Rest(pt2, m2, cmd)
           D1 == Does(pt1, m1, c)
           D2 == Does(pt2, m2, c)
<1>1. Widens(m1.at, m2.at, N, A) /\ m1.got = m2.got
  BY DEF Extends
<1>2. \A i \in DOMAIN Given(cmd) : Place(pt1, Given(cmd)[i]) = Place(pt2, Given(cmd)[i])
  <2>1. CASE Sends(cmd)
    <3>1. Given(cmd) = <<cmd.args[1]>> /\ 1 \in DOMAIN cmd.args
      BY <2>1 DEF Given, Agree
    <3>2. DOMAIN Given(cmd) = {1} /\ Given(cmd)[1] = cmd.args[1]
      BY <3>1
    <3> QED BY <3>1, <3>2 DEF Agree
  <2>2. CASE ~ Sends(cmd)
    BY <2>2 DEF Given, Agree
  <2> QED BY <2>1, <2>2
<1>3. ASSUME cmd.name # "SplitCoins"
      PROVE  /\ CanTake(pt2, m2, TypesOf(cmd), Given(cmd))
             /\ sum1 = sum2 /\ Widens(rest1, rest2, N, A)
             /\ TakenBy(pt2, Given(cmd)) = TakenBy(pt1, Given(cmd))
  <2>1. CanTake(pt1, m1, TypesOf(cmd), Given(cmd))
    BY <1>3 DEF Needs
  <2>2. /\ CanTake(pt2, m2, TypesOf(cmd), Given(cmd))
        /\ TakenBy(pt2, Given(cmd)) = TakenBy(pt1, Given(cmd)) /\ TakenBy(pt1, Given(cmd)) \subseteq DOMAIN m1.at
        /\ sum1 = sum2
    <3> DEFINE args == Given(cmd)
               types == TypesOf(cmd)
    <3>1. \A p \in DOMAIN m1.at : TypeOf(pt1, p) = TypeOf(pt2, p)
      BY DEF Agree
    <3>2. /\ \A i \in DOMAIN args : Place(pt1, args[i]) = Place(pt2, args[i])
          /\ CanTake(pt1, m1, types, args)
      BY <1>2, <2>1
    <3> HIDE DEF args, types
    <3>3. CanTake(pt2, m2, types, args)
      BY <1>1, <3>1, <3>2, CanTakeWidens
    <3>4. TakenBy(pt2, args) = TakenBy(pt1, args) /\ TakenBy(pt1, args) \subseteq DOMAIN m1.at
      BY <3>2 DEF TakenBy, CanTake
    <3>5. SumAt(pt2, m2, args) = SumAt(pt1, m1, args)
      <4>1. \A i \in DOMAIN args : Place(pt1, args[i]) \in DOMAIN m1.at
        BY <3>2 DEF TakenBy, CanTake
      <4>2. [i \in DOMAIN args |-> m1.at[Place(pt1, args[i])]] = [i \in DOMAIN args |-> m2.at[Place(pt2, args[i])]]
        BY <1>1, <3>2, <4>1 DEF Widens
      <4> QED BY <4>2 DEF SumAt
    <3> QED BY <3>3, <3>4, <3>5 DEF args, types
  <2> QED BY <1>1, <2>2, WithoutWidens DEF Rest
<1>4. D1.err = "none" /\ D2.err = "none"
  BY DEF Does
<1>5. (\E i \in DOMAIN cmd.args : cmd.args[i] = GasCoin) => cmd.name = "TransferObjects"
  BY DEF Needs
<1>6. CASE cmd.name \in Delivering
  <2>1. cmd.name \notin Making /\ cmd.name \notin {"SplitCoins", "MergeCoins"}
    BY <1>6 DEF Delivering, Making
  <2>2. Needs(pt2, m2, cmd)
    BY <1>3, <1>5, <2>1 DEF Needs
  <2>3. D1.at = rest1 /\ D2.at = rest2
    BY <1>6, <2>1 DEF Does
  <2>4. D1.got = [m1.got EXCEPT ![Account(pt1, cmd)] = @ + sum1] /\ D2.got = [m2.got EXCEPT ![Account(pt2, cmd)] = @ + sum2]
    BY <1>6, <2>1 DEF Does
  <2>5. Account(pt1, cmd) = Account(pt2, cmd)
    BY <1>6 DEF Agree
  <2> HIDE DEF D1, D2, rest1, rest2, sum1, sum2
  <2>6. Extends(D1, D2, N, A)
    BY <1>1, <1>3, <1>4, <2>1, <2>3, <2>4, <2>5 DEF Extends
  <2> QED BY <2>2, <2>6 DEF D1, D2
<1>7. CASE cmd.name \in Making
  <2>1. cmd.name \notin Delivering /\ cmd.name \notin {"SplitCoins", "MergeCoins"}
    BY <1>7 DEF Delivering, Making
  <2>2. Needs(pt2, m2, cmd)
    BY <1>3, <1>5, <2>1 DEF Needs
  <2>3. D1.at = Placed(rest1, c, <<sum1>>) /\ D2.at = Placed(rest2, c, <<sum2>>) /\ D1.got = m1.got /\ D2.got = m2.got
    BY <1>7, <2>1 DEF Does
  <2> HIDE DEF D1, D2, rest1, rest2, sum1, sum2
  <2>4. Widens(D1.at, D2.at, N, A)
    BY <1>3, <2>1, <2>3, PlacedWidens
  <2>5. Extends(D1, D2, N, A)
    BY <1>1, <1>4, <2>3, <2>4 DEF Extends
  <2> QED BY <2>2, <2>5 DEF D1, D2
<1>8. CASE cmd.name = "SplitCoins"
  <2> DEFINE from == Place(pt1, cmd.arg)
             amounts == Pieces(pt1, cmd)
             left1 == [m1.at EXCEPT ![from] = @ - Total(amounts)]
             left2 == [m2.at EXCEPT ![from] = @ - Total(amounts)]
  <2>1. cmd.name \notin Delivering /\ cmd.name \notin Making
    BY <1>8 DEF Delivering, Making
  <2>2. Place(pt2, cmd.arg) = from /\ Pieces(pt2, cmd) = amounts
    BY <1>8 DEF Agree
  <2>3. from \in DOMAIN m1.at /\ Total(amounts) <= m1.at[from]
    BY <1>8 DEF Needs
  <2>4. Needs(pt2, m2, cmd)
    BY <1>1, <1>5, <1>8, <2>2, <2>3 DEF Needs, Widens
  <2>5. D1.at = Placed(left1, c, amounts) /\ D2.at = Placed(left2, c, amounts) /\ D1.got = m1.got /\ D2.got = m2.got
    BY <1>8, <2>1, <2>2 DEF Does
  <2> HIDE DEF D1, D2, from, amounts
  <2>6. Widens(left1, left2, N, A)
    BY <1>1, <2>3, ExceptWidens
  <2> HIDE DEF left1, left2
  <2>7. Widens(D1.at, D2.at, N, A)
    BY <2>5, <2>6, PlacedWidens
  <2>8. Extends(D1, D2, N, A)
    BY <1>1, <1>4, <2>5, <2>7 DEF Extends
  <2> QED BY <2>4, <2>8 DEF D1, D2
<1>9. CASE cmd.name = "MergeCoins"
  <2> DEFINE into == Place(pt1, cmd.arg)
  <2>1. cmd.name \notin Delivering /\ cmd.name \notin Making /\ Given(cmd) = cmd.args
    BY <1>9 DEF Delivering, Making, Given, Sends
  <2>2. Place(pt2, cmd.arg) = into
    BY <1>9 DEF Agree
  <2>3. into \in DOMAIN m1.at \ TakenBy(pt1, cmd.args) /\ into \in DOMAIN rest1
    BY <1>9, <2>1 DEF Needs, Rest, Without
  <2>4. Needs(pt2, m2, cmd)
    BY <1>1, <1>3, <1>5, <1>9, <2>1, <2>2, <2>3 DEF Needs, Widens
  <2>5. D1.at = [rest1 EXCEPT ![into] = @ + sum1] /\ D2.at = [rest2 EXCEPT ![into] = @ + sum2]
        /\ D1.got = m1.got /\ D2.got = m2.got
    BY <1>9, <2>1, <2>2 DEF Does
  <2> HIDE DEF D1, D2, into, sum1, sum2, rest1, rest2
  <2>6. Widens(D1.at, D2.at, N, A)
    <3>1. sum1 = sum2 /\ Widens(rest1, rest2, N, A)
      BY <1>3, <1>9
    <3>2. Widens([rest1 EXCEPT ![into] = @ + sum1], [rest2 EXCEPT ![into] = @ + sum1], N, A)
      BY <2>3, <3>1, ExceptWidens
    <3> QED BY <2>5, <3>1, <3>2
  <2>7. Extends(D1, D2, N, A)
    BY <1>1, <1>4, <2>5, <2>6 DEF Extends
  <2> QED BY <2>4, <2>7 DEF D1, D2
<1> QED BY <1>6, <1>7, <1>8, <1>9 DEF Names

(***************************************************************************)
(* The machine that runs a builder's transaction.                          *)
(***************************************************************************)
Ix(B) == [i \in DOMAIN B.commands |-> i - 1]

(* After the first k commands, and after all. *)
Ran(B, k) == FRun!Fold(Load(Finish(B)), Finish(B), SubSeq(Ix(B), 1, k))
Run(B) == Ran(B, Len(B.commands))

(* The loop of Execute is a fold. *)
LEMMA ExecuteFold ==
  ASSUME NEW pt, NEW s
  PROVE  FoldLeft(LAMBDA m, c : Step(pt, m, c), Load(pt), s) = FRun!Fold(Load(pt), pt, s)
BY DEF FRun!Fold, OneStep, FRun!MapThenFoldSet, FRun!Max, FoldLeft, MapThenFoldSet, Max

(* The indices of the commands. *)
LEMMA IxFacts ==
  ASSUME NEW B, Sound(B)
  PROVE  Ix(B) \in Seq(Nat) /\ Len(Ix(B)) = Len(B.commands) /\ \A i \in 1..Len(B.commands) : Ix(B)[i] = i - 1
<1>1. DOMAIN B.commands = 1..Len(B.commands) /\ Len(B.commands) \in Nat
  BY SoundFacts
<1>2. Ix(B) \in [1..Len(B.commands) -> Nat]
  BY <1>1 DEF Ix
<1> QED BY <1>1, <1>2 DEF Ix

(* The machine before the first command, and after one more. *)
LEMMA RanFacts ==
  ASSUME NEW B, Sound(B)
  PROVE  /\ Ran(B, 0) = Load(Finish(B))
         /\ \A k \in 0..(Len(B.commands) - 1) : Ran(B, k + 1) = Step(Finish(B), Ran(B, k), k)
<1>1. Ix(B) \in Seq(Nat) /\ Len(Ix(B)) = Len(B.commands) /\ Len(B.commands) \in Nat
      /\ \A i \in 1..Len(B.commands) : Ix(B)[i] = i - 1
  BY IxFacts, SoundFacts
<1>2. SubSeq(Ix(B), 1, 0) = <<>>
  BY <1>1
<1>3. ASSUME NEW k \in 0..(Len(B.commands) - 1) PROVE Ran(B, k + 1) = Step(Finish(B), Ran(B, k), k)
  <2>1. k \in Nat /\ k + 1 <= Len(Ix(B)) /\ k + 1 \in 1..Len(B.commands)
    BY <1>1
  <2>2. Ran(B, k + 1) = OneStep(Ran(B, k), Ix(B)[k + 1], Finish(B))
    BY <1>1, <2>1, FRunInduction, FRun!FoldPrefix DEF Ran
  <2>3. Ix(B)[k + 1] = k
    BY <1>1, <2>1
  <2> QED BY <2>2, <2>3 DEF OneStep
<1> QED BY <1>2, <1>3, FRunInduction, FRun!FoldEmpty DEF Ran

(* Execute is the machine after the last command, unless a result is left. *)
LEMMA ExecuteIs ==
  ASSUME NEW B, Sound(B)
  PROVE  Execute(Finish(B)) = IF Run(B).err = "none" /\ \E p \in DOMAIN Run(B).at : p[1] = "NestedResult"
                                THEN Abort(Run(B), "UnusedValueWithoutDrop") ELSE Run(B)
<1>1. Finish(B).commands = B.commands
  BY DEF Finish
<1>2. Ix(B) \in Seq(Nat) /\ Len(Ix(B)) = Len(B.commands)
  BY IxFacts
<1>3. SubSeq(Ix(B), 1, Len(B.commands)) = Ix(B)
  BY <1>2
<1>4. FoldLeft(LAMBDA m, c : Step(Finish(B), m, c), Load(Finish(B)), Ix(B)) = Run(B)
  BY Zenon, <1>3, ExecuteFold DEF Run, Ran
<1> QED BY Zenon, <1>1, <1>4 DEF Execute, Ix

-----------------------------------------------------------------------------
(* What an input holds. *)
Held(B) == {k \in DOMAIN B.inputs : B.inputs[k].kind # "Pure"}
Amount(v) == IF v.kind = "Object" THEN CoinBalance[v.val.id] ELSE v.val
Slots(B) == {Slot(B, k) : k \in Held(B)}

(* Finish puts the input of a key where its slot points. *)
LEMMA InputAt ==
  ASSUME NEW B, Sound(B), NEW key \in DOMAIN B.inputs
  PROVE  /\ Slot(B, key) = InputArg(Slot(B, key)[2]) /\ Slot(B, key)[1] = "Input"
         /\ Slot(B, key)[2] + 1 \in 1..Len(B.order)
         /\ Finish(B).inputs[Slot(B, key)[2] + 1] = B.inputs[key]
<1>1. PICK i \in 1..Len(B.order) : B.order[i] = key /\ Slot(B, key) = InputArg(i - 1)
  BY SlotAt
<1>2. i \in DOMAIN B.order /\ i \in Int
  BY SoundFacts
<1>3. Slot(B, key)[2] = i - 1 /\ Slot(B, key)[1] = "Input" /\ Slot(B, key)[2] + 1 = i
  BY <1>1, <1>2 DEF InputArg
<1> QED BY <1>1, <1>2, <1>3 DEF Finish

(* What Load makes of a builder. *)
LEMMA LoadFacts ==
  ASSUME NEW B, Sound(B)
  PROVE  LET m == Load(Finish(B))
         IN /\ IsMachine(m) /\ m.err = "none" /\ m.got = NothingPaid
            /\ DOMAIN m.at = {GasCoin} \cup Slots(B)
            /\ m.at[GasCoin] = GasBalance
            /\ \A k \in Held(B) : m.at[Slot(B, k)] = Amount(B.inputs[k])
            /\ \A k \in Held(B) : Amount(B.inputs[k]) \in Nat
<1> DEFINE m == Load(Finish(B))
           pt == Finish(B)
           holding == {i \in DOMAIN pt.inputs : pt.inputs[i].kind # "Pure"}
<1>1. /\ DOMAIN pt.inputs = 1..Len(B.order)
      /\ \A i \in 1..Len(B.order) : pt.inputs[i] = B.inputs[B.order[i]] /\ B.order[i] \in DOMAIN B.inputs
  BY SoundFacts DEF Finish
<1>2. {InputArg(i - 1) : i \in holding} = Slots(B)
  <2>1. ASSUME NEW i \in holding PROVE InputArg(i - 1) \in Slots(B)
    <3>1. i \in 1..Len(B.order) /\ B.order[i] \in Held(B)
      BY <1>1 DEF Held
    <3>2. Slot(B, B.order[i]) = InputArg(i - 1)
      BY <3>1, SlotIs
    <3> QED BY <3>1, <3>2 DEF Slots
  <2>2. ASSUME NEW k \in Held(B) PROVE \E i \in holding : Slot(B, k) = InputArg(i - 1)
    <3>1. PICK i \in 1..Len(B.order) : B.order[i] = k /\ Slot(B, k) = InputArg(i - 1)
      BY SlotAt DEF Held
    <3> QED BY <1>1, <3>1 DEF Held
  <2> QED BY <2>1, <2>2 DEF Slots
<1>3. /\ m.err = "none" /\ m.got = NothingPaid
      /\ DOMAIN m.at = {GasCoin} \cup Slots(B)
      /\ \A p \in {GasCoin} \cup Slots(B) :
           m.at[p] = IF p = GasCoin THEN GasBalance
                     ELSE IF pt.inputs[p[2] + 1].kind = "Object" THEN CoinBalance[pt.inputs[p[2] + 1].val.id]
                     ELSE pt.inputs[p[2] + 1].val
      /\ m = [at |-> m.at, got |-> m.got, err |-> m.err]
      /\ m.at = [p \in DOMAIN m.at |-> m.at[p]]
  BY <1>2 DEF Load
<1> HIDE DEF m
<1>4. \A k \in Held(B) : k \in DOMAIN B.inputs /\ Slot(B, k) \in Slots(B)
  BY DEF Held, Slots
<1>5. ASSUME NEW k \in Held(B) PROVE Slot(B, k) # GasCoin /\ m.at[Slot(B, k)] = Amount(B.inputs[k])
  <2>1. Slot(B, k)[1] = "Input" /\ pt.inputs[Slot(B, k)[2] + 1] = B.inputs[k]
    BY <1>4, InputAt
  <2>2. Slot(B, k) # GasCoin
    BY <2>1 DEF GasCoin
  <2> HIDE DEF pt
  <2> QED BY <1>3, <1>4, <2>1, <2>2 DEF Amount
<1>6. ASSUME NEW k \in Held(B) PROVE Amount(B.inputs[k]) \in Nat
  <2>1. KeyHolds(k, B.inputs[k], Len(B.order))
    BY <1>4 DEF Sound
  <2>2. B.inputs[k].kind # "Pure"
    BY DEF Held
  <2>3. CASE \E id \in DOMAIN CoinBalance : B.inputs[k] = ObjectCallArg(OwnedObject(id))
    BY <2>3, TransferAssumptions DEF Amount, ObjectCallArg, OwnedObject
  <2>4. CASE \E w \in Nat : B.inputs[k] = WithdrawalArg(w)
    BY <2>4 DEF Amount, WithdrawalArg
  <2>5. (\E id \in DOMAIN CoinBalance : B.inputs[k] = ObjectCallArg(OwnedObject(id)))
        \/ (\E w \in Nat : B.inputs[k] = WithdrawalArg(w))
    <3>1. \A x : PureArg(x).kind = "Pure"
      BY DEF PureArg
    <3> QED BY <2>1, <2>2, <3>1 DEF KeyHolds
  <2> QED BY <2>3, <2>4, <2>5
<1>7. m.at[GasCoin] = GasBalance
  BY <1>3
<1>8. m.at \in [DOMAIN m.at -> Nat]
  <2>1. ASSUME NEW p \in DOMAIN m.at PROVE m.at[p] \in Nat
    <3>1. CASE p = GasCoin
      BY <1>7, <3>1, TransferAssumptions
    <3>2. CASE p \in Slots(B)
      BY <1>5, <1>6, <3>2 DEF Slots
    <3> QED BY <1>3, <3>1, <3>2
  <2> QED BY <1>3, <2>1
<1>9. m.got \in [Accounts -> Nat]
  BY <1>3 DEF NothingPaid
<1>10. IsMachine(m)
  BY <1>3, <1>8, <1>9 DEF IsMachine
<1> QED BY <1>3, <1>5, <1>6, <1>7, <1>10 DEF m

-----------------------------------------------------------------------------
(***************************************************************************)
(* The commands a builder holds.                                           *)
(***************************************************************************)
(* What a command after n others can refer to. *)
Args(B, n) ==
  {GasCoin} \cup {Slot(B, k) : k \in DOMAIN B.inputs} \cup {ResultArg(j) : j \in 0..(n - 1)}
    \cup {NestedResultArg(j, l) : j \in 0..(n - 1), l \in Nat}

(* Where values are before it. *)
Places(B, n) ==
  {GasCoin} \cup Slots(B) \cup {NestedResultArg(j, l) : j \in 0..(n - 1), l \in Nat}

(* arg is an input with a pure value in T. *)
PureSlot(B, arg, T) ==
  \E x \in T : PureKey(x) \in DOMAIN B.inputs /\ arg = Slot(B, PureKey(x))

(* cmd is a command as the methods add it after n others. *)
CmdOK(B, n, cmd) ==
  /\ cmd = [name |-> cmd.name, arg |-> cmd.arg, args |-> cmd.args] /\ cmd.name \in Names
  /\ cmd.args \in Seq(Args(B, n))
  /\ cmd.name = "TransferObjects" => PureSlot(B, cmd.arg, Addresses)
  /\ cmd.name \in {"SplitCoins", "MergeCoins"} => cmd.arg \in Args(B, n)
  /\ cmd.name \notin {"TransferObjects", "SplitCoins", "MergeCoins"} => cmd.arg = NoArg
  /\ cmd.name = "SplitCoins" => \A i \in DOMAIN cmd.args : PureSlot(B, cmd.args[i], Nat)
  /\ Sends(cmd) => Len(cmd.args) = 2 /\ PureSlot(B, cmd.args[2], Addresses)

CmdsOK(B) == \A i \in 1..Len(B.commands) : CmdOK(B, i - 1, B.commands[i])

(* The value of a pure input. *)
LEMMA PureAt ==
  ASSUME NEW B, Sound(B), NEW x \in PureValues, PureKey(x) \in DOMAIN B.inputs
  PROVE  B.inputs[PureKey(x)] = PureArg(x) /\ PureOf(Finish(B), Slot(B, PureKey(x))) = x
<1>1. KeyHolds(PureKey(x), B.inputs[PureKey(x)], Len(B.order))
  BY DEF Sound
<1>2. B.inputs[PureKey(x)] = PureArg(x)
  BY <1>1 DEF KeyHolds, PureKey, ObjectKey, ForcedKey
<1>3. Finish(B).inputs[Slot(B, PureKey(x))[2] + 1] = B.inputs[PureKey(x)]
  BY InputAt
<1> QED BY <1>2, <1>3 DEF PureOf, PureArg

(* The value a pure Argument denotes. *)
LEMMA PureSlotOf ==
  ASSUME NEW B, Sound(B), NEW T, T \subseteq PureValues, NEW arg, PureSlot(B, arg, T)
  PROVE  PureOf(Finish(B), arg) \in T
<1>1. PICK x \in T : PureKey(x) \in DOMAIN B.inputs /\ arg = Slot(B, PureKey(x))
  BY DEF PureSlot
<1>2. PureOf(Finish(B), arg) = x
  BY <1>1, PureAt
<1> QED BY <1>2

(* It denotes the same value in a builder that has grown. *)
LEMMA PureSlotGrows ==
  ASSUME NEW B, NEW C, Sound(B), Sound(C), Grows(B, C), NEW T, T \subseteq PureValues, NEW arg, PureSlot(B, arg, T)
  PROVE  PureSlot(C, arg, T) /\ PureOf(Finish(C), arg) = PureOf(Finish(B), arg)
<1>1. PICK x \in T : PureKey(x) \in DOMAIN B.inputs /\ arg = Slot(B, PureKey(x))
  BY DEF PureSlot
<1>2. PureKey(x) \in DOMAIN C.inputs /\ Slot(C, PureKey(x)) = arg
  BY <1>1, SlotKept DEF Grows
<1>3. PureOf(Finish(B), arg) = x /\ PureOf(Finish(C), arg) = x
  BY <1>1, <1>2, PureAt
<1> QED BY <1>2, <1>3 DEF PureSlot

(* Arguments stay Arguments when the builder grows. *)
LEMMA ArgsGrow ==
  ASSUME NEW B, NEW C, Sound(B), Sound(C), Grows(B, C), NEW n
  PROVE  Args(B, n) \subseteq Args(C, n) /\ Slots(B) \subseteq Slots(C)
<1>1. \A k \in DOMAIN B.inputs : k \in DOMAIN C.inputs /\ Slot(C, k) = Slot(B, k) /\ C.inputs[k] = B.inputs[k]
  BY SlotKept DEF Grows
<1>2. Args(B, n) \subseteq Args(C, n)
  BY <1>1 DEF Args
<1>3. Slots(B) \subseteq Slots(C)
  BY <1>1 DEF Slots, Held
<1> QED BY <1>2, <1>3

(* Commands stay well formed when the builder grows. *)
LEMMA CmdOKGrows ==
  ASSUME NEW B, NEW C, Sound(B), Sound(C), Grows(B, C), NEW n, NEW cmd, CmdOK(B, n, cmd)
  PROVE  CmdOK(C, n, cmd)
<1>1. Addresses \subseteq PureValues /\ Nat \subseteq PureValues
  BY DEF PureValues
<1>2. cmd.args \in Seq(Args(C, n)) /\ Args(B, n) \subseteq Args(C, n)
  <2>1. Args(B, n) \subseteq Args(C, n) /\ cmd.args \in Seq(Args(B, n))
    BY ArgsGrow DEF CmdOK
  <2> QED BY <2>1, SeqMonotonic
<1>3. ASSUME NEW arg, NEW T \in {Addresses, Nat}, PureSlot(B, arg, T) PROVE PureSlot(C, arg, T)
  BY <1>1, <1>3, PureSlotGrows
<1>4. /\ PureSlot(B, cmd.arg, Addresses) => PureSlot(C, cmd.arg, Addresses)
      /\ PureSlot(B, cmd.args[2], Addresses) => PureSlot(C, cmd.args[2], Addresses)
      /\ \A i : PureSlot(B, cmd.args[i], Nat) => PureSlot(C, cmd.args[i], Nat)
  BY <1>3
<1> QED BY <1>2, <1>4 DEF CmdOK

(* Amounts that are split off. *)
LEMMA PiecesAre ==
  ASSUME NEW B, Sound(B), NEW n, NEW cmd, CmdOK(B, n, cmd), cmd.name = "SplitCoins"
  PROVE  /\ Pieces(Finish(B), cmd) \in Seq(Nat) /\ Len(Pieces(Finish(B), cmd)) = Len(cmd.args)
         /\ Total(Pieces(Finish(B), cmd)) \in Nat
<1>1. DOMAIN cmd.args = 1..Len(cmd.args) /\ Len(cmd.args) \in Nat
  BY DEF CmdOK
<1>2. \A i \in DOMAIN cmd.args : PureOf(Finish(B), cmd.args[i]) \in Nat
  <2>1. Nat \subseteq PureValues
    BY DEF PureValues
  <2>2. \A i \in DOMAIN cmd.args : PureSlot(B, cmd.args[i], Nat)
    BY DEF CmdOK
  <2> QED BY <2>1, <2>2, PureSlotOf
<1>3. Pieces(Finish(B), cmd) \in [1..Len(cmd.args) -> Nat]
  BY <1>1, <1>2 DEF Pieces
<1>4. Pieces(Finish(B), cmd) \in Seq(Nat) /\ Len(Pieces(Finish(B), cmd)) = Len(cmd.args)
  BY <1>1, <1>3
<1> QED BY <1>4, TotalNat

(* What a taken argument is worth. *)
LEMMA SumNat ==
  ASSUME NEW pt, NEW m, IsMachine(m), NEW types, NEW T, NEW args \in Seq(T), CanTake(pt, m, types, args)
  PROVE  /\ SumAt(pt, m, args) \in Nat
         /\ [i \in DOMAIN args |-> m.at[Place(pt, args[i])]] \in Seq(Nat)
<1>1. \A i \in DOMAIN args : m.at[Place(pt, args[i])] \in Nat
  <2>1. \A i \in DOMAIN args : Place(pt, args[i]) \in DOMAIN m.at
    BY DEF TakenBy, CanTake
  <2> QED BY <2>1 DEF IsMachine
<1>2. DOMAIN args = 1..Len(args) /\ Len(args) \in Nat
  OBVIOUS
<1>3. [i \in DOMAIN args |-> m.at[Place(pt, args[i])]] \in [1..Len(args) -> Nat]
  BY <1>1, <1>2
<1>4. [i \in DOMAIN args |-> m.at[Place(pt, args[i])]] \in Seq(Nat)
  BY <1>2, <1>3
<1> QED BY <1>4, TotalNat DEF SumAt

(* The arguments a command takes by value are Arguments. *)
LEMMA GivenIs ==
  ASSUME NEW B, NEW n, NEW cmd, CmdOK(B, n, cmd)
  PROVE  Given(cmd) \in Seq(Args(B, n))
<1>1. CASE Sends(cmd)
  <2>1. Given(cmd) = <<cmd.args[1]>>
    BY <1>1 DEF Given
  <2>2. cmd.args \in Seq(Args(B, n)) /\ Len(cmd.args) = 2
    BY <1>1 DEF CmdOK
  <2>3. cmd.args[1] \in Args(B, n)
    BY <2>2
  <2> QED BY <2>1, <2>3
<1>2. CASE ~ Sends(cmd)
  BY <1>2 DEF Given, CmdOK
<1> QED BY <1>1, <1>2

(* The first k results of the command at c. *)
News(c, k) == {NestedResultArg(c, i - 1) : i \in 1..k}

(* The places after results are placed. *)
LEMMA PlacedShape ==
  ASSUME NEW at, at \in [DOMAIN at -> Nat], NEW c \in Nat, NEW amounts \in Seq(Nat)
  PROVE  /\ Placed(at, c, amounts) \in [DOMAIN Placed(at, c, amounts) -> Nat]
         /\ DOMAIN Placed(at, c, amounts) = DOMAIN at \cup News(c, Len(amounts))
         /\ \A i \in 1..Len(amounts) : NestedResultArg(c, i - 1) \notin DOMAIN at =>
              Placed(at, c, amounts)[NestedResultArg(c, i - 1)] = amounts[i]
         /\ \A p \in DOMAIN at : Placed(at, c, amounts)[p] = at[p]
<1> DEFINE q == Placed(at, c, amounts)
           new == {NestedResultArg(c, i - 1) : i \in 1..Len(amounts)}
<1>1. DOMAIN amounts = 1..Len(amounts) /\ \A i \in 1..Len(amounts) : amounts[i] \in Nat /\ i \in Int
  OBVIOUS
<1>2. q = [p \in DOMAIN at \cup new |-> IF p \in DOMAIN at THEN at[p] ELSE amounts[p[3] + 1]]
  BY <1>1 DEF Placed
<1>3. \A i \in 1..Len(amounts) : NestedResultArg(c, i - 1)[3] + 1 = i
  BY <1>1 DEF NestedResultArg
<1> HIDE DEF q
<1>4. DOMAIN q = DOMAIN at \cup new
  BY <1>2
<1>5. ASSUME NEW i \in 1..Len(amounts), NestedResultArg(c, i - 1) \notin DOMAIN at
      PROVE  q[NestedResultArg(c, i - 1)] = amounts[i]
  <2>1. NestedResultArg(c, i - 1) \in new
    OBVIOUS
  <2> HIDE DEF new
  <2> QED BY <1>2, <1>3, <1>5, <2>1
<1>6. \A p \in DOMAIN at : q[p] = at[p]
  BY <1>2
<1>7. \A p \in DOMAIN q : q[p] \in Nat
  BY <1>1, <1>4, <1>5, <1>6
<1>8. q \in [DOMAIN q -> Nat]
  BY <1>2, <1>7
<1> QED BY <1>4, <1>5, <1>6, <1>8 DEF q, News

(* Their domain. *)
LEMMA PlacedDomain ==
  ASSUME NEW at, at \in [DOMAIN at -> Nat], NEW c \in Nat, NEW amounts \in Seq(Nat),
         NEW q, q = Placed(at, c, amounts)
  PROVE  q \in [DOMAIN q -> Nat] /\ DOMAIN q = DOMAIN at \cup News(c, Len(amounts))
BY PlacedShape

(* More or less at x. *)
More(f, x, y) == [f EXCEPT ![x] = @ + y]
Less(f, x, y) == [f EXCEPT ![x] = @ - y]

(* What a command does, by its kind. *)
LEMMA DoesParts ==
  ASSUME NEW pt, NEW m, NEW c, NEW cmd, cmd = pt.commands[c + 1], cmd.name \in Names,
         NEW d, d = Does(pt, m, c)
  PROVE  /\ d = [at |-> d.at, got |-> d.got, err |-> d.err]
         /\ d.err = "none"
         /\ cmd.name \in Delivering =>
              d.at = Rest(pt, m, cmd) /\ d.got = More(m.got, Account(pt, cmd), SumAt(pt, m, Given(cmd)))
         /\ cmd.name \notin Delivering => d.got = m.got
         /\ cmd.name \in Making => d.at = Placed(Rest(pt, m, cmd), c, <<SumAt(pt, m, Given(cmd))>>)
         /\ cmd.name = "SplitCoins" =>
              d.at = Placed(Less(m.at, Place(pt, cmd.arg), Total(Pieces(pt, cmd))), c, Pieces(pt, cmd))
         /\ cmd.name = "MergeCoins" =>
              d.at = More(Rest(pt, m, cmd), Place(pt, cmd.arg), SumAt(pt, m, Given(cmd)))
<1> DEFINE at == CASE cmd.name \in Delivering -> Rest(pt, m, cmd)
                   [] cmd.name \in Making -> Placed(Rest(pt, m, cmd), c, <<SumAt(pt, m, Given(cmd))>>)
                   [] cmd.name = "SplitCoins" ->
                        Placed(Less(m.at, Place(pt, cmd.arg), Total(Pieces(pt, cmd))), c, Pieces(pt, cmd))
                   [] cmd.name = "MergeCoins" ->
                        More(Rest(pt, m, cmd), Place(pt, cmd.arg), SumAt(pt, m, Given(cmd)))
           got == IF cmd.name \in Delivering
                    THEN More(m.got, Account(pt, cmd), SumAt(pt, m, Given(cmd))) ELSE m.got
<1>1. d = [at |-> at, got |-> got, err |-> "none"]
  BY Zenon DEF Does, More, Less
<1> HIDE DEF at, got
<1>2. d.at = at /\ d.got = got /\ d.err = "none" /\ d = [at |-> d.at, got |-> d.got, err |-> d.err]
  BY <1>1
<1>3. cmd.name \in Delivering =>
        at = Rest(pt, m, cmd) /\ got = More(m.got, Account(pt, cmd), SumAt(pt, m, Given(cmd)))
  <2>1. cmd.name \in Delivering => at = Rest(pt, m, cmd)
    BY DEF at, Making, Delivering
  <2>2. cmd.name \in Delivering => got = More(m.got, Account(pt, cmd), SumAt(pt, m, Given(cmd)))
    BY Zenon DEF got
  <2> QED BY <2>1, <2>2
<1>4. cmd.name \notin Delivering => got = m.got
  BY DEF got
<1>5. cmd.name \in Making => at = Placed(Rest(pt, m, cmd), c, <<SumAt(pt, m, Given(cmd))>>)
  BY DEF at, Making, Delivering
<1>6. cmd.name = "SplitCoins" =>
        at = Placed(Less(m.at, Place(pt, cmd.arg), Total(Pieces(pt, cmd))), c, Pieces(pt, cmd))
  BY DEF at, Making, Delivering
<1>7. cmd.name = "MergeCoins" =>
        at = More(Rest(pt, m, cmd), Place(pt, cmd.arg), SumAt(pt, m, Given(cmd)))
  BY DEF at, Making, Delivering
<1> QED BY <1>2, <1>3, <1>4, <1>5, <1>6, <1>7

(* The machine keeps its shape. *)
LEMMA DoesShape ==
  ASSUME NEW B, Sound(B), NEW c \in Nat, NEW cmd, cmd = Finish(B).commands[c + 1], CmdOK(B, c, cmd),
         NEW m, IsMachine(m), Needs(Finish(B), m, cmd), DOMAIN m.at \subseteq Places(B, c)
  PROVE  LET d == Does(Finish(B), m, c)
         IN IsMachine(d) /\ d.err = "none" /\ DOMAIN d.at \subseteq Places(B, c + 1)
<1> DEFINE pt == Finish(B)
           d == Does(pt, m, c)
           sum == SumAt(pt, m, Given(cmd))
           rest == Rest(pt, m, cmd)
<1>0. cmd.name \in Names
  BY DEF CmdOK
<1>1. /\ d = [at |-> d.at, got |-> d.got, err |-> d.err] /\ d.err = "none"
      /\ cmd.name \in Delivering => d.at = rest /\ d.got = More(m.got, Account(pt, cmd), sum)
      /\ cmd.name \notin Delivering => d.got = m.got
      /\ cmd.name \in Making => d.at = Placed(rest, c, <<sum>>)
      /\ cmd.name = "SplitCoins" =>
           d.at = Placed(Less(m.at, Place(pt, cmd.arg), Total(Pieces(pt, cmd))), c, Pieces(pt, cmd))
      /\ cmd.name = "MergeCoins" => d.at = More(rest, Place(pt, cmd.arg), sum)
  BY <1>0, DoesParts
<1>2. Places(B, c) \subseteq Places(B, c + 1) /\ \A l \in Nat : NestedResultArg(c, l) \in Places(B, c + 1)
  <2>1. 0..(c - 1) \subseteq 0..(c + 1 - 1) /\ c \in 0..(c + 1 - 1)
    OBVIOUS
  <2> QED BY <2>1 DEF Places
<1>3. cmd.name # "SplitCoins" => sum \in Nat
  <2>1. ASSUME cmd.name # "SplitCoins" PROVE CanTake(pt, m, TypesOf(cmd), Given(cmd))
    BY <2>1 DEF Needs, CmdOK
  <2>2. Given(cmd) \in Seq(Args(B, c))
    BY GivenIs
  <2> HIDE DEF pt
  <2> QED BY <2>1, <2>2, SumNat
<1>4. rest \in [DOMAIN rest -> Nat] /\ DOMAIN rest \subseteq DOMAIN m.at
  BY DEF Rest, Without, IsMachine
<1>5. m.at \in [DOMAIN m.at -> Nat] /\ m.got \in [Accounts -> Nat]
  BY DEF IsMachine
<1>9. DOMAIN m.at \subseteq Places(B, c + 1)
  BY <1>2
<1>6. d.got \in [Accounts -> Nat]
  <2> HIDE DEF d, sum
  <2>1. CASE cmd.name \in Delivering
    <3>1. sum \in Nat
      BY <1>3, <2>1 DEF Delivering
    <3> DEFINE to == Account(pt, cmd)
    <3>2. d.got = [m.got EXCEPT ![to] = @ + sum]
      BY <1>1, <2>1, Zenon DEF More
    <3> HIDE DEF to
    <3>3. ASSUME NEW a \in Accounts PROVE [m.got EXCEPT ![to] = @ + sum][a] \in Nat
      <4>1. m.got[a] \in Nat
        BY <1>5
      <4>2. CASE a = to
        BY <1>5, <3>1, <4>1, <4>2
      <4>3. CASE a # to
        BY <1>5, <4>1, <4>3
      <4> QED BY <4>2, <4>3
    <3>4. DOMAIN d.got = Accounts /\ d.got = [a \in Accounts |-> d.got[a]]
      BY <1>5, <3>2
    <3> QED BY <3>2, <3>3, <3>4
  <2>2. CASE cmd.name \notin Delivering
    BY <1>1, <1>5, <2>2
  <2> QED BY <2>1, <2>2
<1>7. d.at \in [DOMAIN d.at -> Nat] /\ DOMAIN d.at \subseteq Places(B, c + 1)
  <2>1. CASE cmd.name \in Delivering
    <3>1. d.at = rest
      BY <1>1, <2>1
    <3> HIDE DEF d, rest
    <3> QED BY <1>2, <1>4, <3>1
  <2>2. CASE cmd.name \in Making
    <3>1. d.at = Placed(rest, c, <<sum>>)
      BY <1>1, <2>2
    <3>2. sum \in Nat
      BY <1>3, <2>2 DEF Making
    <3> HIDE DEF d, rest, sum
    <3>3. <<sum>> \in Seq(Nat)
      BY <3>2
    <3> DEFINE amounts == <<sum>>
    <3> HIDE DEF amounts
    <3>4. DOMAIN d.at = DOMAIN rest \cup News(c, Len(amounts)) /\ d.at \in [DOMAIN d.at -> Nat]
      <4>1. d.at = Placed(rest, c, amounts) /\ amounts \in Seq(Nat)
        BY <3>1, <3>3 DEF amounts
      <4> QED BY Zenon, <1>4, <4>1, PlacedDomain
    <3>5. News(c, Len(amounts)) \subseteq Places(B, c + 1)
      BY <1>2 DEF News
    <3> QED BY <1>2, <1>4, <1>9, <3>4, <3>5
  <2>3. CASE cmd.name = "SplitCoins"
    <3> DEFINE from == Place(pt, cmd.arg)
               amounts == Pieces(pt, cmd)
               left == [m.at EXCEPT ![from] = @ - Total(amounts)]
    <3>1. d.at = Placed(left, c, amounts)
      BY <1>1, <2>3, Zenon DEF Less
    <3>2. amounts \in Seq(Nat) /\ Total(amounts) \in Nat
      BY <2>3, PiecesAre
    <3>3. from \in DOMAIN m.at /\ Total(amounts) <= m.at[from]
      BY <2>3 DEF Needs
    <3> HIDE DEF from, amounts, d
    <3>4. left \in [DOMAIN left -> Nat] /\ DOMAIN left = DOMAIN m.at
      <4>1. m.at[from] - Total(amounts) \in Nat
        BY <1>5, <3>2, <3>3
      <4> QED BY <1>5, <4>1
    <3> HIDE DEF left
    <3>5. DOMAIN d.at = DOMAIN left \cup News(c, Len(amounts)) /\ d.at \in [DOMAIN d.at -> Nat]
      <4>1. left \in [DOMAIN left -> Nat]
        BY <3>4
      <4>2. amounts \in Seq(Nat)
        BY <3>2
      <4> QED BY <3>1, <4>1, <4>2, PlacedDomain
    <3>6. News(c, Len(amounts)) \subseteq Places(B, c + 1)
      BY <1>2 DEF News
    <3> QED BY <1>2, <1>9, <3>4, <3>5, <3>6
  <2>4. CASE cmd.name = "MergeCoins"
    <3> DEFINE into == Place(pt, cmd.arg)
    <3>1. d.at = [rest EXCEPT ![into] = @ + sum]
      BY <1>1, <2>4, Zenon DEF More
    <3>2. sum \in Nat
      BY <1>3, <2>4
    <3> HIDE DEF d, rest, sum, into
    <3>3. into \in DOMAIN rest => rest[into] \in Nat
      BY <1>4
    <3>4. DOMAIN d.at = DOMAIN rest /\ d.at = [p \in DOMAIN rest |-> d.at[p]]
      BY <1>4, <3>1
    <3>5. ASSUME NEW p \in DOMAIN rest PROVE d.at[p] \in Nat
      <4>1. rest[p] \in Nat
        BY <1>4
      <4>2. CASE p = into
        BY <1>4, <3>1, <3>2, <4>1, <4>2
      <4>3. CASE p # into
        BY <1>4, <3>1, <4>1, <4>3
      <4> QED BY <4>2, <4>3
    <3>6. d.at \in [DOMAIN d.at -> Nat]
      BY <3>4, <3>5
    <3> QED BY <1>2, <1>9, <1>4, <3>4, <3>6
  <2>5. cmd.name \in Names
    BY DEF CmdOK
  <2> HIDE DEF d
  <2> QED BY <2>1, <2>2, <2>3, <2>4, <2>5 DEF Names
<1> HIDE DEF d
<1>8. IsMachine(d)
  BY <1>1, <1>6, <1>7 DEF IsMachine
<1> QED BY <1>1, <1>7, <1>8 DEF d

(* As long as it does not abort. *)
LEMMA RanShape ==
  ASSUME NEW B, Sound(B), CmdsOK(B), NEW k \in 0..Len(B.commands), Ran(B, k).err = "none"
  PROVE  /\ IsMachine(Ran(B, k)) /\ DOMAIN Ran(B, k).at \subseteq Places(B, k)
         /\ \A j \in 0..(k - 1) :
              /\ Ran(B, j).err = "none" /\ Needs(Finish(B), Ran(B, j), B.commands[j + 1])
              /\ Ran(B, j + 1) = Does(Finish(B), Ran(B, j), j)
<1> DEFINE n == Len(B.commands)
           pt == Finish(B)
           Good(i) == Ran(B, i).err = "none" =>
                        /\ IsMachine(Ran(B, i)) /\ DOMAIN Ran(B, i).at \subseteq Places(B, i)
                        /\ \A j \in 0..(i - 1) :
                             /\ Ran(B, j).err = "none" /\ Needs(pt, Ran(B, j), B.commands[j + 1])
                             /\ Ran(B, j + 1) = Does(pt, Ran(B, j), j)
           S == {i \in Nat : i <= n => Good(i)}
<1>1. n \in Nat /\ pt.commands = B.commands
  BY SoundFacts DEF Finish
<1>2. 0 \in S
  <2>1. Ran(B, 0) = Load(pt)
    BY RanFacts
  <2>2. IsMachine(Ran(B, 0)) /\ DOMAIN Ran(B, 0).at \subseteq Places(B, 0)
    BY <2>1, LoadFacts DEF Places
  <2>3. 0..(0 - 1) = {}
    OBVIOUS
  <2>4. Good(0)
    BY <2>2, <2>3
  <2> HIDE DEF Good
  <2> QED BY <2>4
<1>3. ASSUME NEW i \in Nat, i \in S PROVE i + 1 \in S
  <2> SUFFICES ASSUME i + 1 <= n PROVE Good(i + 1)
    BY DEF S
  <2> HIDE DEF Good
  <2>0. i <= n /\ i \in 0..(n - 1) /\ i + 1 \in 1..n
    BY <1>1
  <2>1. Good(i)
    BY <1>3, <2>0
  <2> USE DEF Good
  <2> SUFFICES ASSUME Ran(B, i + 1).err = "none"
               PROVE  /\ IsMachine(Ran(B, i + 1)) /\ DOMAIN Ran(B, i + 1).at \subseteq Places(B, i + 1)
                      /\ \A j \in 0..((i + 1) - 1) :
                           /\ Ran(B, j).err = "none" /\ Needs(pt, Ran(B, j), B.commands[j + 1])
                           /\ Ran(B, j + 1) = Does(pt, Ran(B, j), j)
    OBVIOUS
  <2> DEFINE m == Ran(B, i)
             cmd == B.commands[i + 1]
  <2>2. Ran(B, i + 1) = Step(pt, m, i)
    BY <2>0, RanFacts
  <2>3. m.err = "none"
    <3> SUFFICES ASSUME m.err # "none" PROVE FALSE
      OBVIOUS
    <3>1. Step(pt, m, i) = m
      BY DEF Step
    <3> QED BY <2>2, <3>1
  <2>4. IsMachine(m) /\ DOMAIN m.at \subseteq Places(B, i)
        /\ \A j \in 0..(i - 1) :
             /\ Ran(B, j).err = "none" /\ Needs(pt, Ran(B, j), B.commands[j + 1])
             /\ Ran(B, j + 1) = Does(pt, Ran(B, j), j)
    BY <2>1, <2>3
  <2>5. CmdOK(B, i, cmd)
    <3>1. (i + 1) - 1 = i
      OBVIOUS
    <3> QED BY <2>0, <3>1 DEF CmdsOK
  <2>6. cmd.name \in Names /\ (cmd.name = "SplitCoins" => Total(Pieces(pt, cmd)) \in Nat)
    <3>1. cmd.name \in Names
      BY <2>5 DEF CmdOK
    <3> HIDE DEF cmd
    <3> QED BY <2>5, <3>1, PiecesAre
  <2>7. cmd = pt.commands[i + 1]
    BY <1>1
  <2> HIDE DEF cmd, m, pt
  <2>8. Needs(pt, m, cmd) /\ Step(pt, m, i) = Does(pt, m, i)
    BY <2>2, <2>3, <2>4, <2>6, <2>7, StepIs
  <2>9. IsMachine(Does(pt, m, i)) /\ DOMAIN Does(pt, m, i).at \subseteq Places(B, i + 1)
    BY <2>4, <2>5, <2>7, <2>8, DoesShape DEF pt
  <2>10. \A j \in 0..((i + 1) - 1) : j \in 0..(i - 1) \/ j = i
    OBVIOUS
  <2>11. \A j \in 0..((i + 1) - 1) :
           /\ Ran(B, j).err = "none" /\ Needs(pt, Ran(B, j), B.commands[j + 1])
           /\ Ran(B, j + 1) = Does(pt, Ran(B, j), j)
    <3> TAKE j \in 0..((i + 1) - 1)
    <3>1. CASE j \in 0..(i - 1)
      BY <2>4, <3>1
    <3>2. CASE j = i
      BY <2>2, <2>3, <2>8, <3>2 DEF m, cmd
    <3> QED BY <2>10, <3>1, <3>2
  <2> QED BY <2>2, <2>8, <2>9, <2>11
<1> HIDE DEF S
<1>4. k \in S /\ k <= n
  <2>1. Nat \subseteq S
    BY <1>2, <1>3, SetInduction
  <2> QED BY <1>1, <2>1
<1>5. Good(k)
  BY <1>4 DEF S
<1> QED BY <1>5

(* A builder whose commands execute so far. *)
Live(B) == Sound(B) /\ CmdsOK(B) /\ Run(B).err = "none"

(* An Argument of an input is no result. *)
LEMMA SlotTag ==
  ASSUME NEW B, NEW k
  PROVE  Slot(B, k)[1] = "Input" /\ Slot(B, k) # GasCoin /\ \A j, l : Slot(B, k) # NestedResultArg(j, l)
BY DEF Slot, InputArg, GasCoin, NestedResultArg

(* What an Argument stands for does not change. *)
LEMMA PlaceGrows ==
  ASSUME NEW B, NEW C, Sound(B), Sound(C), Grows(B, C), NEW n \in Nat, n <= Len(B.commands), NEW arg \in Args(B, n)
  PROVE  Place(Finish(C), arg) = Place(Finish(B), arg)
<1>1. CASE arg[1] = "Result"
  <2>1. PICK j \in 0..(n - 1) : arg = ResultArg(j)
    <3>1. arg # GasCoin
      BY <1>1 DEF GasCoin
    <3>2. \A k : arg # Slot(B, k)
      BY <1>1, SlotTag
    <3>3. \A j, l : arg # NestedResultArg(j, l)
      BY <1>1 DEF NestedResultArg
    <3> QED BY <3>1, <3>2, <3>3 DEF Args
  <2>2. arg[2] + 1 \in 1..Len(B.commands)
    <3>1. arg[2] = j
      BY <2>1 DEF ResultArg
    <3>2. Len(B.commands) \in Nat
      BY SoundFacts
    <3> QED BY <3>1, <3>2
  <2>3. Finish(C).commands[arg[2] + 1] = Finish(B).commands[arg[2] + 1]
    BY <2>2 DEF Grows, Finish
  <2> QED BY <2>3 DEF Place
<1>2. CASE arg[1] # "Result"
  BY <1>2 DEF Place
<1> QED BY <1>1, <1>2

(* Nor does the type of what is somewhere. *)
LEMMA TypeGrows ==
  ASSUME NEW B, NEW C, Sound(B), Sound(C), Grows(B, C), NEW n \in Nat, n <= Len(B.commands), NEW p \in Places(B, n)
  PROVE  TypeOf(Finish(C), p) = TypeOf(Finish(B), p)
<1>1. CASE p = GasCoin
  BY <1>1 DEF TypeOf, GasCoin
<1>2. CASE p \in Slots(B)
  <2>1. PICK k \in DOMAIN B.inputs : p = Slot(B, k)
    BY <1>2 DEF Slots, Held
  <2>2. p = Slot(C, k) /\ k \in DOMAIN C.inputs /\ C.inputs[k] = B.inputs[k]
    BY <2>1, SlotKept DEF Grows
  <2>3. p[1] = "Input"
    BY <2>1, SlotTag
  <2>4. Finish(B).inputs[p[2] + 1] = B.inputs[k] /\ Finish(C).inputs[p[2] + 1] = C.inputs[k]
    BY <2>1, <2>2, InputAt
  <2> QED BY <2>2, <2>3, <2>4 DEF TypeOf
<1>3. CASE \E j \in 0..(n - 1), l \in Nat : p = NestedResultArg(j, l)
  <2>1. PICK j \in 0..(n - 1), l \in Nat : p = NestedResultArg(j, l)
    BY <1>3
  <2>2. p[1] = "NestedResult" /\ p[2] + 1 \in 1..Len(B.commands)
    <3>1. p[1] = "NestedResult" /\ p[2] = j
      BY <2>1 DEF NestedResultArg
    <3>2. Len(B.commands) \in Nat
      BY SoundFacts
    <3> QED BY <3>1, <3>2
  <2>3. Finish(C).commands[p[2] + 1] = Finish(B).commands[p[2] + 1]
    BY <2>2 DEF Grows, Finish
  <2> QED BY <2>2, <2>3 DEF TypeOf
<1> QED BY <1>1, <1>2, <1>3 DEF Places

(* So a command means the same in the longer transaction. *)
LEMMA AgreeGrows ==
  ASSUME NEW B, NEW C, Sound(B), Sound(C), Grows(B, C), NEW n \in Nat, n <= Len(B.commands),
         NEW cmd, CmdOK(B, n, cmd), NEW P, P \subseteq Places(B, n)
  PROVE  Agree(Finish(B), Finish(C), cmd, P)
<1>1. \A i \in DOMAIN cmd.args : Place(Finish(B), cmd.args[i]) = Place(Finish(C), cmd.args[i])
  <2>1. \A i \in DOMAIN cmd.args : cmd.args[i] \in Args(B, n)
    BY DEF CmdOK
  <2> QED BY <2>1, PlaceGrows
<1>2. \A p \in P : TypeOf(Finish(B), p) = TypeOf(Finish(C), p)
  BY TypeGrows
<1>3. cmd.name \in {"SplitCoins", "MergeCoins"} => Place(Finish(B), cmd.arg) = Place(Finish(C), cmd.arg)
  BY PlaceGrows DEF CmdOK
<1>4. Addresses \subseteq PureValues /\ Nat \subseteq PureValues
  BY DEF PureValues
<1>5. cmd.name = "SplitCoins" => Pieces(Finish(B), cmd) = Pieces(Finish(C), cmd)
  <2> SUFFICES ASSUME cmd.name = "SplitCoins", NEW i \in DOMAIN cmd.args
               PROVE  PureOf(Finish(B), cmd.args[i]) = PureOf(Finish(C), cmd.args[i])
    BY Zenon DEF Pieces
  <2>1. PureSlot(B, cmd.args[i], Nat)
    BY DEF CmdOK
  <2> QED BY <1>4, <2>1, PureSlotGrows
<1>6. cmd.name \in Delivering => Account(Finish(B), cmd) = Account(Finish(C), cmd)
  <2>1. cmd.name = "TransferObjects" => PureOf(Finish(B), cmd.arg) = PureOf(Finish(C), cmd.arg)
    <3>1. cmd.name = "TransferObjects" => PureSlot(B, cmd.arg, Addresses)
      BY DEF CmdOK
    <3> QED BY <1>4, <3>1, PureSlotGrows
  <2>2. Sends(cmd) => PureOf(Finish(B), cmd.args[2]) = PureOf(Finish(C), cmd.args[2])
    <3>1. Sends(cmd) => PureSlot(B, cmd.args[2], Addresses)
      BY DEF CmdOK
    <3> QED BY <1>4, <3>1, PureSlotGrows
  <2> QED BY <2>1, <2>2 DEF Account, Delivering, Sends
<1>7. Sends(cmd) => 1 \in DOMAIN cmd.args
  BY DEF CmdOK
<1> QED BY <1>1, <1>2, <1>3, <1>5, <1>6, <1>7 DEF Agree

-----------------------------------------------------------------------------
(* The places of the inputs that C has and B has not. *)
NewSlots(B, C) == {Slot(C, k) : k \in Held(C) \ DOMAIN B.inputs}

(* A builder with more inputs loads a machine with more places, the same    *)
(* where both have one.                                                     *)
LEMMA LoadExtends ==
  ASSUME NEW B, NEW C, Sound(B), Sound(C), Grows(B, C)
  PROVE  Extends(Load(Finish(B)), Load(Finish(C)), NewSlots(B, C), Load(Finish(C)).at)
<1> DEFINE m == Load(Finish(B))
           l == Load(Finish(C))
           N == NewSlots(B, C)
<1>1. /\ m.err = "none" /\ m.got = NothingPaid /\ DOMAIN m.at = {GasCoin} \cup Slots(B) /\ m.at[GasCoin] = GasBalance
      /\ \A k \in Held(B) : m.at[Slot(B, k)] = Amount(B.inputs[k])
  BY LoadFacts
<1>2. /\ l.err = "none" /\ l.got = NothingPaid /\ DOMAIN l.at = {GasCoin} \cup Slots(C) /\ l.at[GasCoin] = GasBalance
      /\ \A k \in Held(C) : l.at[Slot(C, k)] = Amount(C.inputs[k])
  BY LoadFacts
<1>3. \A k \in Held(B) : k \in Held(C) /\ k \in DOMAIN B.inputs /\ Slot(C, k) = Slot(B, k) /\ C.inputs[k] = B.inputs[k]
  BY SlotKept DEF Held, Grows
<1>4. \A k \in Held(C) : k \in DOMAIN C.inputs
  BY DEF Held
<1>5. \A k \in Held(C) : k \in DOMAIN B.inputs => k \in Held(B)
  BY DEF Held, Grows
<1> HIDE DEF m, l
<1>6. DOMAIN l.at = DOMAIN m.at \cup N
  <2>1. Slots(C) \subseteq Slots(B) \cup N
    BY <1>3, <1>5 DEF Slots, NewSlots
  <2>2. Slots(B) \subseteq Slots(C) /\ N \subseteq Slots(C)
    BY <1>3 DEF Slots, NewSlots
  <2> QED BY <1>1, <1>2, <2>1, <2>2
<1>7. DOMAIN m.at \cap N = {}
  <2> SUFFICES ASSUME NEW k \in Held(C) \ DOMAIN B.inputs, Slot(C, k) \in DOMAIN m.at PROVE FALSE
    BY DEF NewSlots
  <2>1. Slot(C, k) \in Slots(B)
    BY <1>1, SlotTag
  <2>2. PICK j \in Held(B) : Slot(C, k) = Slot(B, j)
    BY <2>1 DEF Slots
  <2>3. Slot(C, k) = Slot(C, j) /\ j \in DOMAIN C.inputs /\ k \in DOMAIN C.inputs
    BY <1>3, <1>4, <2>2
  <2>4. j = k
    BY <2>3, SlotsDiffer
  <2> QED BY <1>3, <2>2, <2>4
<1>8. \A p \in DOMAIN m.at : l.at[p] = m.at[p]
  <2> TAKE p \in DOMAIN m.at
  <2>1. CASE p = GasCoin
    BY <1>1, <1>2, <2>1
  <2>2. CASE p \in Slots(B)
    BY <1>1, <1>2, <1>3, <2>2 DEF Slots
  <2> QED BY <1>1, <2>1, <2>2
<1>9. Widens(m.at, l.at, N, l.at)
  BY <1>6, <1>7, <1>8 DEF Widens
<1> QED BY <1>1, <1>2, <1>9 DEF Extends, m, l

(* The commands of B have the same effect where there are more inputs. *)
LEMMA Frame ==
  ASSUME NEW B, NEW C, Live(B), Sound(C), CmdsOK(C), Grows(B, C), NEW k \in 0..Len(B.commands)
  PROVE  Extends(Ran(B, k), Ran(C, k), NewSlots(B, C), Load(Finish(C)).at)
<1> DEFINE n == Len(B.commands)
           N == NewSlots(B, C)
           A == Load(Finish(C)).at
           S == {i \in Nat : i <= n => Extends(Ran(B, i), Ran(C, i), N, A)}
<1>0. Sound(B) /\ CmdsOK(B) /\ Run(B).err = "none"
  BY DEF Live
<1>1. n \in Nat /\ Len(C.commands) \in Nat /\ n <= Len(C.commands)
      /\ \A i \in 1..n : C.commands[i] = B.commands[i]
      /\ Finish(B).commands = B.commands /\ Finish(C).commands = C.commands
  BY <1>0, SoundFacts DEF Finish, Grows
<1>2. \A j \in 0..(n - 1) :
        /\ Ran(B, j).err = "none" /\ Needs(Finish(B), Ran(B, j), B.commands[j + 1])
        /\ Ran(B, j + 1) = Does(Finish(B), Ran(B, j), j)
  <2>1. n \in 0..Len(B.commands) /\ Ran(B, n).err = "none"
    BY <1>0, <1>1 DEF Run
  <2> QED BY <1>0, <2>1, RanShape
<1>3. 0 \in S
  <2>1. Extends(Ran(B, 0), Ran(C, 0), N, A)
    BY <1>0, RanFacts, LoadExtends
  <2> QED BY <2>1
<1>4. ASSUME NEW i \in Nat, i \in S PROVE i + 1 \in S
  <2> SUFFICES ASSUME i + 1 <= n PROVE Extends(Ran(B, i + 1), Ran(C, i + 1), N, A)
    OBVIOUS
  <2> DEFINE cmd == B.commands[i + 1]
             m == Ran(B, i)
             l == Ran(C, i)
  <2>1. i <= n /\ i \in 0..(n - 1) /\ i \in 0..n /\ i + 1 \in 1..n /\ i \in 0..(Len(C.commands) - 1) /\ i \in 0..Len(C.commands)
        /\ i + 1 \in 1..Len(C.commands) /\ (i + 1) - 1 = i
    BY <1>1
  <2>2. Extends(m, l, N, A)
    BY <1>4, <2>1
  <2>3. m.err = "none" /\ Needs(Finish(B), m, cmd) /\ Ran(B, i + 1) = Does(Finish(B), m, i)
    BY <1>2, <2>1
  <2>4. l.err = "none"
    BY <2>2, <2>3 DEF Extends
  <2>5. IsMachine(m) /\ DOMAIN m.at \subseteq Places(B, i)
    BY <1>0, <2>1, <2>3, RanShape
  <2>6. IsMachine(l)
    BY <2>1, <2>4, RanShape
  <2>7. CmdOK(B, i, cmd)
    BY <1>0, <2>1 DEF CmdsOK
  <2>8. cmd = C.commands[i + 1] /\ CmdOK(C, i, cmd)
    <3>1. cmd = C.commands[i + 1]
      BY <1>1, <2>1
    <3>2. CmdOK(C, (i + 1) - 1, C.commands[i + 1])
      BY <2>1 DEF CmdsOK
    <3> QED BY <2>1, <3>1, <3>2
  <2>9. Agree(Finish(B), Finish(C), cmd, DOMAIN m.at)
    BY <1>0, <2>1, <2>5, <2>7, AgreeGrows
  <2>10. cmd.name \in Names
    BY <2>7 DEF CmdOK
  <2>11. \A j : NestedResultArg(i, j) \notin N
    BY SlotTag DEF NewSlots
  <2>12. cmd = Finish(B).commands[i + 1] /\ cmd = Finish(C).commands[i + 1]
    BY <1>1, <2>8
  <2> HIDE DEF cmd, m, l, N, A
  <2>13. Needs(Finish(C), l, cmd) /\ Extends(Does(Finish(B), m, i), Does(Finish(C), l, i), N, A)
    BY <2>2, <2>3, <2>9, <2>10, <2>11, <2>12, DoesExtends
  <2>14. cmd.name = "SplitCoins" => Total(Pieces(Finish(C), cmd)) \in Nat
    BY <2>8, PiecesAre
  <2>15. Step(Finish(C), l, i) = Does(Finish(C), l, i)
    BY <2>4, <2>6, <2>10, <2>12, <2>13, <2>14, StepIs
  <2>16. Ran(C, i + 1) = Step(Finish(C), l, i)
    BY <2>1, RanFacts DEF l
  <2> QED BY <2>3, <2>13, <2>15, <2>16
<1> HIDE DEF S
<1>5. Nat \subseteq S
  BY <1>3, <1>4, SetInduction
<1>6. k \in S /\ k <= n
  BY <1>1, <1>5
<1> QED BY <1>6 DEF S

(* The machine of a builder whose commands execute. *)
LEMMA LiveShape ==
  ASSUME NEW B, Live(B)
  PROVE  /\ Sound(B) /\ IsMachine(Run(B)) /\ DOMAIN Run(B).at \subseteq Places(B, Len(B.commands))
         /\ Run(B).at \in [DOMAIN Run(B).at -> Nat] /\ Run(B).got \in [Accounts -> Nat] /\ Run(B).err = "none"
         /\ Len(B.commands) \in Nat
<1>1. Sound(B) /\ CmdsOK(B) /\ Run(B).err = "none"
  BY DEF Live
<1>2. Len(B.commands) \in Nat /\ Len(B.commands) \in 0..Len(B.commands)
  BY <1>1, SoundFacts
<1>3. IsMachine(Run(B)) /\ DOMAIN Run(B).at \subseteq Places(B, Len(B.commands))
  BY <1>1, <1>2, RanShape DEF Run
<1> QED BY <1>1, <1>2, <1>3 DEF IsMachine

(* More inputs: what they hold is there besides what was. *)
LEMMA LiveInput ==
  ASSUME NEW B, NEW C, Live(B), Sound(C), Grows(B, C), C.commands = B.commands
  PROVE  /\ Live(C) /\ Run(C).got = Run(B).got
         /\ Widens(Run(B).at, Run(C).at, NewSlots(B, C), Load(Finish(C)).at)
         /\ \A k \in Held(C) \ DOMAIN B.inputs : Run(C).at[Slot(C, k)] = Amount(C.inputs[k])
<1>1. Sound(B) /\ CmdsOK(B) /\ Run(B).err = "none" /\ Len(B.commands) \in Nat
  BY SoundFacts DEF Live
<1>2. CmdsOK(C)
  <2> SUFFICES ASSUME NEW i \in 1..Len(C.commands) PROVE CmdOK(C, i - 1, C.commands[i])
    BY DEF CmdsOK
  <2>1. CmdOK(B, i - 1, B.commands[i])
    BY <1>1 DEF CmdsOK
  <2> QED BY <1>1, <2>1, CmdOKGrows
<1>3. Len(B.commands) \in 0..Len(B.commands)
  BY <1>1
<1>4. Extends(Run(B), Run(C), NewSlots(B, C), Load(Finish(C)).at)
  BY <1>2, <1>3, Frame DEF Run
<1>5. ASSUME NEW k \in Held(C) \ DOMAIN B.inputs PROVE Run(C).at[Slot(C, k)] = Amount(C.inputs[k])
  <2>1. Load(Finish(C)).at[Slot(C, k)] = Amount(C.inputs[k])
    BY LoadFacts
  <2>2. Slot(C, k) \in NewSlots(B, C)
    BY DEF NewSlots
  <2> QED BY <1>4, <2>1, <2>2 DEF Extends, Widens
<1> QED BY <1>1, <1>2, <1>4, <1>5 DEF Extends, Live

(* What a command needs and takes, in two transactions that agree. *)
LEMMA SameEffect ==
  ASSUME NEW pt1, NEW pt2, NEW m, NEW cmd, cmd.name \in Names,
         Agree(pt1, pt2, cmd, DOMAIN m.at), Needs(pt1, m, cmd)
  PROVE  /\ Needs(pt2, m, cmd)
         /\ Rest(pt2, m, cmd) = Rest(pt1, m, cmd)
         /\ SumAt(pt2, m, Given(cmd)) = SumAt(pt1, m, Given(cmd))
<1>3. \A i \in DOMAIN Given(cmd) : Place(pt1, Given(cmd)[i]) = Place(pt2, Given(cmd)[i])
  <2>1. CASE Sends(cmd)
    <3>1. Given(cmd) = <<cmd.args[1]>> /\ 1 \in DOMAIN cmd.args
      BY <2>1 DEF Given, Agree
    <3>2. DOMAIN Given(cmd) = {1} /\ Given(cmd)[1] = cmd.args[1]
      BY <3>1
    <3> QED BY <3>1, <3>2 DEF Agree
  <2>2. CASE ~ Sends(cmd)
    BY <2>2 DEF Given, Agree
  <2> QED BY <2>1, <2>2
<1>4. TakenBy(pt2, Given(cmd)) = TakenBy(pt1, Given(cmd))
  <2> DEFINE args == Given(cmd)
  <2>1. \A i \in DOMAIN args : Place(pt1, args[i]) = Place(pt2, args[i])
    BY <1>3
  <2> HIDE DEF args
  <2>2. TakenBy(pt2, args) = TakenBy(pt1, args)
    BY <2>1 DEF TakenBy
  <2> QED BY <2>2 DEF args
<1>5. SumAt(pt2, m, Given(cmd)) = SumAt(pt1, m, Given(cmd))
  <2>1. [i \in DOMAIN Given(cmd) |-> m.at[Place(pt1, Given(cmd)[i])]] = [i \in DOMAIN Given(cmd) |-> m.at[Place(pt2, Given(cmd)[i])]]
    BY <1>3
  <2> QED BY <2>1 DEF SumAt
<1>2. Needs(pt2, m, cmd)
  <2> DEFINE args == Given(cmd)
             types == TypesOf(cmd)
  <2>1. cmd.name # "SplitCoins" => CanTake(pt2, m, types, args)
    <3> SUFFICES ASSUME cmd.name # "SplitCoins" PROVE CanTake(pt2, m, types, args)
      OBVIOUS
    <3>1. CanTake(pt1, m, types, args)
      BY DEF Needs
    <3>2. \A i \in DOMAIN args : Place(pt1, args[i]) = Place(pt2, args[i])
      BY <1>3
    <3>3. \A p \in DOMAIN m.at : TypeOf(pt1, p) = TypeOf(pt2, p)
      BY DEF Agree
    <3>4. Widens(m.at, m.at, {}, m.at)
      BY DEF Widens
    <3> HIDE DEF args, types
    <3> QED BY <3>1, <3>2, <3>3, <3>4, CanTakeWidens
  <2>2. (\E i \in DOMAIN cmd.args : cmd.args[i] = GasCoin) => cmd.name = "TransferObjects"
    BY DEF Needs
  <2>3. CASE cmd.name = "SplitCoins"
    BY <2>2, <2>3 DEF Needs, Agree
  <2>4. CASE cmd.name = "MergeCoins"
    <3>1. Given(cmd) = cmd.args
      BY <2>4 DEF Given, Sends
    <3>2. Place(pt1, cmd.arg) \in DOMAIN m.at \ TakenBy(pt1, cmd.args)
      BY <2>4 DEF Needs
    <3>3. Place(pt2, cmd.arg) \in DOMAIN m.at \ TakenBy(pt2, cmd.args)
      BY <1>4, <2>4, <3>1, <3>2 DEF Agree
    <3> QED BY <2>1, <2>2, <2>4, <3>3 DEF Needs
  <2>5. CASE cmd.name \notin {"SplitCoins", "MergeCoins"}
    BY <2>1, <2>2, <2>5 DEF Needs
  <2> QED BY <2>3, <2>4, <2>5
<1> QED BY <1>2, <1>4, <1>5 DEF Rest

(* Machines with the same parts. *)
LEMMA SameMachine ==
  ASSUME NEW m, NEW l, IsMachine(m), IsMachine(l), NEW A, Extends(m, l, {}, A)
  PROVE  l = m
<1>1. l.at = m.at
  <2>1. DOMAIN l.at = DOMAIN m.at /\ \A p \in DOMAIN m.at : l.at[p] = m.at[p]
    BY DEF Extends, Widens
  <2>2. l.at = [p \in DOMAIN l.at |-> l.at[p]] /\ m.at = [p \in DOMAIN m.at |-> m.at[p]]
    BY DEF IsMachine
  <2> QED BY <2>1, <2>2
<1> QED BY <1>1 DEF Extends, IsMachine

(* C is B with one more command, which executes. *)
Longer(B, C, cmd) ==
  /\ Live(C) /\ Grows(B, C) /\ C.inputs = B.inputs /\ C.order = B.order
  /\ Len(C.commands) = Len(B.commands) + 1 /\ C.commands[Len(B.commands) + 1] = cmd

(* What it does, in terms of the transaction before it. *)
Effect(B, C, cmd) ==
  LET pt == Finish(B)
      m == Run(B)
      sum == SumAt(pt, m, Given(cmd))
      rest == Rest(pt, m, cmd)
      old == Place(pt, cmd.arg)
  IN /\ cmd.name \in Delivering => Run(C).at = rest /\ Run(C).got = More(m.got, Account(pt, cmd), sum)
     /\ cmd.name \notin Delivering => Run(C).got = m.got
     /\ cmd.name \in Making => Run(C).at = Placed(rest, Len(B.commands), <<sum>>)
     /\ cmd.name = "SplitCoins" =>
          Run(C).at = Placed(Less(m.at, old, Total(Pieces(pt, cmd))), Len(B.commands), Pieces(pt, cmd))
     /\ cmd.name = "MergeCoins" => Run(C).at = More(rest, old, sum)

(* One more command, which has what it needs. *)
LEMMA LiveCommand ==
  ASSUME NEW B, Live(B), NEW cmd, CmdOK(B, Len(B.commands), cmd), Needs(Finish(B), Run(B), cmd),
         NEW C, C = Command(B, cmd).b
  PROVE  Longer(B, C, cmd) /\ Effect(B, C, cmd)
<1> DEFINE n == Len(B.commands)
           m == Run(B)
<1>1. Sound(B) /\ CmdsOK(B) /\ IsMachine(m) /\ m.err = "none" /\ n \in Nat /\ DOMAIN m.at \subseteq Places(B, n)
  BY LiveShape DEF Live
<1>2. /\ Sound(C) /\ Grows(B, C) /\ C.inputs = B.inputs /\ C.order = B.order
      /\ Len(C.commands) = n + 1 /\ C.commands[n + 1] = cmd
  BY <1>1, CommandAdds
<1>3. CmdsOK(C)
  <2> SUFFICES ASSUME NEW i \in 1..Len(C.commands) PROVE CmdOK(C, i - 1, C.commands[i])
    BY DEF CmdsOK
  <2>1. CASE i <= n
    <3>1. i \in 1..Len(B.commands) /\ C.commands[i] = B.commands[i]
      BY <1>1, <1>2, <2>1 DEF Grows
    <3>2. CmdOK(B, i - 1, B.commands[i])
      BY <1>1, <3>1 DEF CmdsOK
    <3> QED BY <1>1, <1>2, <3>1, <3>2, CmdOKGrows
  <2>2. CASE i = n + 1
    <3>1. i - 1 = n
      BY <1>1, <2>2
    <3> QED BY <1>1, <1>2, <2>2, <3>1, CmdOKGrows
  <2> QED BY <1>1, <1>2, <2>1, <2>2
<1>4. Ran(C, n) = m
  <2>1. n \in 0..n /\ n \in 0..Len(C.commands)
    BY <1>1, <1>2
  <2>2. Extends(m, Ran(C, n), NewSlots(B, C), Load(Finish(C)).at)
    BY <1>2, <1>3, <2>1, Frame DEF Run
  <2>3. NewSlots(B, C) = {}
    BY <1>2 DEF NewSlots, Held
  <2>4. Ran(C, n).err = "none"
    BY <1>1, <2>2 DEF Extends
  <2>5. IsMachine(Ran(C, n))
    BY <1>2, <1>3, <2>1, <2>4, RanShape
  <2> QED BY <1>1, <2>2, <2>3, <2>5, SameMachine
<1>5. cmd.name \in Names
  BY DEF CmdOK
<1>6. Agree(Finish(B), Finish(C), cmd, DOMAIN m.at)
  BY <1>1, <1>2, AgreeGrows
<1>7. CmdOK(C, n, cmd) /\ cmd = Finish(C).commands[n + 1]
  BY <1>1, <1>2, CmdOKGrows DEF Finish
<1>8. /\ Needs(Finish(C), m, cmd)
      /\ Rest(Finish(C), m, cmd) = Rest(Finish(B), m, cmd)
      /\ SumAt(Finish(C), m, Given(cmd)) = SumAt(Finish(B), m, Given(cmd))
  BY <1>5, <1>6, SameEffect
<1>9. Run(C) = Does(Finish(C), m, n)
  <2>1. cmd.name = "SplitCoins" => Total(Pieces(Finish(C), cmd)) \in Nat
    BY <1>2, <1>7, PiecesAre
  <2>2. Step(Finish(C), m, n) = Does(Finish(C), m, n)
    BY <1>1, <1>5, <1>7, <1>8, <2>1, StepIs
  <2>3. n \in 0..(Len(C.commands) - 1)
    BY <1>1, <1>2
  <2>4. Ran(C, n + 1) = Step(Finish(C), Ran(C, n), n)
    BY <1>2, <2>3, RanFacts
  <2> QED BY <1>2, <1>4, <2>2, <2>4 DEF Run
<1> DEFINE d == Run(C)
<1> HIDE DEF d, m, n
<1>10. /\ d.err = "none"
       /\ cmd.name \in Delivering =>
            /\ d.at = Rest(Finish(C), m, cmd)
            /\ d.got = More(m.got, Account(Finish(C), cmd), SumAt(Finish(C), m, Given(cmd)))
       /\ cmd.name \notin Delivering => d.got = m.got
       /\ cmd.name \in Making => d.at = Placed(Rest(Finish(C), m, cmd), n, <<SumAt(Finish(C), m, Given(cmd))>>)
       /\ cmd.name = "SplitCoins" =>
            d.at = Placed(Less(m.at, Place(Finish(C), cmd.arg), Total(Pieces(Finish(C), cmd))), n, Pieces(Finish(C), cmd))
       /\ cmd.name = "MergeCoins" =>
            d.at = More(Rest(Finish(C), m, cmd), Place(Finish(C), cmd.arg), SumAt(Finish(C), m, Given(cmd)))
  BY <1>5, <1>7, <1>9, DoesParts DEF d
<1>11. /\ cmd.name \in {"SplitCoins", "MergeCoins"} => Place(Finish(C), cmd.arg) = Place(Finish(B), cmd.arg)
       /\ cmd.name = "SplitCoins" => Pieces(Finish(C), cmd) = Pieces(Finish(B), cmd)
       /\ cmd.name \in Delivering => Account(Finish(C), cmd) = Account(Finish(B), cmd)
  BY <1>6 DEF Agree
<1> DEFINE sumC == SumAt(Finish(C), m, Given(cmd))
           sumB == SumAt(Finish(B), m, Given(cmd))
           restC == Rest(Finish(C), m, cmd)
           restB == Rest(Finish(B), m, cmd)
           toC == Account(Finish(C), cmd)
           toB == Account(Finish(B), cmd)
           atC == Place(Finish(C), cmd.arg)
           atB == Place(Finish(B), cmd.arg)
           pieC == Pieces(Finish(C), cmd)
           pieB == Pieces(Finish(B), cmd)
<1> HIDE DEF sumC, sumB, restC, restB, toC, toB, atC, atB, pieC, pieB
<1>12. sumC = sumB /\ restC = restB
  BY <1>8 DEF sumC, sumB, restC, restB
<1>13. Live(C)
  BY <1>2, <1>3, <1>10 DEF Live, d
<1>14. cmd.name \in Delivering => d.at = restB /\ d.got = More(m.got, toB, sumB)
  <2> SUFFICES ASSUME cmd.name \in Delivering PROVE d.at = restB /\ d.got = More(m.got, toB, sumB)
    OBVIOUS
  <2>1. toC = toB
    BY <1>11 DEF toC, toB
  <2>2. d.at = restC /\ d.got = More(m.got, toC, sumC)
    BY <1>10, Zenon DEF restC, toC, sumC
  <2> QED BY <1>12, <2>1, <2>2
<1>15. cmd.name \in Making => d.at = Placed(restB, n, <<sumB>>)
  <2> SUFFICES ASSUME cmd.name \in Making PROVE d.at = Placed(restB, n, <<sumB>>)
    OBVIOUS
  <2>1. d.at = Placed(restC, n, <<sumC>>)
    BY <1>10, Zenon DEF restC, sumC
  <2> QED BY <1>12, <2>1
<1>16. cmd.name = "SplitCoins" => d.at = Placed(Less(m.at, atB, Total(pieB)), n, pieB)
  <2> SUFFICES ASSUME cmd.name = "SplitCoins" PROVE d.at = Placed(Less(m.at, atB, Total(pieB)), n, pieB)
    OBVIOUS
  <2>1. atC = atB /\ pieC = pieB
    BY <1>11 DEF atC, atB, pieC, pieB
  <2>2. d.at = Placed(Less(m.at, atC, Total(pieC)), n, pieC)
    BY <1>10, Zenon DEF atC, pieC
  <2> QED BY <2>1, <2>2
<1>17. cmd.name = "MergeCoins" => d.at = More(restB, atB, sumB)
  <2> SUFFICES ASSUME cmd.name = "MergeCoins" PROVE d.at = More(restB, atB, sumB)
    OBVIOUS
  <2>1. atC = atB
    BY <1>11 DEF atC, atB
  <2>2. d.at = More(restC, atC, sumC)
    BY <1>10, Zenon DEF restC, atC, sumC
  <2> QED BY <1>12, <2>1, <2>2
<1>18. cmd.name \notin Delivering => d.got = m.got
  BY <1>10
<1>19. Longer(B, C, cmd)
  BY <1>2, <1>13 DEF Longer, n
<1>20. Effect(B, C, cmd)
  BY <1>14, <1>15, <1>16, <1>17, <1>18, Zenon DEF Effect, n, d, m, sumB, restB, toB, atB, pieB
<1> QED BY <1>19, <1>20

(* arg stands for a value of type t worth x, which is at p. *)
Holds(B, arg, p, t, x) ==
  /\ arg \in Args(B, Len(B.commands)) /\ Place(Finish(B), arg) = p
  /\ p \in DOMAIN Run(B).at /\ Run(B).at[p] = x
  /\ TypeOf(Finish(B), p) = t

(* The Argument of an object or withdrawal that is still there holds it. *)
LEMMA HoldsSlot ==
  ASSUME NEW B, Live(B), NEW k \in Held(B), Slot(B, k) \in DOMAIN Run(B).at
  PROVE  Holds(B, Slot(B, k), Slot(B, k), B.inputs[k].kind, Run(B).at[Slot(B, k)])
<1>1. Sound(B) /\ k \in DOMAIN B.inputs
  BY DEF Live, Held
<1>2. Slot(B, k)[1] = "Input"
  BY SlotTag
<1>3. Place(Finish(B), Slot(B, k)) = Slot(B, k)
  BY <1>2 DEF Place
<1>4. Finish(B).inputs[Slot(B, k)[2] + 1] = B.inputs[k]
  BY <1>1, InputAt
<1>5. TypeOf(Finish(B), Slot(B, k)) = B.inputs[k].kind
  BY <1>2, <1>4 DEF TypeOf
<1>6. Slot(B, k) \in Args(B, Len(B.commands))
  BY <1>1 DEF Args
<1> QED BY <1>3, <1>5, <1>6 DEF Holds

(* The Argument of the gas coin holds it. *)
LEMMA HoldsGas ==
  ASSUME NEW B, Live(B), GasCoin \in DOMAIN Run(B).at
  PROVE  Holds(B, GasCoin, GasCoin, "Object", Run(B).at[GasCoin])
<1>1. Place(Finish(B), GasCoin) = GasCoin /\ TypeOf(Finish(B), GasCoin) = "Object"
  BY DEF Place, TypeOf, GasCoin
<1>2. GasCoin \in Args(B, Len(B.commands))
  BY DEF Args
<1> QED BY <1>1, <1>2 DEF Holds

(* The type of the results of a command. *)
ResultType(name) ==
  CASE name = "balance::redeem_funds" -> "Balance"
    [] name = "MakeMoveVec" -> "Vector"
    [] OTHER -> "Object"

(* The Argument of a result that is still there holds it. *)
LEMMA HoldsNested ==
  ASSUME NEW B, Live(B), NEW j \in 0..(Len(B.commands) - 1), NEW l \in Nat, NestedResultArg(j, l) \in DOMAIN Run(B).at
  PROVE  Holds(B, NestedResultArg(j, l), NestedResultArg(j, l), ResultType(B.commands[j + 1].name),
               Run(B).at[NestedResultArg(j, l)])
<1> DEFINE p == NestedResultArg(j, l)
<1>1. p[1] = "NestedResult" /\ p[2] = j
  BY DEF NestedResultArg
<1>2. p \in Args(B, Len(B.commands))
  BY DEF Args
<1> HIDE DEF p
<1>3. Place(Finish(B), p) = p
  BY <1>1 DEF Place
<1>4. TypeOf(Finish(B), p) = ResultType(B.commands[j + 1].name)
  <2>1. Finish(B).commands = B.commands
    BY DEF Finish
  <2> QED BY <1>1, <2>1 DEF TypeOf, ResultType
<1>5. Holds(B, p, p, ResultType(B.commands[j + 1].name), Run(B).at[p])
  <2>1. p \in DOMAIN Run(B).at
    BY DEF p
  <2> QED BY <1>2, <1>3, <1>4, <2>1 DEF Holds
<1> QED BY <1>5 DEF p

(* So does the Result of a command with one result. *)
LEMMA HoldsResult ==
  ASSUME NEW B, Live(B), NEW j \in 0..(Len(B.commands) - 1), Width(B.commands[j + 1]) = 1,
         NestedResultArg(j, 0) \in DOMAIN Run(B).at
  PROVE  Holds(B, ResultArg(j), NestedResultArg(j, 0), ResultType(B.commands[j + 1].name),
               Run(B).at[NestedResultArg(j, 0)])
<1>1. ResultArg(j)[1] = "Result" /\ ResultArg(j)[2] = j
  BY DEF ResultArg
<1>2. Place(Finish(B), ResultArg(j)) = NestedResultArg(j, 0)
  BY <1>1 DEF Place, Finish
<1>3. ResultArg(j) \in Args(B, Len(B.commands))
  BY DEF Args
<1>4. Holds(B, NestedResultArg(j, 0), NestedResultArg(j, 0), ResultType(B.commands[j + 1].name),
            Run(B).at[NestedResultArg(j, 0)])
  BY HoldsNested
<1> QED BY <1>2, <1>3, <1>4 DEF Holds

(* What can be referred to after n commands can be after more. *)
LEMMA ArgsLonger ==
  ASSUME NEW B, NEW n \in Nat, NEW m \in Nat, n <= m, NEW arg \in Args(B, n)
  PROVE  arg \in Args(B, m)
<1>1. \A j \in 0..(n - 1) : j \in 0..(m - 1)
  OBVIOUS
<1>2. CASE arg \in {GasCoin} \cup {Slot(B, k) : k \in DOMAIN B.inputs}
  BY <1>2 DEF Args
<1>3. CASE \E j \in 0..(n - 1) : arg = ResultArg(j)
  BY <1>1, <1>3 DEF Args
<1>4. CASE \E j \in 0..(n - 1), l \in Nat : arg = NestedResultArg(j, l)
  BY <1>1, <1>4 DEF Args
<1> QED BY <1>2, <1>3, <1>4 DEF Args

(* It does as long as the value is there. *)
LEMMA HoldsAnew ==
  ASSUME NEW B, NEW C, Live(B), Live(C), Grows(B, C), NEW arg, NEW p, NEW t, NEW y, Holds(B, arg, p, t, y), NEW x,
         p \in DOMAIN Run(C).at, Run(C).at[p] = x
  PROVE  Holds(C, arg, p, t, x)
<1>1. Sound(B) /\ Sound(C) /\ Len(B.commands) \in Nat /\ Len(C.commands) \in Nat /\ Len(B.commands) <= Len(C.commands)
  BY LiveShape DEF Grows
<1>2. arg \in Args(B, Len(B.commands)) /\ p \in Places(B, Len(B.commands))
  BY LiveShape DEF Holds
<1>3. Place(Finish(C), arg) = p /\ TypeOf(Finish(C), p) = t
  <2>1. Place(Finish(C), arg) = Place(Finish(B), arg)
    BY <1>1, <1>2, PlaceGrows
  <2>2. TypeOf(Finish(C), p) = TypeOf(Finish(B), p)
    BY <1>1, <1>2, TypeGrows
  <2> QED BY <2>1, <2>2 DEF Holds
<1>4. arg \in Args(C, Len(C.commands))
  <2>1. arg \in Args(C, Len(B.commands))
    BY <1>1, <1>2, ArgsGrow
  <2> QED BY <1>1, <2>1, ArgsLonger
<1> QED BY <1>3, <1>4 DEF Holds

(* An Argument holds what it held if its place is unchanged. *)
LEMMA HoldsGrows ==
  ASSUME NEW B, NEW C, Live(B), Live(C), Grows(B, C), NEW arg, NEW p, NEW t, NEW x, Holds(B, arg, p, t, x),
         p \in DOMAIN Run(C).at, Run(C).at[p] = x
  PROVE  Holds(C, arg, p, t, x)
BY HoldsAnew

-----------------------------------------------------------------------------
(* args stand for values of the given types, at q and worth am. *)
Stock(B, args, types, q, am) ==
  /\ am \in Seq(Nat) /\ Len(am) = Len(args)
  /\ IsSeq(args) /\ Len(args) \in Nat /\ DOMAIN args = 1..Len(args)
  /\ \A i \in 1..Len(args) : \E t \in types : Holds(B, args[i], q[i], t, am[i])
  /\ \A i, j \in 1..Len(args) : q[i] = q[j] => i = j

Spots(q, n) == {q[i] : i \in 1..n}

(* A stock can be taken, and is worth its amounts. *)
LEMMA StockTaken ==
  ASSUME NEW B, NEW args, NEW types, NEW q, NEW am, Stock(B, args, types, q, am)
  PROVE  /\ CanTake(Finish(B), Run(B), types, args)
         /\ TakenBy(Finish(B), args) = Spots(q, Len(args))
         /\ SumAt(Finish(B), Run(B), args) = Total(am)
<1>1. DOMAIN args = 1..Len(args)
  BY DEF Stock
<1>2. \A i \in 1..Len(args) : /\ Place(Finish(B), args[i]) = q[i] /\ q[i] \in DOMAIN Run(B).at
                              /\ Run(B).at[q[i]] = am[i] /\ TypeOf(Finish(B), q[i]) \in types
  BY DEF Stock, Holds
<1>3. TakenBy(Finish(B), args) = Spots(q, Len(args))
  BY <1>1, <1>2 DEF TakenBy, Spots
<1>4. CanTake(Finish(B), Run(B), types, args)
  BY <1>1, <1>2, <1>3 DEF CanTake, Stock, Spots
<1>5. [i \in DOMAIN args |-> Run(B).at[Place(Finish(B), args[i])]] = am
  <2>1. [i \in DOMAIN args |-> Run(B).at[Place(Finish(B), args[i])]] = [i \in 1..Len(args) |-> am[i]]
    BY <1>1, <1>2
  <2>2. am = [i \in 1..Len(am) |-> am[i]] /\ Len(am) = Len(args)
    BY DEF Stock
  <2> QED BY <2>1, <2>2
<1> QED BY <1>3, <1>4, <1>5 DEF SumAt

(* A stock of one. *)
LEMMA StockOne ==
  ASSUME NEW B, NEW arg, NEW p, NEW t, NEW x \in Nat, Holds(B, arg, p, t, x), NEW types, t \in types
  PROVE  Stock(B, <<arg>>, types, <<p>>, <<x>>) /\ Spots(<<p>>, 1) = {p} /\ Total(<<x>>) = x
<1>1. Len(<<arg>>) = 1 /\ <<arg>>[1] = arg /\ <<p>>[1] = p /\ <<x>>[1] = x /\ <<x>> \in Seq(Nat) /\ Len(<<x>>) = 1
      /\ DOMAIN <<arg>> = 1..1 /\ \A i \in 1..1 : i = 1
  OBVIOUS
<1>0. IsSeq(<<arg>>)
  BY DEF IsSeq
<1>2. Stock(B, <<arg>>, types, <<p>>, <<x>>)
  BY <1>0, <1>1 DEF Stock
<1>3. Spots(<<p>>, 1) = {p}
  BY <1>1 DEF Spots
<1> QED BY <1>2, <1>3, TotalOne

(* It keeps while the values stay. *)
LEMMA StockGrows ==
  ASSUME NEW B, NEW C, Live(B), Live(C), Grows(B, C), NEW args, NEW types, NEW q, NEW am, Stock(B, args, types, q, am),
         \A i \in 1..Len(args) : q[i] \in DOMAIN Run(C).at /\ Run(C).at[q[i]] = Run(B).at[q[i]]
  PROVE  Stock(C, args, types, q, am)
<1>1. ASSUME NEW i \in 1..Len(args) PROVE \E t \in types : Holds(C, args[i], q[i], t, am[i])
  <2>1. PICK t \in types : Holds(B, args[i], q[i], t, am[i])
    BY DEF Stock
  <2>2. Run(C).at[q[i]] = am[i]
    BY <2>1 DEF Holds
  <2>3. Holds(C, args[i], q[i], t, am[i])
    BY <2>1, <2>2, HoldsGrows
  <2> QED BY <2>3
<1> QED BY <1>1 DEF Stock

(* The Arguments of a stock, and the gas coin among them. *)
LEMMA StockArgs ==
  ASSUME NEW B, NEW args, NEW types, NEW q, NEW am, Stock(B, args, types, q, am)
  PROVE  /\ args \in Seq(Args(B, Len(B.commands)))
         /\ GasCoin \notin Spots(q, Len(args)) => \A i \in DOMAIN args : args[i] # GasCoin
<1>1. IsSeq(args) /\ DOMAIN args = 1..Len(args) /\ Len(args) \in Nat
      /\ \A i \in 1..Len(args) : args[i] \in Args(B, Len(B.commands)) /\ Place(Finish(B), args[i]) = q[i]
  BY DEF Stock, Holds
<1>2. args \in Seq(Args(B, Len(B.commands)))
  <2>1. args \in [1..Len(args) -> Args(B, Len(B.commands))]
    BY <1>1 DEF IsSeq
  <2> QED BY <1>1, <2>1
<1>3. Place(Finish(B), GasCoin) = GasCoin
  BY DEF Place, GasCoin
<1> QED BY <1>1, <1>2, <1>3 DEF Spots

(* The commands by kind. *)
LEMMA LiveDelivering ==
  ASSUME NEW B, Live(B), NEW cmd, CmdOK(B, Len(B.commands), cmd), Needs(Finish(B), Run(B), cmd),
         NEW C, C = Command(B, cmd).b, cmd.name \in Delivering
  PROVE  /\ Longer(B, C, cmd)
         /\ Run(C).at = Rest(Finish(B), Run(B), cmd)
         /\ Run(C).got = More(Run(B).got, Account(Finish(B), cmd), SumAt(Finish(B), Run(B), Given(cmd)))
<1>1. Longer(B, C, cmd) /\ Effect(B, C, cmd)
  BY LiveCommand
<1> QED BY <1>1 DEF Effect

(* A SplitCoins that has what it needs executes. *)
LEMMA LiveSplitting ==
  ASSUME NEW B, Live(B), NEW cmd, CmdOK(B, Len(B.commands), cmd), Needs(Finish(B), Run(B), cmd),
         NEW C, C = Command(B, cmd).b, cmd.name = "SplitCoins"
  PROVE  /\ Longer(B, C, cmd)
         /\ Run(C).at = Placed(Less(Run(B).at, Place(Finish(B), cmd.arg), Total(Pieces(Finish(B), cmd))),
                               Len(B.commands), Pieces(Finish(B), cmd))
         /\ Run(C).got = Run(B).got
<1>1. Longer(B, C, cmd) /\ Effect(B, C, cmd)
  BY LiveCommand
<1> QED BY <1>1 DEF Effect, Delivering

(* A MergeCoins that has what it needs executes. *)
LEMMA LiveMerging ==
  ASSUME NEW B, Live(B), NEW cmd, CmdOK(B, Len(B.commands), cmd), Needs(Finish(B), Run(B), cmd),
         NEW C, C = Command(B, cmd).b, cmd.name = "MergeCoins"
  PROVE  /\ Longer(B, C, cmd)
         /\ Run(C).at = More(Rest(Finish(B), Run(B), cmd), Place(Finish(B), cmd.arg), SumAt(Finish(B), Run(B), Given(cmd)))
         /\ Run(C).got = Run(B).got
<1>1. Longer(B, C, cmd) /\ Effect(B, C, cmd)
  BY LiveCommand
<1> QED BY <1>1 DEF Effect, Delivering

(* C is B with one more command, after which the machine holds at and got. *)
Leaves(B, C, cmd, at, got) == Longer(B, C, cmd) /\ Run(C).at = at /\ Run(C).got = got

(* TransferObjects of a stock pays its worth to the recipient. *)
LEMMA LiveTransfer ==
  ASSUME NEW B, Live(B), NEW args, NEW q, NEW am, Stock(B, args, {"Object"}, q, am),
         NEW a \in Addresses, PureKey(a) \in DOMAIN B.inputs, NEW to, to = Slot(B, PureKey(a)),
         NEW C, C = Command(B, TransferObjects(args, to)).b
  PROVE  Leaves(B, C, TransferObjects(args, to),
                Without(Run(B).at, Spots(q, Len(args))),
                More(Run(B).got, <<a, "coin">>, Total(am)))
<1> DEFINE cmd == TransferObjects(args, to)
<1>1. cmd.name = "TransferObjects" /\ cmd.arg = to /\ cmd.args = args /\ cmd = [name |-> cmd.name, arg |-> cmd.arg, args |-> cmd.args]
  BY DEF TransferObjects
<1> HIDE DEF cmd
<1>2. PureSlot(B, to, Addresses)
  BY DEF PureSlot
<1>3. cmd.name \in Names /\ cmd.name \in Delivering /\ ~ Sends(cmd) /\ Given(cmd) = args /\ TypesOf(cmd) = {"Object"}
  BY <1>1 DEF Names, Delivering, Sends, Given, TypesOf
<1>4. CmdOK(B, Len(B.commands), cmd)
  BY <1>1, <1>2, <1>3, StockArgs DEF CmdOK
<1>5. CanTake(Finish(B), Run(B), {"Object"}, args) /\ TakenBy(Finish(B), args) = Spots(q, Len(args))
      /\ SumAt(Finish(B), Run(B), args) = Total(am)
  BY StockTaken
<1>6. Needs(Finish(B), Run(B), cmd)
  BY <1>1, <1>3, <1>5 DEF Needs
<1>7. Account(Finish(B), cmd) = <<a, "coin">>
  <2>1. PureOf(Finish(B), to) = a
    BY PureAt DEF Live, PureValues
  <2> QED BY <1>1, <2>1 DEF Account, Sends
<1>8. Rest(Finish(B), Run(B), cmd) = Without(Run(B).at, Spots(q, Len(args)))
  BY <1>3, <1>5 DEF Rest
<1>9. C = Command(B, cmd).b
  BY DEF cmd
<1>10. /\ Longer(B, C, cmd)
       /\ Run(C).at = Rest(Finish(B), Run(B), cmd)
       /\ Run(C).got = More(Run(B).got, Account(Finish(B), cmd), SumAt(Finish(B), Run(B), Given(cmd)))
  BY <1>3, <1>4, <1>6, <1>9, LiveDelivering
<1>11. Run(C).got = More(Run(B).got, <<a, "coin">>, Total(am))
  BY <1>3, <1>5, <1>7, <1>10
<1> QED BY <1>8, <1>10, <1>11 DEF cmd, Leaves

(* A call that pays into the pool. *)
LEMMA LiveDeposit ==
  ASSUME NEW B, Live(B), NEW args, NEW q, NEW am, Stock(B, args, {"Object", "Vector"}, q, am),
         GasCoin \notin Spots(q, Len(args)),
         NEW C, C = Command(B, MoveCallCommand("deposit", args)).b
  PROVE  Leaves(B, C, MoveCallCommand("deposit", args),
                Without(Run(B).at, Spots(q, Len(args))),
                More(Run(B).got, <<Pool, "coin">>, Total(am)))
<1> DEFINE cmd == MoveCallCommand("deposit", args)
<1>1. cmd.name = "deposit" /\ cmd.arg = NoArg /\ cmd.args = args /\ cmd = [name |-> cmd.name, arg |-> cmd.arg, args |-> cmd.args]
  BY DEF MoveCallCommand
<1> HIDE DEF cmd
<1>3. cmd.name \in Names /\ cmd.name \in Delivering /\ ~ Sends(cmd) /\ Given(cmd) = args /\ TypesOf(cmd) = {"Object", "Vector"}
  BY <1>1 DEF Names, Delivering, Sends, Given, TypesOf
<1>4. CmdOK(B, Len(B.commands), cmd)
  BY <1>1, <1>3, StockArgs DEF CmdOK
<1>5. CanTake(Finish(B), Run(B), {"Object", "Vector"}, args) /\ TakenBy(Finish(B), args) = Spots(q, Len(args))
      /\ SumAt(Finish(B), Run(B), args) = Total(am)
  BY StockTaken
<1>6. Needs(Finish(B), Run(B), cmd)
  BY <1>1, <1>3, <1>5, StockArgs DEF Needs
<1>7. Account(Finish(B), cmd) = <<Pool, "coin">>
  BY <1>1 DEF Account, Sends
<1>8. Rest(Finish(B), Run(B), cmd) = Without(Run(B).at, Spots(q, Len(args)))
  BY <1>3, <1>5 DEF Rest
<1>9. C = Command(B, cmd).b
  BY DEF cmd
<1>10. /\ Longer(B, C, cmd)
       /\ Run(C).at = Rest(Finish(B), Run(B), cmd)
       /\ Run(C).got = More(Run(B).got, Account(Finish(B), cmd), SumAt(Finish(B), Run(B), Given(cmd)))
  BY <1>3, <1>4, <1>6, <1>9, LiveDelivering
<1>11. Run(C).got = More(Run(B).got, <<Pool, "coin">>, Total(am))
  BY <1>3, <1>5, <1>7, <1>10
<1> QED BY <1>8, <1>10, <1>11 DEF cmd, Leaves

(* A command that makes one value. *)
LEMMA LiveMakes ==
  ASSUME NEW B, Live(B), NEW args, NEW name \in Making,
         NEW type, type = IF name = "MakeMoveVec" THEN "Object" ELSE "FundsWithdrawal",
         NEW q, NEW am, Stock(B, args, {type}, q, am), GasCoin \notin Spots(q, Len(args)),
         NEW cmd, cmd = [name |-> name, arg |-> NoArg, args |-> args],
         NEW C, C = Command(B, cmd).b
  PROVE  Leaves(B, C, cmd,
                Placed(Without(Run(B).at, Spots(q, Len(args))), Len(B.commands), <<Total(am)>>),
                Run(B).got)
<1>1. cmd.name = name /\ cmd.arg = NoArg /\ cmd.args = args /\ cmd = [name |-> cmd.name, arg |-> cmd.arg, args |-> cmd.args]
  OBVIOUS
<1>3. cmd.name \in Names /\ cmd.name \in Making /\ cmd.name \notin Delivering /\ ~ Sends(cmd) /\ Given(cmd) = args
      /\ TypesOf(cmd) = {type} /\ cmd.name \notin {"TransferObjects", "SplitCoins", "MergeCoins"}
  BY <1>1 DEF Names, Delivering, Making, Sends, Given, TypesOf
<1>4. CmdOK(B, Len(B.commands), cmd)
  BY <1>1, <1>3, StockArgs DEF CmdOK
<1>5. CanTake(Finish(B), Run(B), {type}, args) /\ TakenBy(Finish(B), args) = Spots(q, Len(args))
      /\ SumAt(Finish(B), Run(B), args) = Total(am)
  BY StockTaken
<1>6. Needs(Finish(B), Run(B), cmd)
  BY <1>1, <1>3, <1>5, StockArgs DEF Needs
<1>8. Rest(Finish(B), Run(B), cmd) = Without(Run(B).at, Spots(q, Len(args)))
  BY <1>3, <1>5 DEF Rest
<1>10. /\ Longer(B, C, cmd)
       /\ Run(C).at = Placed(Rest(Finish(B), Run(B), cmd), Len(B.commands), <<SumAt(Finish(B), Run(B), Given(cmd))>>)
       /\ Run(C).got = Run(B).got
  <2>1. Longer(B, C, cmd) /\ Effect(B, C, cmd)
    BY <1>4, <1>6, LiveCommand
  <2> QED BY <1>3, <2>1 DEF Effect
<1> QED BY <1>3, <1>5, <1>8, <1>10 DEF Leaves

(* A transfer to an address balance. *)
LEMMA LiveSend ==
  ASSUME NEW B, Live(B), NEW name \in {"coin::send_funds", "balance::send_funds"},
         NEW type, type = IF name = "coin::send_funds" THEN "Object" ELSE "Balance",
         NEW arg, NEW p, NEW x \in Nat, Holds(B, arg, p, type, x), p # GasCoin,
         NEW a \in Addresses, PureKey(a) \in DOMAIN B.inputs, NEW to, to = Slot(B, PureKey(a)),
         NEW C, C = Command(B, MoveCallCommand(name, <<arg, to>>)).b
  PROVE  Leaves(B, C, MoveCallCommand(name, <<arg, to>>),
                Without(Run(B).at, {p}),
                More(Run(B).got, <<a, "balance">>, x))
<1> DEFINE cmd == MoveCallCommand(name, <<arg, to>>)
<1>1. cmd.name = name /\ cmd.arg = NoArg /\ cmd.args = <<arg, to>> /\ cmd = [name |-> cmd.name, arg |-> cmd.arg, args |-> cmd.args]
  BY DEF MoveCallCommand
<1>0. C = Command(B, cmd).b
  OBVIOUS
<1> HIDE DEF cmd
<1>2. PureSlot(B, to, Addresses)
  BY DEF PureSlot
<1>3. /\ cmd.name \in Names /\ cmd.name \in Delivering /\ Sends(cmd) /\ TypesOf(cmd) = {type}
      /\ cmd.name \notin {"TransferObjects", "SplitCoins", "MergeCoins"}
  BY <1>1 DEF Names, Delivering, Sends, TypesOf
<1>4. Given(cmd) = <<arg>>
  BY <1>1, <1>3 DEF Given
<1>5. arg \in Args(B, Len(B.commands)) /\ to \in Args(B, Len(B.commands))
  BY DEF Holds, Args
<1>6. /\ cmd.args \in Seq(Args(B, Len(B.commands))) /\ Len(cmd.args) = 2 /\ cmd.args[1] = arg /\ cmd.args[2] = to
      /\ DOMAIN cmd.args = {1, 2}
  BY <1>1, <1>5
<1>7. CmdOK(B, Len(B.commands), cmd)
  BY <1>1, <1>2, <1>3, <1>6 DEF CmdOK
<1>8. Stock(B, <<arg>>, {type}, <<p>>, <<x>>) /\ Spots(<<p>>, 1) = {p} /\ Total(<<x>>) = x /\ Len(<<arg>>) = 1
  BY StockOne
<1>9. CanTake(Finish(B), Run(B), {type}, <<arg>>) /\ TakenBy(Finish(B), <<arg>>) = {p}
      /\ SumAt(Finish(B), Run(B), <<arg>>) = x
  BY <1>8, StockTaken
<1>10. arg # GasCoin /\ to # GasCoin
  <2>1. Place(Finish(B), GasCoin) = GasCoin
    BY DEF Place, GasCoin
  <2> QED BY <2>1, SlotTag DEF Holds
<1>11. Needs(Finish(B), Run(B), cmd)
  BY <1>3, <1>4, <1>6, <1>9, <1>10 DEF Needs
<1>12. Account(Finish(B), cmd) = <<a, "balance">>
  <2>1. PureOf(Finish(B), to) = a
    BY PureAt DEF Live, PureValues
  <2>2. cmd.name # "TransferObjects" /\ cmd.name # "deposit"
    BY <1>1
  <2> QED BY <1>3, <1>6, <2>1, <2>2 DEF Account, Sends
<1>13. Rest(Finish(B), Run(B), cmd) = Without(Run(B).at, {p})
  BY <1>4, <1>9 DEF Rest
<1>14. /\ Longer(B, C, cmd)
       /\ Run(C).at = Rest(Finish(B), Run(B), cmd)
       /\ Run(C).got = More(Run(B).got, Account(Finish(B), cmd), SumAt(Finish(B), Run(B), Given(cmd)))
  BY <1>0, <1>3, <1>7, <1>11, LiveDelivering
<1>15. Run(C).got = More(Run(B).got, <<a, "balance">>, x)
  BY <1>4, <1>9, <1>12, <1>14
<1> QED BY <1>13, <1>14, <1>15 DEF cmd, Leaves

(* amts are the Arguments of the amounts s. *)
AmountArgs(B, amts, s) ==
  /\ s \in Seq(Nat) /\ IsSeq(amts) /\ Len(amts) = Len(s) /\ DOMAIN amts = 1..Len(s)
  /\ \A i \in 1..Len(s) : PureKey(s[i]) \in DOMAIN B.inputs /\ amts[i] = Slot(B, PureKey(s[i]))

(* SplitCoins of a coin that is worth the amounts places them. *)
LEMMA LiveSplit ==
  ASSUME NEW B, Live(B), NEW coin, NEW p, NEW t, NEW x \in Nat, Holds(B, coin, p, t, x),
         NEW amts, NEW s, AmountArgs(B, amts, s), Total(s) <= x,
         NEW C, C = Command(B, SplitCoins(coin, amts)).b
  PROVE  Leaves(B, C, SplitCoins(coin, amts),
                Placed(Less(Run(B).at, p, Total(s)), Len(B.commands), s),
                Run(B).got)
<1> DEFINE cmd == SplitCoins(coin, amts)
<1>1. cmd.name = "SplitCoins" /\ cmd.arg = coin /\ cmd.args = amts /\ cmd = [name |-> cmd.name, arg |-> cmd.arg, args |-> cmd.args]
  BY DEF SplitCoins
<1>0. C = Command(B, cmd).b
  OBVIOUS
<1> HIDE DEF cmd
<1>2. \A i \in DOMAIN amts : PureSlot(B, amts[i], Nat) /\ amts[i] \in Args(B, Len(B.commands)) /\ amts[i] # GasCoin
      /\ PureOf(Finish(B), amts[i]) = s[i]
  <2> TAKE i \in DOMAIN amts
  <2>1. s[i] \in Nat /\ PureKey(s[i]) \in DOMAIN B.inputs /\ amts[i] = Slot(B, PureKey(s[i]))
    BY DEF AmountArgs
  <2>2. PureSlot(B, amts[i], Nat)
    BY <2>1 DEF PureSlot
  <2>3. amts[i] \in Args(B, Len(B.commands))
    BY <2>1 DEF Args
  <2>4. PureOf(Finish(B), amts[i]) = s[i]
    BY <2>1, PureAt DEF Live, PureValues
  <2>5. amts[i] # GasCoin
    BY <2>1, SlotTag
  <2> QED BY <2>2, <2>3, <2>4, <2>5
<1>3. amts \in Seq(Args(B, Len(B.commands)))
  <2>1. amts \in [1..Len(s) -> Args(B, Len(B.commands))] /\ Len(s) \in Nat
    BY <1>2 DEF AmountArgs, IsSeq
  <2> QED BY <2>1
<1>4. coin \in Args(B, Len(B.commands)) /\ Place(Finish(B), coin) = p /\ p \in DOMAIN Run(B).at /\ Run(B).at[p] = x
  BY DEF Holds
<1>5. cmd.name \in Names /\ cmd.name \notin Delivering /\ ~ Sends(cmd)
  BY <1>1 DEF Names, Delivering, Sends
<1>6. CmdOK(B, Len(B.commands), cmd)
  BY <1>1, <1>2, <1>3, <1>4, <1>5 DEF CmdOK
<1>7. Pieces(Finish(B), cmd) = s
  <2>1. Pieces(Finish(B), cmd) = [i \in 1..Len(s) |-> s[i]]
    BY <1>1, <1>2, Zenon DEF Pieces, AmountArgs
  <2>2. s = [i \in 1..Len(s) |-> s[i]]
    BY DEF AmountArgs
  <2> QED BY <2>1, <2>2
<1>8. Needs(Finish(B), Run(B), cmd)
  BY <1>1, <1>2, <1>4, <1>7 DEF Needs
<1>9. /\ Longer(B, C, cmd)
      /\ Run(C).at = Placed(Less(Run(B).at, Place(Finish(B), cmd.arg), Total(Pieces(Finish(B), cmd))), Len(B.commands), Pieces(Finish(B), cmd))
      /\ Run(C).got = Run(B).got
  BY <1>0, <1>1, <1>6, <1>8, LiveSplitting
<1> QED BY <1>1, <1>4, <1>7, <1>9 DEF cmd, Leaves

(* MergeCoins of a stock adds its worth to the coin. *)
LEMMA LiveMerge ==
  ASSUME NEW B, Live(B), NEW into, NEW p, NEW t, NEW x, Holds(B, into, p, t, x),
         NEW args, NEW q, NEW am, Stock(B, args, {"Object"}, q, am),
         GasCoin \notin Spots(q, Len(args)), p \notin Spots(q, Len(args)),
         NEW C, C = Command(B, MergeCoins(into, args)).b
  PROVE  Leaves(B, C, MergeCoins(into, args),
                More(Without(Run(B).at, Spots(q, Len(args))), p, Total(am)),
                Run(B).got)
<1> DEFINE cmd == MergeCoins(into, args)
<1>1. cmd.name = "MergeCoins" /\ cmd.arg = into /\ cmd.args = args /\ cmd = [name |-> cmd.name, arg |-> cmd.arg, args |-> cmd.args]
  BY DEF MergeCoins
<1>0. C = Command(B, cmd).b
  OBVIOUS
<1> HIDE DEF cmd
<1>3. cmd.name \in Names /\ cmd.name \notin Delivering /\ ~ Sends(cmd) /\ Given(cmd) = args /\ TypesOf(cmd) = {"Object"}
  BY <1>1 DEF Names, Delivering, Sends, Given, TypesOf
<1>4. into \in Args(B, Len(B.commands)) /\ Place(Finish(B), into) = p /\ p \in DOMAIN Run(B).at
  BY DEF Holds
<1>5. CmdOK(B, Len(B.commands), cmd)
  BY <1>1, <1>3, <1>4, StockArgs DEF CmdOK
<1>6. CanTake(Finish(B), Run(B), {"Object"}, args) /\ TakenBy(Finish(B), args) = Spots(q, Len(args))
      /\ SumAt(Finish(B), Run(B), args) = Total(am)
  BY StockTaken
<1>7. Needs(Finish(B), Run(B), cmd)
  BY <1>1, <1>3, <1>4, <1>6, StockArgs DEF Needs
<1>8. Rest(Finish(B), Run(B), cmd) = Without(Run(B).at, Spots(q, Len(args)))
  BY <1>3, <1>6 DEF Rest
<1>9. /\ Longer(B, C, cmd)
      /\ Run(C).at = More(Rest(Finish(B), Run(B), cmd), Place(Finish(B), cmd.arg), SumAt(Finish(B), Run(B), Given(cmd)))
      /\ Run(C).got = Run(B).got
  BY <1>0, <1>1, <1>5, <1>7, LiveMerging
<1> QED BY <1>1, <1>3, <1>4, <1>6, <1>8, <1>9 DEF cmd, Leaves

(* What the keys hold. *)
LEMMA ObjectHeld ==
  ASSUME NEW C, Sound(C), NEW id, ObjectKey(id) \in DOMAIN C.inputs
  PROVE  /\ id \in DOMAIN CoinBalance /\ ObjectKey(id) \in Held(C)
         /\ C.inputs[ObjectKey(id)].kind = "Object" /\ Amount(C.inputs[ObjectKey(id)]) = CoinBalance[id]
<1>1. KeyHolds(ObjectKey(id), C.inputs[ObjectKey(id)], Len(C.order))
  BY DEF Sound
<1>2. id \in DOMAIN CoinBalance /\ C.inputs[ObjectKey(id)] = ObjectCallArg(OwnedObject(id))
  BY <1>1 DEF KeyHolds, ObjectKey, PureKey, ForcedKey
<1> QED BY <1>2 DEF Held, Amount, ObjectCallArg, OwnedObject

(* A pure input holds no coin. *)
LEMMA PureNotHeld ==
  ASSUME NEW C, Sound(C), NEW x
  PROVE  PureKey(x) \notin Held(C)
<1> SUFFICES ASSUME PureKey(x) \in DOMAIN C.inputs, C.inputs[PureKey(x)].kind # "Pure" PROVE FALSE
  BY DEF Held
<1>1. KeyHolds(PureKey(x), C.inputs[PureKey(x)], Len(C.order))
  BY DEF Sound
<1>2. \E y \in PureValues : C.inputs[PureKey(x)] = PureArg(y)
  BY <1>1 DEF KeyHolds, ObjectKey, PureKey, ForcedKey
<1> QED BY <1>2 DEF PureArg

(* C is B with more inputs. *)
Joined(B, C) == Live(C) /\ Grows(B, C) /\ C.commands = B.commands

(* Their values are at P. *)
Gains(B, C, P) ==
  /\ Joined(B, C) /\ Run(C).got = Run(B).got
  /\ DOMAIN Run(C).at = DOMAIN Run(B).at \cup P
  /\ DOMAIN Run(B).at \cap P = {} /\ P \subseteq Slots(C)
  /\ \A p \in DOMAIN Run(B).at : Run(C).at[p] = Run(B).at[p]

(* Inputs that are registered between two commands only add their places. *)
LEMMA InputGains ==
  ASSUME NEW B, NEW C, Live(B), Sound(C), Grows(B, C), C.commands = B.commands
  PROVE  Gains(B, C, NewSlots(B, C))
<1>1. /\ Live(C) /\ Run(C).got = Run(B).got
      /\ Widens(Run(B).at, Run(C).at, NewSlots(B, C), Load(Finish(C)).at)
  BY LiveInput
<1>2. NewSlots(B, C) \subseteq Slots(C)
  BY DEF NewSlots, Slots
<1> QED BY <1>1, <1>2 DEF Gains, Joined, Widens

(* Nothing gained: the same machine. *)
LEMMA GainsNothing ==
  ASSUME NEW B, NEW C, Live(B), Gains(B, C, {})
  PROVE  Run(C) = Run(B)
<1>1. IsMachine(Run(B)) /\ IsMachine(Run(C)) /\ Run(B).err = "none" /\ Run(C).err = "none"
  BY LiveShape DEF Gains, Joined
<1>2. Extends(Run(B), Run(C), {}, Run(B).at)
  BY <1>1 DEF Extends, Widens, Gains
<1> QED BY <1>1, <1>2, SameMachine

(* Pure adds no place and answers the Argument of the value. *)
LEMMA LivePure ==
  ASSUME NEW B, Live(B), NEW x \in PureValues, NEW r, r = Pure(B, x)
  PROVE  /\ r.err = "none" /\ Joined(B, r.b) /\ Run(r.b) = Run(B)
         /\ DOMAIN r.b.inputs = DOMAIN B.inputs \cup {PureKey(x)}
         /\ Fits(r.b) => r.arg = Slot(r.b, PureKey(x))
<1> DEFINE C == r.b
<1>1. Adds(r, B, PureKey(x)) /\ Sound(B)
  BY PureAdds DEF Live
<1> HIDE DEF C
<1>2. r.err = "none" /\ Sound(C) /\ Grows(B, C) /\ DOMAIN C.inputs = DOMAIN B.inputs \cup {PureKey(x)} /\ C.commands = B.commands
      /\ (Fits(C) => r.arg = Slot(C, PureKey(x)))
  BY <1>1 DEF Adds, C
<1>3. NewSlots(B, C) = {}
  <2>1. ASSUME NEW k \in Held(C) \ DOMAIN B.inputs PROVE FALSE
    <3>1. k = PureKey(x)
      BY <1>2 DEF Held
    <3> QED BY <1>2, <3>1, PureNotHeld
  <2> QED BY <2>1 DEF NewSlots
<1>4. Gains(B, C, {})
  BY <1>2, <1>3, InputGains
<1>5. Run(C) = Run(B)
  BY <1>4, GainsNothing
<1> QED BY <1>2, <1>4, <1>5 DEF C, Gains

(* The loop over amounts does, and answers an Argument for each. *)
LEMMA LivePures ==
  ASSUME NEW B, Live(B), NEW s \in Seq(Nat), NEW r, r = Each(B, s, Pure)
  PROVE  /\ r.err = "none" /\ Joined(B, r.b) /\ Run(r.b) = Run(B)
         /\ DOMAIN r.b.inputs = DOMAIN B.inputs \cup {PureKeys(s)[i] : i \in 1..Len(s)}
         /\ Fits(r.b) => AmountArgs(r.b, r.arg, s)
<1> DEFINE C == r.b
           n == Len(s)
<1>0. s \in Seq(PureValues)
  BY DEF PureValues
<1>1. AddsAll(r, B, PureKeys(s), n) /\ Sound(B)
  BY <1>0, PuresAdd DEF Live
<1> HIDE DEF C
<1>2. r.err = "none" /\ Sound(C) /\ Grows(B, C)
      /\ DOMAIN C.inputs = DOMAIN B.inputs \cup {PureKeys(s)[i] : i \in 1..n} /\ C.commands = B.commands
      /\ (Fits(C) => r.arg = [i \in 1..n |-> Slot(C, PureKeys(s)[i])])
  BY <1>1 DEF AddsAll, C
<1>3. NewSlots(B, C) = {}
  <2>1. ASSUME NEW k \in Held(C) \ DOMAIN B.inputs PROVE FALSE
    <3>1. PICK i \in 1..n : k = PureKeys(s)[i]
      BY <1>2 DEF Held
    <3>2. k = PureKey(s[i])
      BY <3>1 DEF PureKeys
    <3> QED BY <1>2, <3>2, PureNotHeld
  <2> QED BY <2>1 DEF NewSlots
<1>4. Gains(B, C, {})
  <2>1. Sound(C) /\ Grows(B, C) /\ C.commands = B.commands
    BY <1>2
  <2> QED BY <1>3, <2>1, InputGains
<1>5. Run(C) = Run(B)
  BY <1>4, GainsNothing
<1>6. ASSUME Fits(C) PROVE AmountArgs(C, r.arg, s)
  <2>1. \A i \in 1..n : PureKeys(s)[i] = PureKey(s[i]) /\ PureKey(s[i]) \in DOMAIN C.inputs
    BY <1>2 DEF PureKeys
  <2>2. r.arg = [i \in 1..n |-> Slot(C, PureKeys(s)[i])] /\ n \in Nat
    BY <1>2, <1>6
  <2>3. DOMAIN r.arg = 1..n /\ \A i \in 1..n : r.arg[i] = Slot(C, PureKey(s[i]))
    BY <2>1, <2>2
  <2>4. r.arg \in Seq({r.arg[i] : i \in 1..n})
    BY <2>2
  <2>5. Len(r.arg) = n /\ IsSeq(r.arg)
    BY <2>2, <2>3, <2>4 DEF IsSeq
  <2> QED BY <2>1, <2>3, <2>5 DEF AmountArgs
<1> QED BY <1>2, <1>4, <1>5, <1>6 DEF C, Gains

(* What coins are worth. *)
Values(ids) == [i \in DOMAIN ids |-> CoinBalance[ids[i]]]

(* Where they are. *)
Coins(C, ids) == [i \in 1..Len(ids) |-> Slot(C, ObjectKey(ids[i]))]

(* What coins are worth is the sum of their balances. *)
LEMMA ValuesNat ==
  ASSUME NEW ids \in Seq(DOMAIN CoinBalance)
  PROVE  Values(ids) \in Seq(Nat) /\ Len(Values(ids)) = Len(ids) /\ Worth(ids) = Total(Values(ids)) /\ Worth(ids) \in Nat
<1>1. Values(ids) \in [1..Len(ids) -> Nat]
  BY TransferAssumptions DEF Values
<1>2. Values(ids) \in Seq(Nat) /\ Len(Values(ids)) = Len(ids)
  BY <1>1
<1>3. Worth(ids) = Total(Values(ids))
  BY DEF Worth, Values
<1> QED BY <1>2, <1>3, TotalNat

(* Coins are registered in a loop. *)
LEMMA LiveObjs ==
  ASSUME NEW B, Live(B), NEW ids, Unused(B, ids), NEW r, AddsAll(r, B, ObjectKeys(ids), Len(ids))
  PROVE  /\ r.err = "none" /\ Gains(B, r.b, Spots(Coins(r.b, ids), Len(ids)))
         /\ DOMAIN r.b.inputs = DOMAIN B.inputs \cup {ObjectKeys(ids)[i] : i \in 1..Len(ids)}
         /\ Fits(r.b) => Stock(r.b, r.arg, {"Object"}, Coins(r.b, ids), Values(ids)) /\ Len(r.arg) = Len(ids)
<1> DEFINE C == r.b
           n == Len(ids)
           q == Coins(C, ids)
<1> HIDE DEF C
<1>1. Sound(B)
  BY DEF Live
<1>2. r.err = "none" /\ Sound(C) /\ Grows(B, C)
      /\ DOMAIN C.inputs = DOMAIN B.inputs \cup {ObjectKeys(ids)[i] : i \in 1..n} /\ C.commands = B.commands
      /\ (Fits(C) => r.arg = [i \in 1..n |-> Slot(C, ObjectKeys(ids)[i])])
  BY DEF AddsAll, C
<1>3. ids \in Seq(DOMAIN CoinBalance) /\ n \in Nat
      /\ (\A i, j \in 1..n : ids[i] = ids[j] => i = j)
      /\ (\A i \in 1..n : ObjectKey(ids[i]) \notin DOMAIN B.inputs)
  BY DEF Unused
<1>4. \A i \in 1..n : ObjectKeys(ids)[i] = ObjectKey(ids[i]) /\ ObjectKey(ids[i]) \in DOMAIN C.inputs
  BY <1>2 DEF ObjectKeys
<1>5. \A i \in 1..n : /\ ObjectKey(ids[i]) \in Held(C) \ DOMAIN B.inputs
                      /\ C.inputs[ObjectKey(ids[i])].kind = "Object" /\ Amount(C.inputs[ObjectKey(ids[i])]) = CoinBalance[ids[i]]
  BY <1>2, <1>3, <1>4, ObjectHeld
<1>6. \A i \in 1..n : q[i] = Slot(C, ObjectKey(ids[i]))
  BY DEF Coins
<1> HIDE DEF q
<1>7. NewSlots(B, C) = Spots(q, n)
  <2>1. ASSUME NEW k \in Held(C) \ DOMAIN B.inputs PROVE Slot(C, k) \in Spots(q, n)
    <3>1. PICK i \in 1..n : k = ObjectKey(ids[i])
      BY <1>2, <1>4 DEF Held
    <3> QED BY <1>6, <3>1 DEF Spots
  <2>2. ASSUME NEW i \in 1..n PROVE q[i] \in NewSlots(B, C)
    BY <1>5, <1>6 DEF NewSlots
  <2> QED BY <2>1, <2>2 DEF NewSlots, Spots
<1>8. Gains(B, C, Spots(q, n))
  BY <1>2, <1>7, InputGains
<1>9. \A i \in 1..n : q[i] \in DOMAIN Run(C).at /\ Run(C).at[q[i]] = CoinBalance[ids[i]]
  <2> TAKE i \in 1..n
  <2>1. Run(C).at[Slot(C, ObjectKey(ids[i]))] = Amount(C.inputs[ObjectKey(ids[i])])
    BY <1>2, <1>5, LiveInput
  <2>2. q[i] \in Spots(q, n)
    BY DEF Spots
  <2> QED BY <1>5, <1>6, <1>8, <2>1, <2>2 DEF Gains
<1>10. \A i \in 1..n : Holds(C, q[i], q[i], "Object", CoinBalance[ids[i]])
  <2> TAKE i \in 1..n
  <2>1. Live(C)
    BY <1>8 DEF Gains, Joined
  <2>2. Holds(C, Slot(C, ObjectKey(ids[i])), Slot(C, ObjectKey(ids[i])), C.inputs[ObjectKey(ids[i])].kind, Run(C).at[Slot(C, ObjectKey(ids[i]))])
    BY <1>5, <1>6, <1>9, <2>1, HoldsSlot
  <2> QED BY <1>5, <1>6, <1>9, <2>2
<1>11. ASSUME Fits(C) PROVE Stock(C, r.arg, {"Object"}, q, Values(ids)) /\ Len(r.arg) = n
  <2>1. r.arg = [i \in 1..n |-> Slot(C, ObjectKeys(ids)[i])]
    BY <1>2, <1>11
  <2>2. DOMAIN r.arg = 1..n /\ \A i \in 1..n : r.arg[i] = q[i]
    BY <1>4, <1>6, <2>1
  <2>3. r.arg \in Seq({r.arg[i] : i \in 1..n})
    BY <1>3, <2>1
  <2>4. Len(r.arg) = n /\ IsSeq(r.arg)
    BY <1>3, <2>2, <2>3 DEF IsSeq
  <2>5. Values(ids) \in Seq(Nat) /\ Len(Values(ids)) = n /\ \A i \in 1..n : Values(ids)[i] = CoinBalance[ids[i]]
    BY <1>3, ValuesNat DEF Values
  <2>6. \A i, j \in 1..n : q[i] = q[j] => i = j
    <3> TAKE i, j \in 1..n
    <3> HAVE q[i] = q[j]
    <3>1. Slot(C, ObjectKey(ids[i])) = Slot(C, ObjectKey(ids[j]))
      BY <1>6
    <3>2. ObjectKey(ids[i]) = ObjectKey(ids[j])
      BY <1>2, <1>4, <3>1, SlotsDiffer
    <3>3. ids[i] = ids[j]
      BY <3>2 DEF ObjectKey
    <3> QED BY <1>3, <3>3
  <2>7. \A i \in 1..n : Holds(C, r.arg[i], q[i], "Object", Values(ids)[i])
    BY <1>10, <2>2, <2>5
  <2> QED BY <1>3, <2>2, <2>4, <2>5, <2>6, <2>7 DEF Stock
<1> QED BY <1>2, <1>8, <1>11 DEF C, q

(* One coin. *)
LEMMA LiveObj ==
  ASSUME NEW B, Live(B), NEW id \in DOMAIN CoinBalance, ObjectKey(id) \notin DOMAIN B.inputs,
         NEW r, r = Obj(B, OwnedObject(id))
  PROVE  /\ r.err = "none" /\ Gains(B, r.b, {Slot(r.b, ObjectKey(id))})
         /\ DOMAIN r.b.inputs = DOMAIN B.inputs \cup {ObjectKey(id)}
         /\ Fits(r.b) => Holds(r.b, r.arg, Slot(r.b, ObjectKey(id)), "Object", CoinBalance[id])
<1> DEFINE C == r.b
           key == ObjectKey(id)
<1>1. Adds(r, B, key) /\ Sound(B)
  BY ObjAdds DEF Live
<1> HIDE DEF C
<1>2. r.err = "none" /\ Sound(C) /\ Grows(B, C) /\ DOMAIN C.inputs = DOMAIN B.inputs \cup {key} /\ C.commands = B.commands
      /\ (Fits(C) => r.arg = Slot(C, key))
  BY <1>1 DEF Adds, C
<1>3. key \in Held(C) \ DOMAIN B.inputs /\ C.inputs[key].kind = "Object" /\ Amount(C.inputs[key]) = CoinBalance[id]
  BY <1>2, ObjectHeld
<1> HIDE DEF key
<1>4. NewSlots(B, C) = {Slot(C, key)}
  <2>1. \A k \in Held(C) \ DOMAIN B.inputs : k = key
    BY <1>2 DEF Held
  <2> QED BY <1>3, <2>1 DEF NewSlots
<1>5. Gains(B, C, {Slot(C, key)})
  BY <1>2, <1>4, InputGains
<1>6. Slot(C, key) \in DOMAIN Run(C).at /\ Run(C).at[Slot(C, key)] = CoinBalance[id] /\ Live(C)
  <2>1. Run(C).at[Slot(C, key)] = Amount(C.inputs[key])
    BY <1>2, <1>3, LiveInput
  <2> QED BY <1>3, <1>5, <2>1 DEF Gains, Joined
<1>7. Holds(C, Slot(C, key), Slot(C, key), "Object", CoinBalance[id])
  BY <1>3, <1>6, HoldsSlot
<1> QED BY <1>2, <1>5, <1>7 DEF C, key

(* A withdrawal. *)
LEMMA LiveWithdrawal ==
  ASSUME NEW B, Live(B), NEW w \in Nat, NEW r, r = CreateFundsWithdrawalArgument(B, w)
  PROVE  \E p : /\ r.err = "none" /\ Gains(B, r.b, {p})
                /\ DOMAIN r.b.inputs = DOMAIN B.inputs \cup {ForcedKey(Len(B.order))}
                /\ Fits(r.b) => Holds(r.b, r.arg, p, "FundsWithdrawal", w)
<1> DEFINE C == r.b
           key == ForcedKey(Len(B.order))
<1>0. Sound(B)
  BY DEF Live
<1>1. key \notin DOMAIN B.inputs /\ Adds(r, B, key) /\ r.b.inputs[key] = WithdrawalArg(w)
  BY <1>0, WithdrawalAdds
<1> HIDE DEF C, key
<1>2. r.err = "none" /\ Sound(C) /\ Grows(B, C) /\ DOMAIN C.inputs = DOMAIN B.inputs \cup {key} /\ C.commands = B.commands
      /\ (Fits(C) => r.arg = Slot(C, key)) /\ C.inputs[key] = WithdrawalArg(w) /\ key \notin DOMAIN B.inputs
  BY <1>1 DEF Adds, C
<1>3. key \in Held(C) \ DOMAIN B.inputs /\ C.inputs[key].kind = "FundsWithdrawal" /\ Amount(C.inputs[key]) = w
  BY <1>2 DEF WithdrawalArg, Held, Amount
<1>4. NewSlots(B, C) = {Slot(C, key)}
  <2>1. \A k \in Held(C) \ DOMAIN B.inputs : k = key
    BY <1>2 DEF Held
  <2> QED BY <1>3, <2>1 DEF NewSlots
<1>5. Gains(B, C, {Slot(C, key)})
  BY <1>2, <1>4, InputGains
<1>6. Slot(C, key) \in DOMAIN Run(C).at /\ Run(C).at[Slot(C, key)] = w /\ Live(C)
  <2>1. Run(C).at[Slot(C, key)] = Amount(C.inputs[key])
    BY <1>2, <1>3, LiveInput
  <2> QED BY <1>3, <1>5, <2>1 DEF Gains, Joined
<1>7. Holds(C, Slot(C, key), Slot(C, key), "FundsWithdrawal", w)
  BY <1>3, <1>6, HoldsSlot
<1> QED BY <1>2, <1>5, <1>7 DEF C, key

(* A result of a command that is not there yet is nowhere. *)
LEMMA ResultNew ==
  ASSUME NEW B, Live(B), NEW l
  PROVE  NestedResultArg(Len(B.commands), l) \notin DOMAIN Run(B).at
<1> DEFINE n == Len(B.commands)
<1> SUFFICES ASSUME NestedResultArg(n, l) \in DOMAIN Run(B).at PROVE FALSE
  OBVIOUS
<1>1. NestedResultArg(n, l) \in Places(B, n) /\ n \in Nat
  BY LiveShape
<1> HIDE DEF n
<1>2. NestedResultArg(n, l) # GasCoin
  BY DEF NestedResultArg, GasCoin
<1>3. NestedResultArg(n, l) \notin Slots(B)
  BY SlotTag DEF Slots
<1>4. PICK j \in 0..(n - 1), i \in Nat : NestedResultArg(n, l) = NestedResultArg(j, i)
  BY <1>1, <1>2, <1>3 DEF Places
<1>5. n = j
  BY <1>4 DEF NestedResultArg
<1> QED BY <1>1, <1>4, <1>5

(* C is B and more, and values at P besides. *)
Wider(B, C, P) ==
  /\ Live(C) /\ Grows(B, C) /\ Run(C).got = Run(B).got
  /\ DOMAIN Run(C).at = DOMAIN Run(B).at \cup P
  /\ DOMAIN Run(B).at \cap P = {}
  /\ \A p \in DOMAIN Run(B).at : Run(C).at[p] = Run(B).at[p]

(* New inputs widen the machine. *)
LEMMA GainsWider ==
  ASSUME NEW B, NEW C, NEW P, Gains(B, C, P)
  PROVE  Wider(B, C, P)
BY DEF Gains, Wider, Joined

(* A machine that is the same is wider by nothing. *)
LEMMA SameWider ==
  ASSUME NEW B, NEW C, Live(C), Grows(B, C), Run(C) = Run(B)
  PROVE  Wider(B, C, {})
BY DEF Wider

(* Widening twice is widening. *)
LEMMA WiderOn ==
  ASSUME NEW B, NEW C, NEW D, Live(B), NEW P, NEW Q, Wider(B, C, P), Wider(C, D, Q)
  PROVE  Wider(B, D, P \cup Q)
<1>1. Sound(B) /\ Sound(C) /\ Sound(D)
  BY DEF Wider, Live
<1>2. Grows(B, D)
  BY <1>1, GrowsOn DEF Wider
<1> QED BY <1>2 DEF Wider

(* When these values are gone the machine holds what it held. *)
LEMMA WiderLost ==
  ASSUME NEW B, Live(B), NEW C, NEW P, Wider(B, C, P)
  PROVE  Without(Run(C).at, P) = Run(B).at
<1>1. Run(B).at = [p \in DOMAIN Run(B).at |-> Run(B).at[p]]
  BY LiveShape
<1>2. DOMAIN Run(C).at \ P = DOMAIN Run(B).at
  BY DEF Wider
<1>3. \A p \in DOMAIN Run(B).at : Run(C).at[p] = Run(B).at[p]
  BY DEF Wider
<1>4. Without(Run(C).at, P) = [p \in DOMAIN Run(B).at |-> Run(C).at[p]]
  BY <1>2 DEF Without
<1>5. [p \in DOMAIN Run(B).at |-> Run(C).at[p]] = [p \in DOMAIN Run(B).at |-> Run(B).at[p]]
  BY <1>3
<1> QED BY <1>1, <1>4, <1>5

(* An Argument holds what it held when the machine widens. *)
LEMMA WiderHolds ==
  ASSUME NEW B, NEW C, Live(B), NEW P, Wider(B, C, P), NEW arg, NEW p, NEW t, NEW x, Holds(B, arg, p, t, x)
  PROVE  Holds(C, arg, p, t, x)
<1>1. p \in DOMAIN Run(C).at /\ Run(C).at[p] = x
  BY DEF Wider, Holds
<1>2. Live(C) /\ Grows(B, C)
  BY DEF Wider
<1> QED BY <1>1, <1>2, HoldsGrows

(* So does a stock. *)
LEMMA WiderStock ==
  ASSUME NEW B, NEW C, Live(B), NEW P, Wider(B, C, P), NEW args, NEW types, NEW q, NEW am, Stock(B, args, types, q, am)
  PROVE  Stock(C, args, types, q, am)
<1>1. \A i \in 1..Len(args) : q[i] \in DOMAIN Run(B).at
  BY DEF Stock, Holds
<1>2. \A i \in 1..Len(args) : q[i] \in DOMAIN Run(C).at /\ Run(C).at[q[i]] = Run(B).at[q[i]]
  BY <1>1 DEF Wider
<1>3. Live(C) /\ Grows(B, C)
  BY DEF Wider
<1> QED BY <1>2, <1>3, StockGrows

(* C is B and more; what was at P has been paid to the account. *)
Spends(B, C, P, account, x) ==
  /\ Live(C) /\ Grows(B, C)
  /\ Run(C).at = Without(Run(B).at, P)
  /\ Run(C).got = More(Run(B).got, account, x)

(* C is B and more; x of what is at p is at new. *)
Splits(B, C, p, x, new) ==
  /\ Live(C) /\ Grows(B, C) /\ Run(C).got = Run(B).got
  /\ new # p /\ new \notin DOMAIN Run(B).at /\ new[1] = "NestedResult"
  /\ Without(Run(C).at, {new}) = Less(Run(B).at, p, x)
  /\ DOMAIN Run(C).at = DOMAIN Run(B).at \cup {new}
  /\ Run(C).at[new] = x /\ Run(C).at[p] = Run(B).at[p] - x
  /\ \A s \in DOMAIN Run(B).at \ {p} : Run(C).at[s] = Run(B).at[s]

-----------------------------------------------------------------------------
IsFun(f) == f = [x \in DOMAIN f |-> f[x]]

(* What Placed holds, place by place. *)
LEMMA PlacedPlaces ==
  ASSUME NEW at, NEW c, NEW amounts \in Seq(Nat)
  PROVE  DOMAIN Placed(at, c, amounts) = DOMAIN at \cup News(c, Len(amounts))
<1>1. DOMAIN amounts = 1..Len(amounts)
  OBVIOUS
<1> QED BY <1>1 DEF Placed, News

(* Placing results keeps the other places. *)
LEMMA PlacedOld ==
  ASSUME NEW at, NEW c, NEW amounts, NEW p \in DOMAIN at
  PROVE  Placed(at, c, amounts)[p] = at[p]
BY DEF Placed

(* What Placed adds and nothing else. *)
LEMMA PlacedLost ==
  ASSUME NEW at, IsFun(at), NEW c, NEW amounts \in Seq(Nat),
         \A l : NestedResultArg(c, l) \notin DOMAIN at
  PROVE  Without(Placed(at, c, amounts), News(c, Len(amounts))) = at
<1> DEFINE q == Placed(at, c, amounts)
           N == News(c, Len(amounts))
<1>1. DOMAIN q = DOMAIN at \cup N /\ \A p \in DOMAIN at : q[p] = at[p]
  <2>1. DOMAIN q = DOMAIN at \cup N
    BY PlacedPlaces
  <2>2. ASSUME NEW p \in DOMAIN at PROVE q[p] = at[p]
    BY PlacedOld
  <2> HIDE DEF q, N
  <2> QED BY <2>1, <2>2
<1>2. DOMAIN at \cap N = {}
  BY DEF News
<1> HIDE DEF q, N
<1>3. DOMAIN q \ N = DOMAIN at
  BY <1>1, <1>2
<1>4. Without(q, N) = [p \in DOMAIN at |-> q[p]]
  BY <1>3 DEF Without
<1>5. [p \in DOMAIN at |-> q[p]] = [p \in DOMAIN at |-> at[p]]
  BY <1>1
<1>6. at = [p \in DOMAIN at |-> at[p]]
  BY DEF IsFun
<1> QED BY <1>4, <1>5, <1>6 DEF q, N

(* The place of a single result. *)
LEMMA NewsOne ==
  ASSUME NEW c
  PROVE  News(c, 1) = {NestedResultArg(c, 0)}
<1>1. \A i : i \in 1..1 <=> i = 1
  OBVIOUS
<1>2. 1 - 1 = 0
  OBVIOUS
<1> QED BY <1>1, <1>2 DEF News

(* The amount in the place of a result. *)
LEMMA PlacedAt ==
  ASSUME NEW at, NEW c, NEW amounts \in Seq(Nat), NEW i \in 1..Len(amounts),
         NEW p, p = NestedResultArg(c, i - 1), p \notin DOMAIN at
  PROVE  Placed(at, c, amounts)[p] = amounts[i]
<1>1. DOMAIN amounts = 1..Len(amounts) /\ i \in Int
  OBVIOUS
<1>2. p[3] = i - 1
  BY DEF NestedResultArg
<1>3. p[3] + 1 = i
  BY <1>1, <1>2
<1> QED BY <1>1, <1>3 DEF Placed

(* q is at with x at new. *)
OnePlaced(q, at, new, x) ==
  /\ Without(q, {new}) = at /\ DOMAIN q = DOMAIN at \cup {new} /\ q[new] = x
  /\ \A p \in DOMAIN at : q[p] = at[p]

(* One value placed. *)
LEMMA PlacedOne ==
  ASSUME NEW at, IsFun(at), NEW c, NEW x \in Nat,
         \A l : NestedResultArg(c, l) \notin DOMAIN at,
         NEW q, q = Placed(at, c, <<x>>), NEW new, new = NestedResultArg(c, 0)
  PROVE  OnePlaced(q, at, new, x)
<1> DEFINE am == <<x>>
<1>1. am \in Seq(Nat) /\ Len(am) = 1 /\ am[1] = x
  OBVIOUS
<1>2. q = Placed(at, c, am)
  OBVIOUS
<1> HIDE DEF am
<1>3. News(c, Len(am)) = {new}
  BY <1>1, NewsOne
<1>4. Without(q, News(c, Len(am))) = at
  BY <1>1, <1>2, PlacedLost
<1>5. DOMAIN q = DOMAIN at \cup {new}
  <2>1. DOMAIN Placed(at, c, am) = DOMAIN at \cup News(c, Len(am))
    BY <1>1, PlacedPlaces
  <2> QED BY <1>2, <1>3, <2>1, Zenon
<1>6. 1 \in 1..Len(am) /\ new = NestedResultArg(c, 1 - 1) /\ new \notin DOMAIN at
  BY <1>1
<1>7. q[new] = x
  BY <1>1, <1>2, <1>6, PlacedAt
<1>8. \A p \in DOMAIN at : q[p] = at[p]
  BY <1>2, PlacedOld
<1> QED BY <1>3, <1>4, <1>5, <1>7, <1>8 DEF OnePlaced

(***************************************************************************)
(* The parts of the methods, whatever the builder's commands do: r is an   *)
(* outcome without error that registers the keys K.                        *)
(***************************************************************************)
Onto(B, r, K) ==
  /\ r.err = "none" /\ Sound(r.b) /\ Grows(B, r.b)
  /\ DOMAIN r.b.inputs = DOMAIN B.inputs \cup K

(* Two steps onto a builder are one. *)
LEMMA OntoOn ==
  ASSUME NEW B, Sound(B), NEW r, NEW s, NEW K, NEW L, Onto(B, r, K), Onto(r.b, s, L)
  PROVE  Onto(B, s, K \cup L)
<1>1. Sound(r.b) /\ Sound(s.b) /\ Grows(B, r.b) /\ Grows(r.b, s.b)
  BY DEF Onto
<1>2. Grows(B, s.b)
  BY <1>1, GrowsOn
<1> QED BY <1>2 DEF Onto

(* A builder that fits did before it grew. *)
LEMMA OntoFits ==
  ASSUME NEW B, NEW r, NEW K, Sound(B), Onto(B, r, K), Fits(r.b)
  PROVE  Fits(B)
<1>1. Sound(r.b) /\ Grows(B, r.b)
  BY DEF Onto
<1> QED BY <1>1, FitsBefore

(* A command goes onto the builder without an input. *)
LEMMA CommandOnto ==
  ASSUME NEW B, Sound(B), NEW c
  PROVE  Onto(B, Command(B, c), {})
<1> DEFINE r == Command(B, c)
<1>1. r.err = "none" /\ Sound(r.b) /\ Grows(B, r.b) /\ r.b.inputs = B.inputs
  BY CommandAdds
<1> HIDE DEF r
<1>2. Onto(B, r, {})
  BY <1>1 DEF Onto
<1> QED BY <1>2 DEF r

(* An input goes onto the builder. *)
LEMMA AddsOnto ==
  ASSUME NEW B, NEW r, NEW key, Adds(r, B, key)
  PROVE  Onto(B, r, {key})
BY DEF Adds, Onto

(* So do the inputs of a loop. *)
LEMMA AddsAllOnto ==
  ASSUME NEW B, NEW r, NEW K, NEW m, AddsAll(r, B, K, m)
  PROVE  Onto(B, r, {K[i] : i \in 1..m})
BY DEF AddsAll, Onto

(* So does a pure value. *)
LEMMA PureOnto ==
  ASSUME NEW B, Sound(B), NEW x \in PureValues
  PROVE  Onto(B, Pure(B, x), {PureKey(x)})
BY PureAdds, AddsOnto

(* So does a withdrawal, under a forced key. *)
LEMMA WithdrawalOnto ==
  ASSUME NEW B, Sound(B), NEW w \in Nat
  PROVE  Onto(B, CreateFundsWithdrawalArgument(B, w), {ForcedKey(Len(B.order))})
<1>1. Adds(CreateFundsWithdrawalArgument(B, w), B, ForcedKey(Len(B.order)))
  BY WithdrawalAdds
<1> QED BY <1>1, AddsOnto

(* So does an owned object that is not registered. *)
LEMMA ObjOnto ==
  ASSUME NEW B, Sound(B), NEW id \in DOMAIN CoinBalance, ObjectKey(id) \notin DOMAIN B.inputs
  PROVE  Onto(B, Obj(B, OwnedObject(id)), {ObjectKey(id)})
<1>1. Adds(Obj(B, OwnedObject(id)), B, ObjectKey(id))
  BY ObjAdds
<1> QED BY <1>1, AddsOnto

(* The keys of coins. *)
CoinKeys(ids) == {ObjectKey(ids[i]) : i \in 1..Len(ids)}

(* The keys of coins as a set. *)
LEMMA CoinKeysAre ==
  ASSUME NEW ids \in Seq(DOMAIN CoinBalance)
  PROVE  {ObjectKeys(ids)[i] : i \in 1..Len(ids)} = CoinKeys(ids)
BY DEF ObjectKeys, CoinKeys

(* The coins of a call go onto the builder. *)
LEMMA ObjsOnto ==
  ASSUME NEW B, Sound(B), NEW ids, Unused(B, ids)
  PROVE  Onto(B, Objs(B, ids), CoinKeys(ids))
<1>1. AddsAll(Objs(B, ids), B, ObjectKeys(ids), Len(ids))
  BY ObjsAdds
<1>2. Onto(B, Objs(B, ids), {ObjectKeys(ids)[i] : i \in 1..Len(ids)})
  BY <1>1, AddsAllOnto
<1> QED BY <1>2, CoinKeysAre DEF Unused

(* Kinds of keys. *)
LEMMA KeysDiffer ==
  ASSUME NEW id, NEW x, NEW n
  PROVE  ObjectKey(id) # PureKey(x) /\ ObjectKey(id) # ForcedKey(n)
BY DEF ObjectKey, PureKey, ForcedKey

(* The coins are unused where no coin has been registered since. *)
LEMMA UnusedStill ==
  ASSUME NEW B, NEW C, NEW K, DOMAIN C.inputs = DOMAIN B.inputs \cup K, NEW ids, Unused(B, ids),
         \A i \in 1..Len(ids) : ObjectKey(ids[i]) \notin K
  PROVE  Unused(C, ids)
BY DEF Unused

(* Coins not in use are not after a pure value is registered. *)
LEMMA UnusedOnto ==
  ASSUME NEW B, NEW r, NEW x, Onto(B, r, {PureKey(x)}), NEW ids, Unused(B, ids)
  PROVE  Unused(r.b, ids) /\ Sound(r.b)
<1>1. Sound(r.b) /\ DOMAIN r.b.inputs = DOMAIN B.inputs \cup {PureKey(x)}
  BY DEF Onto
<1>2. \A i \in 1..Len(ids) : ObjectKey(ids[i]) \notin {PureKey(x)}
  BY KeysDiffer
<1> QED BY <1>1, <1>2, UnusedStill

(* Nor after a withdrawal is. *)
LEMMA UnusedForced ==
  ASSUME NEW B, NEW r, NEW n, Onto(B, r, {ForcedKey(n)}), NEW ids, Unused(B, ids)
  PROVE  Unused(r.b, ids) /\ Sound(r.b)
<1>1. Sound(r.b) /\ DOMAIN r.b.inputs = DOMAIN B.inputs \cup {ForcedKey(n)}
  BY DEF Onto
<1>2. \A i \in 1..Len(ids) : ObjectKey(ids[i]) \notin {ForcedKey(n)}
  BY KeysDiffer
<1> QED BY <1>1, <1>2, UnusedStill

(* RedeemFunds *)
LEMMA RedeemOnto ==
  ASSUME NEW B, Sound(B), NEW w \in Nat, NEW function, NEW r, r = RedeemFunds(B, function, w)
  PROVE  Onto(B, r, {ForcedKey(Len(B.order))})
<1> DEFINE r1 == CreateFundsWithdrawalArgument(B, w)
           cmd == MoveCallCommand(function, <<r1.arg>>)
           r2 == Command(r1.b, cmd)
           key == ForcedKey(Len(B.order))
<1>1. Onto(B, r1, {key})
  BY WithdrawalOnto
<1>2. Onto(r1.b, r2, {})
  BY <1>1, CommandOnto DEF Onto
<1>3. r = r2
  BY <1>1 DEF RedeemFunds, Then, Onto
<1> HIDE DEF r1, r2
<1>4. Onto(B, r2, {key} \cup {})
  BY <1>1, <1>2, OntoOn
<1>5. {key} \cup {} = {key}
  OBVIOUS
<1>6. Onto(B, r, {key})
  BY <1>3, <1>4, <1>5
<1> QED BY <1>6

(* SendFunds *)
LEMMA SendOnto ==
  ASSUME NEW B, Sound(B), NEW function, NEW value, NEW a \in Addresses, NEW r, r = SendFunds(B, function, value, a)
  PROVE  Onto(B, r, {PureKey(a)})
<1> DEFINE r1 == Pure(B, a)
           cmd == MoveCallCommand(function, <<value, r1.arg>>)
           r2 == Command(r1.b, cmd)
<1>1. Onto(B, r1, {PureKey(a)})
  BY PureOnto DEF PureValues
<1>2. Onto(r1.b, r2, {})
  BY <1>1, CommandOnto DEF Onto
<1>3. r = r2
  BY <1>1 DEF SendFunds, Then, Onto
<1> HIDE DEF r1, r2
<1>4. Onto(B, r2, {PureKey(a)} \cup {})
  BY <1>1, <1>2, OntoOn
<1>5. {PureKey(a)} \cup {} = {PureKey(a)}
  OBVIOUS
<1> QED BY <1>3, <1>4, <1>5

(* SplitCoinAmount *)
LEMMA SplitOnto ==
  ASSUME NEW B, Sound(B), NEW source, NEW amtArg, NEW r, r = SplitCoinAmount(B, source, amtArg)
  PROVE  /\ Onto(B, r, {}) /\ r.b = Command(B, SplitCoins(source, <<amtArg>>)).b
         /\ Fits(r.b) => r.arg = NestedResultArg(Len(B.commands), 0)
<1> DEFINE r1 == Command(B, SplitCoins(source, <<amtArg>>))
<1>1. Onto(B, r1, {})
  BY CommandOnto
<1>2. r = Outcome(r1.b, NestedResultArg(r1.arg[2], 0), "none")
  BY <1>1 DEF SplitCoinAmount, Then, Onto
<1>3. r.b = r1.b /\ r.err = "none" /\ r.arg = NestedResultArg(r1.arg[2], 0)
  BY <1>2 DEF Outcome
<1>4. Fits(r1.b) => r1.arg = ResultArg(Len(B.commands))
  BY CommandAdds
<1> HIDE DEF r1
<1>5. Fits(r1.b) => r1.arg[2] = Len(B.commands)
  BY <1>4 DEF ResultArg
<1>6. Onto(B, r, {})
  BY <1>1, <1>3 DEF Onto
<1> QED BY <1>3, <1>5, <1>6 DEF r1

(* Where a value comes from an input it is not the gas coin. *)
LEMMA GainedNotGas ==
  ASSUME NEW B, NEW C, NEW P, Gains(B, C, P)
  PROVE  GasCoin \notin P
BY SlotTag DEF Gains, Slots

(* The places of a machine are a function. *)
LEMMA LiveFun ==
  ASSUME NEW B, Live(B)
  PROVE  IsFun(Run(B).at)
BY LiveShape DEF IsFun

(* A withdrawal of w is redeemed at p. *)
Redeemed(B, r, p, type, w) ==
  Wider(B, r.b, {p}) /\ Holds(r.b, r.arg, p, type, w) /\ p[1] = "NestedResult"

(* RedeemFunds makes a coin or a balance of a withdrawal. *)
LEMMA LiveRedeem ==
  ASSUME NEW B, Live(B), NEW w \in Nat, NEW function \in {"coin::redeem_funds", "balance::redeem_funds"},
         NEW type, type = IF function = "balance::redeem_funds" THEN "Balance" ELSE "Object",
         NEW r, r = RedeemFunds(B, function, w), Fits(r.b)
  PROVE  \E p : Redeemed(B, r, p, type, w)
<1> DEFINE r1 == CreateFundsWithdrawalArgument(B, w)
           C == r1.b
           cmd == MoveCallCommand(function, <<r1.arg>>)
           r2 == Command(C, cmd)
           D == r2.b
           n == Len(C.commands)
           new == NestedResultArg(n, 0)
<1>1. PICK p : /\ r1.err = "none" /\ Gains(B, C, {p})
               /\ Fits(C) => Holds(C, r1.arg, p, "FundsWithdrawal", w)
  BY LiveWithdrawal
<1>2. r = r2
  BY <1>1 DEF RedeemFunds, Then
<1>3. Live(C) /\ Grows(B, C) /\ Sound(B) /\ Sound(C)
  BY <1>1 DEF Gains, Joined, Live
<1>4. Onto(C, r2, {}) /\ Fits(r2.b)
  BY <1>2, <1>3, CommandOnto
<1>5. Fits(C)
  BY <1>3, <1>4, OntoFits
<1>6. r2.arg = ResultArg(n)
  BY <1>3, <1>4, CommandAdds
<1>7. Holds(C, r1.arg, p, "FundsWithdrawal", w)
  BY <1>1, <1>5
<1>8. GasCoin # p
  BY <1>1, GainedNotGas
<1>9. n \in Nat
  BY <1>3, LiveShape
<1>10. Stock(C, <<r1.arg>>, {"FundsWithdrawal"}, <<p>>, <<w>>) /\ Spots(<<p>>, 1) = {p} /\ Total(<<w>>) = w
  BY <1>3, <1>7, StockOne
<1>11. cmd = [name |-> function, arg |-> NoArg, args |-> <<r1.arg>>] /\ Len(<<r1.arg>>) = 1
  BY DEF MoveCallCommand
<1> HIDE DEF cmd
<1> DEFINE args == <<r1.arg>>
           q == <<p>>
           am == <<w>>
<1> HIDE DEF args, q, am
<1>12. function \in Making /\ function # "MakeMoveVec"
  BY DEF Making
<1>13. GasCoin \notin Spots(q, Len(args))
  BY <1>8, <1>10, <1>11 DEF q, args
<1>14. Longer(C, D, cmd) /\ Run(D).at = Placed(Without(Run(C).at, Spots(q, Len(args))), n, <<Total(am)>>)
       /\ Run(D).got = Run(C).got
  <2>1. Stock(C, args, {"FundsWithdrawal"}, q, am)
    BY <1>10 DEF args, q, am
  <2>2. cmd = [name |-> function, arg |-> NoArg, args |-> args]
    BY <1>11 DEF args
  <2>3. Leaves(C, D, cmd, Placed(Without(Run(C).at, Spots(q, Len(args))), n, <<Total(am)>>), Run(C).got)
    BY <1>3, <2>1, <2>2, <1>12, <1>13, LiveMakes
  <2> QED BY <2>3 DEF Leaves
<1>15. Spots(q, Len(args)) = {p} /\ Total(am) = w
  BY <1>10, <1>11 DEF args, q, am
<1> HIDE DEF r2, r1, n
<1>16. Wider(B, C, {p})
  BY <1>1, GainsWider
<1>17. Run(D).at = Placed(Run(B).at, n, <<w>>)
  BY <1>14, <1>15, <1>16, WiderLost
<1>18. \A l : NestedResultArg(n, l) \notin DOMAIN Run(B).at
  <2>1. \A l : NestedResultArg(n, l) \notin DOMAIN Run(C).at
    BY <1>3, ResultNew DEF n
  <2> QED BY <1>16, <2>1 DEF Wider
<1>19. DOMAIN Run(D).at = DOMAIN Run(B).at \cup {new} /\ Run(D).at[new] = w
       /\ \A s \in DOMAIN Run(B).at : Run(D).at[s] = Run(B).at[s]
  <2> DEFINE at == Run(B).at
             last == Run(D).at
  <2>1. IsFun(at) /\ last = Placed(at, n, <<w>>) /\ (\A l : NestedResultArg(n, l) \notin DOMAIN at) /\ new = NestedResultArg(n, 0)
    BY <1>17, <1>18, LiveFun
  <2> HIDE DEF at, last, new
  <2>2. OnePlaced(last, at, new, w)
    BY <2>1, PlacedOne
  <2> QED BY <2>2 DEF at, last, OnePlaced
<1>20. Live(D) /\ Grows(C, D) /\ Len(D.commands) = n + 1 /\ D.commands[n + 1] = cmd
  BY <1>14 DEF Longer, n
<1>21. Wider(B, D, {new})
  <2>1. Grows(B, D)
    BY <1>3, <1>20, GrowsOn DEF Live
  <2>2. Run(D).got = Run(B).got
    BY <1>14, <1>16 DEF Wider
  <2> QED BY <1>18, <1>19, <1>20, <2>1, <2>2 DEF Wider
<1>22. Holds(D, ResultArg(n), new, type, w)
  <2>1. cmd.name = function
    BY <1>11
  <2>2. Width(D.commands[n + 1]) = 1
    BY <1>20, <2>1 DEF Width
  <2>3. n \in 0..(Len(D.commands) - 1)
    BY <1>9, <1>20
  <2>4. ResultType(D.commands[n + 1].name) = type
    BY <1>20, <2>1 DEF ResultType
  <2> QED BY <1>19, <1>20, <2>2, <2>3, <2>4, HoldsResult
<1>23. new[1] = "NestedResult"
  BY DEF NestedResultArg
<1>24. Redeemed(B, r2, new, type, w)
  BY <1>6, <1>21, <1>22, <1>23 DEF Redeemed
<1> QED BY <1>2, <1>24

(* SendFunds pays into an address balance. *)
LEMMA LiveSendFunds ==
  ASSUME NEW B, Live(B), NEW function \in {"coin::send_funds", "balance::send_funds"},
         NEW type, type = IF function = "coin::send_funds" THEN "Object" ELSE "Balance",
         NEW value, NEW p, NEW x \in Nat, Holds(B, value, p, type, x), p # GasCoin,
         NEW a \in Addresses, NEW r, r = SendFunds(B, function, value, a), Fits(r.b)
  PROVE  Spends(B, r.b, {p}, <<a, "balance">>, x)
<1> DEFINE r1 == Pure(B, a)
           C == r1.b
           cmd == MoveCallCommand(function, <<value, r1.arg>>)
           r2 == Command(C, cmd)
           D == r2.b
           account == <<a, "balance">>
<1>0. a \in PureValues
  BY DEF PureValues
<1>1. /\ r1.err = "none" /\ Joined(B, C) /\ Run(C) = Run(B)
      /\ DOMAIN C.inputs = DOMAIN B.inputs \cup {PureKey(a)}
      /\ Fits(C) => r1.arg = Slot(C, PureKey(a))
  BY <1>0, LivePure
<1>2. r = r2
  BY <1>1 DEF SendFunds, Then
<1>3. Live(C) /\ Grows(B, C) /\ Sound(B) /\ Sound(C)
  BY <1>1 DEF Joined, Live
<1>4. Onto(C, r2, {}) /\ Fits(r2.b)
  BY <1>2, <1>3, CommandOnto
<1>5. Fits(C)
  BY <1>3, <1>4, OntoFits
<1>6. Holds(C, value, p, type, x)
  BY <1>1, <1>3, SameWider, WiderHolds
<1>7. PureKey(a) \in DOMAIN C.inputs /\ r1.arg = Slot(C, PureKey(a))
  BY <1>1, <1>5
<1> HIDE DEF r1
<1>8. /\ Longer(C, D, cmd) /\ Run(D).at = Without(Run(C).at, {p})
      /\ Run(D).got = More(Run(C).got, account, x)
  <2>1. Leaves(C, D, cmd, Without(Run(C).at, {p}), More(Run(C).got, account, x))
    BY <1>3, <1>6, <1>7, LiveSend
  <2> QED BY <2>1 DEF Leaves
<1> HIDE DEF r2, account
<1>9. Live(D) /\ Grows(C, D)
  BY <1>8 DEF Longer
<1>10. Grows(B, D)
  BY <1>3, <1>9, GrowsOn DEF Live
<1>11. Spends(B, D, {p}, account, x)
  BY <1>1, <1>8, <1>9, <1>10 DEF Spends
<1> QED BY <1>2, <1>11 DEF account

(* x of the y that source, at p, is worth is split off. *)
SplitOff(B, C, source, p, t, y, x) ==
  LET n == Len(B.commands)
      new == NestedResultArg(n, 0)
  IN /\ Splits(B, C, p, x, new)
     /\ Holds(C, NestedResultArg(n, 0), new, "Object", x) /\ Holds(C, ResultArg(n), new, "Object", x)
     /\ Holds(C, source, p, t, y - x)

(* What is left after x is taken from a place. *)
LEMMA LessFacts ==
  ASSUME NEW at, IsFun(at), NEW p \in DOMAIN at, NEW x
  PROVE  /\ IsFun(Less(at, p, x)) /\ DOMAIN Less(at, p, x) = DOMAIN at
         /\ Less(at, p, x)[p] = at[p] - x
         /\ \A s \in DOMAIN at \ {p} : Less(at, p, x)[s] = at[s]
BY DEF Less, IsFun

(* SplitCoins of one amount places one piece and leaves the rest. *)
LEMMA LiveSplitOne ==
  ASSUME NEW B, Live(B), NEW source, NEW p, NEW t, NEW y \in Nat, Holds(B, source, p, t, y),
         NEW x \in Nat, PureKey(x) \in DOMAIN B.inputs, x <= y,
         NEW amt, amt = Slot(B, PureKey(x)),
         NEW C, C = Command(B, SplitCoins(source, <<amt>>)).b
  PROVE  SplitOff(B, C, source, p, t, y, x)
<1> DEFINE n == Len(B.commands)
           new == NestedResultArg(n, 0)
           amts == <<amt>>
           s == <<x>>
           cmd == SplitCoins(source, amts)
           at == Run(B).at
           left == Less(at, p, x)
           last == Run(C).at
<1>1. s \in Seq(Nat) /\ Len(s) = 1 /\ s[1] = x /\ IsSeq(amts) /\ Len(amts) = 1 /\ amts[1] = amt /\ DOMAIN amts = 1..1
  BY DEF IsSeq
<1>2. Total(s) = x
  BY TotalOne
<1>0. C = Command(B, cmd).b
  OBVIOUS
<1>x. cmd.name = "SplitCoins" /\ cmd.args = amts
  BY DEF SplitCoins
<1> HIDE DEF s, amts, cmd
<1>3. AmountArgs(B, amts, s)
  BY <1>1 DEF AmountArgs
<1>4. Leaves(B, C, cmd, Placed(Less(at, p, Total(s)), n, s), Run(B).got)
  BY <1>0, <1>2, <1>3, LiveSplit DEF cmd
<1>5. last = Placed(left, n, <<x>>) /\ Run(C).got = Run(B).got
  BY <1>2, <1>4 DEF Leaves, s
<1>6. Live(C) /\ Grows(B, C) /\ Len(C.commands) = n + 1 /\ C.commands[n + 1] = cmd
  BY <1>4 DEF Leaves, Longer
<1>7. p \in DOMAIN at /\ at[p] = y
  BY DEF Holds
<1>8. IsFun(at) /\ \A l : NestedResultArg(n, l) \notin DOMAIN at
  BY LiveFun, ResultNew
<1> HIDE DEF at
<1>9. IsFun(left) /\ DOMAIN left = DOMAIN at /\ left[p] = y - x /\ \A i \in DOMAIN at \ {p} : left[i] = at[i]
  BY <1>7, <1>8, LessFacts
<1> HIDE DEF left, last, new
<1>10. OnePlaced(last, left, new, x)
  BY <1>5, <1>8, <1>9, PlacedOne DEF new
<1>11. /\ Without(last, {new}) = left /\ DOMAIN last = DOMAIN at \cup {new} /\ last[new] = x
       /\ last[p] = y - x /\ \A i \in DOMAIN at \ {p} : last[i] = at[i]
  BY <1>7, <1>9, <1>10 DEF OnePlaced
<1>12. new \notin DOMAIN at /\ new # p /\ new[1] = "NestedResult"
  BY <1>7, <1>8 DEF new, NestedResultArg
<1>13. Splits(B, C, p, x, new)
  BY <1>5, <1>6, <1>7, <1>11, <1>12 DEF Splits, at, left, last
<1>14. n \in Nat
  BY LiveShape
<1>15. n \in 0..(Len(C.commands) - 1) /\ 0 \in Nat
  BY <1>6, <1>14
<1>16. ResultType(C.commands[n + 1].name) = "Object" /\ Width(C.commands[n + 1]) = 1
  BY <1>6, <1>x, <1>1 DEF ResultType, Width
<1>17. new \in DOMAIN Run(C).at /\ Run(C).at[new] = x
  BY <1>11 DEF last
<1>18. Holds(C, ResultArg(n), new, "Object", x)
  BY <1>6, <1>15, <1>16, <1>17, HoldsResult DEF new
<1>19. Holds(C, new, new, "Object", x)
  BY <1>6, <1>15, <1>16, <1>17, HoldsNested DEF new
<1>20. p \in DOMAIN Run(C).at /\ Run(C).at[p] = y - x
  BY <1>7, <1>11 DEF last
<1>21. Holds(C, source, p, t, y - x)
  BY <1>6, <1>20, HoldsAnew
<1> QED BY <1>13, <1>18, <1>19, <1>21 DEF SplitOff, new

(* args stand for values of the given types, at P and worth v together. *)
StockOf(B, args, types, P, v) ==
  \E q, am : Stock(B, args, types, q, am) /\ Spots(q, Len(args)) = P /\ Total(am) = v

(* A stock is worth a number and stands in the machine. *)
LEMMA StockOfNat ==
  ASSUME NEW B, NEW args, NEW types, NEW P, NEW v, StockOf(B, args, types, P, v)
  PROVE  v \in Nat /\ P \subseteq DOMAIN Run(B).at /\ Len(args) \in Nat
<1>1. PICK q, am : Stock(B, args, types, q, am) /\ Spots(q, Len(args)) = P /\ Total(am) = v
  BY DEF StockOf
<1>2. v \in Nat /\ Len(args) \in Nat
  BY <1>1, TotalNat DEF Stock
<1>3. \A i \in 1..Len(args) : q[i] \in DOMAIN Run(B).at
  BY <1>1 DEF Stock, Holds
<1> QED BY <1>1, <1>2, <1>3 DEF Spots

(* One Argument is a stock of one. *)
LEMMA StockOfOne ==
  ASSUME NEW B, NEW arg, NEW p, NEW t, NEW x \in Nat, Holds(B, arg, p, t, x), NEW types, t \in types
  PROVE  StockOf(B, <<arg>>, types, {p}, x)
<1>1. Stock(B, <<arg>>, types, <<p>>, <<x>>) /\ Spots(<<p>>, 1) = {p} /\ Total(<<x>>) = x
  BY StockOne
<1>2. Len(<<arg>>) = 1
  OBVIOUS
<1> QED BY <1>1, <1>2 DEF StockOf

(* A stock stays one when the machine widens. *)
LEMMA StockOfWider ==
  ASSUME NEW B, NEW C, Live(B), NEW Q, Wider(B, C, Q), NEW args, NEW types, NEW P, NEW v, StockOf(B, args, types, P, v)
  PROVE  StockOf(C, args, types, P, v)
<1>1. PICK q, am : Stock(B, args, types, q, am) /\ Spots(q, Len(args)) = P /\ Total(am) = v
  BY DEF StockOf
<1>2. Stock(C, args, types, q, am)
  BY <1>1, WiderStock
<1> QED BY <1>1, <1>2 DEF StockOf

(* A stock of some types is one of more types. *)
LEMMA StockOfTypes ==
  ASSUME NEW B, NEW args, NEW types, NEW P, NEW v, StockOf(B, args, types, P, v), NEW more, types \subseteq more
  PROVE  StockOf(B, args, more, P, v)
<1>1. PICK q, am : Stock(B, args, types, q, am) /\ Spots(q, Len(args)) = P /\ Total(am) = v
  BY DEF StockOf
<1>2. Stock(B, args, more, q, am)
  BY <1>1 DEF Stock
<1> QED BY <1>1, <1>2 DEF StockOf

(* One more. *)
LEMMA StockOfAppend ==
  ASSUME NEW B, NEW args, NEW types, NEW P, NEW v, StockOf(B, args, types, P, v),
         NEW arg, NEW p, NEW t, NEW x \in Nat, Holds(B, arg, p, t, x), t \in types, p \notin P
  PROVE  StockOf(B, Append(args, arg), types, P \cup {p}, v + x)
<1>1. PICK q, am : Stock(B, args, types, q, am) /\ Spots(q, Len(args)) = P /\ Total(am) = v
  BY DEF StockOf
<1> DEFINE n == Len(args)
           args2 == Append(args, arg)
           am2 == Append(am, x)
           q2 == [i \in 1..(n + 1) |-> IF i = n + 1 THEN p ELSE q[i]]
<1>2. /\ am \in Seq(Nat) /\ Len(am) = n /\ IsSeq(args) /\ n \in Nat
      /\ \A i \in 1..n : \E u \in types : Holds(B, args[i], q[i], u, am[i])
      /\ \A i, j \in 1..n : q[i] = q[j] => i = j
  BY <1>1 DEF Stock
<1>3. IsSeq(args2) /\ Len(args2) = n + 1 /\ args2[n + 1] = arg /\ \A i \in 1..n : args2[i] = args[i]
  BY <1>2, AppendIsSeq
<1>4. am2 \in Seq(Nat) /\ Len(am2) = n + 1 /\ am2[n + 1] = x /\ \A i \in 1..n : am2[i] = am[i]
  BY <1>2
<1>5. q2[n + 1] = p /\ \A i \in 1..n : q2[i] = q[i]
  BY <1>2
<1>6. Total(am2) = v + x
  BY <1>1, <1>2, TotalAppend
<1>7. \A i \in 1..(n + 1) : i = n + 1 \/ i \in 1..n
  BY <1>2
<1>8. DOMAIN args2 = 1..(n + 1)
  BY <1>3 DEF IsSeq
<1> HIDE DEF args2, am2, q2
<1>9. \A i \in 1..n : q[i] # p
  BY <1>1 DEF Spots
<1>10. \A i, j \in 1..(n + 1) : q2[i] = q2[j] => i = j
  BY <1>2, <1>5, <1>7, <1>9
<1>11. \A i \in 1..(n + 1) : \E u \in types : Holds(B, args2[i], q2[i], u, am2[i])
  BY <1>2, <1>3, <1>4, <1>5, <1>7
<1>12. Stock(B, args2, types, q2, am2)
  BY <1>2, <1>3, <1>4, <1>8, <1>10, <1>11 DEF Stock
<1>13. Spots(q2, n + 1) = P \cup {p}
  <2>1. n + 1 \in 1..(n + 1) /\ 1..n \subseteq 1..(n + 1)
    BY <1>2
  <2> QED BY <1>1, <1>5, <1>7, <2>1 DEF Spots
<1>14. StockOf(B, args2, types, P \cup {p}, v + x)
  BY <1>3, <1>6, <1>12, <1>13 DEF StockOf
<1> QED BY <1>14 DEF args2

(* The first and the others. *)
LEMMA StockOfHead ==
  ASSUME NEW B, NEW args, NEW t, NEW P, NEW v, StockOf(B, args, {t}, P, v), Len(args) > 0
  PROVE  \E p \in P, x \in Nat : Holds(B, args[1], p, t, x) /\ StockOf(B, Tail(args), {t}, P \ {p}, v - x)
<1>1. PICK q, am : Stock(B, args, {t}, q, am) /\ Spots(q, Len(args)) = P /\ Total(am) = v
  BY DEF StockOf
<1> DEFINE n == Len(args) - 1
           args2 == Tail(args)
           am2 == Tail(am)
           q2 == [i \in 1..n |-> q[i + 1]]
<1>2. /\ am \in Seq(Nat) /\ Len(am) = n + 1 /\ IsSeq(args) /\ Len(args) = n + 1 /\ n \in Nat
      /\ \A i \in 1..(n + 1) : Holds(B, args[i], q[i], t, am[i])
      /\ \A i, j \in 1..(n + 1) : q[i] = q[j] => i = j
  BY <1>1 DEF Stock
<1>3. IsSeq(args2) /\ Len(args2) = n /\ \A i \in 1..n : args2[i] = args[i + 1]
  <2> DEFINE T == {args[i] : i \in DOMAIN args}
  <2>1. args \in Seq(T) /\ Len(args) = n + 1
    BY <1>2 DEF IsSeq
  <2> HIDE DEF T, n
  <2>2. n \in Nat
    BY <1>2
  <2>3. args2 \in Seq(T) /\ Len(args2) = n /\ \A i \in 1..n : args2[i] = args[i + 1]
    BY <2>1, <2>2
  <2> HIDE DEF args2
  <2> QED BY <2>3, SeqIsSeq
<1>4. am2 \in Seq(Nat) /\ Len(am2) = n /\ \A i \in 1..n : am2[i] = am[i + 1]
  BY <1>2
<1>5. \A i \in 1..n : q2[i] = q[i + 1]
  OBVIOUS
<1>6. am # <<>> /\ Head(am) = am[1] /\ am[1] \in Nat
  BY <1>2
<1>7. Total(am2) = v - am[1]
  <2>1. v = am[1] + Total(am2)
    BY <1>1, <1>2, <1>6, TotalHead
  <2>2. Total(am2) \in Nat
    BY <1>4, TotalNat
  <2> QED BY <1>6, <2>1, <2>2
<1>8. DOMAIN args2 = 1..n
  BY <1>3 DEF IsSeq
<1>9. \A i \in 1..n : i + 1 \in 1..(n + 1) /\ i + 1 # 1
  BY <1>2
<1>10. \A i \in 1..(n + 1) : i = 1 \/ (i - 1 \in 1..n /\ (i - 1) + 1 = i)
  BY <1>2
<1>11. 1 \in 1..(n + 1)
  BY <1>2
<1> HIDE DEF args2, am2, q2, n
<1>12. \A i, j \in 1..n : q2[i] = q2[j] => i = j
  <2> TAKE i, j \in 1..n
  <2>1. q2[i] = q2[j] => i + 1 = j + 1
    BY <1>2, <1>5, <1>9
  <2> QED BY <1>2, <2>1
<1>13. \A i \in 1..n : \E u \in {t} : Holds(B, args2[i], q2[i], u, am2[i])
  <2> TAKE i \in 1..n
  <2>1. Holds(B, args[i + 1], q[i + 1], t, am[i + 1])
    BY <1>2, <1>9
  <2> QED BY <1>3, <1>4, <1>5, <2>1
<1>14. Stock(B, args2, {t}, q2, am2)
  BY <1>2, <1>3, <1>4, <1>8, <1>12, <1>13 DEF Stock
<1>15. Spots(q2, n) = P \ {q[1]}
  <2>1. ASSUME NEW s \in Spots(q2, n) PROVE s \in P \ {q[1]}
    <3>1. PICK i \in 1..n : s = q2[i]
      BY <2>1 DEF Spots
    <3>2. s = q[i + 1] /\ i + 1 \in 1..(n + 1) /\ i + 1 # 1
      BY <1>5, <1>9, <3>1
    <3> QED BY <1>1, <1>2, <1>11, <3>2 DEF Spots
  <2>2. ASSUME NEW s \in P \ {q[1]} PROVE s \in Spots(q2, n)
    <3>1. PICK i \in 1..(n + 1) : s = q[i]
      BY <1>1, <1>2, <2>2 DEF Spots
    <3>2. i - 1 \in 1..n /\ (i - 1) + 1 = i
      BY <1>10, <2>2, <3>1
    <3>3. s = q2[i - 1]
      BY <1>5, <3>1, <3>2
    <3> QED BY <3>2, <3>3 DEF Spots
  <2> QED BY <2>1, <2>2
<1>16. StockOf(B, args2, {t}, P \ {q[1]}, v - am[1])
  BY <1>3, <1>7, <1>14, <1>15 DEF StockOf
<1>17. q[1] \in P
  BY <1>1, <1>2, <1>11 DEF Spots
<1>18. Holds(B, args[1], q[1], t, am[1])
  BY <1>2, <1>11
<1> QED BY <1>6, <1>16, <1>17, <1>18 DEF args2

(* TransferObjects of a stock spends it. *)
LEMMA TransferAll ==
  ASSUME NEW B, Live(B), NEW args, NEW P, NEW v, StockOf(B, args, {"Object"}, P, v),
         NEW a \in Addresses, PureKey(a) \in DOMAIN B.inputs, NEW to, to = Slot(B, PureKey(a)),
         NEW C, C = Command(B, TransferObjects(args, to)).b
  PROVE  Spends(B, C, P, <<a, "coin">>, v)
<1>1. PICK q, am : Stock(B, args, {"Object"}, q, am) /\ Spots(q, Len(args)) = P /\ Total(am) = v
  BY DEF StockOf
<1> DEFINE account == <<a, "coin">>
<1>2. Leaves(B, C, TransferObjects(args, to), Without(Run(B).at, Spots(q, Len(args))), More(Run(B).got, account, Total(am)))
  BY <1>1, LiveTransfer
<1> QED BY <1>1, <1>2 DEF Leaves, Longer, Spends

(* TransferObjects of one coin spends it. *)
LEMMA TransferOne ==
  ASSUME NEW B, Live(B), NEW arg, NEW p, NEW x \in Nat, Holds(B, arg, p, "Object", x),
         NEW a \in Addresses, PureKey(a) \in DOMAIN B.inputs, NEW to, to = Slot(B, PureKey(a)),
         NEW C, C = Command(B, TransferObjects(<<arg>>, to)).b
  PROVE  Spends(B, C, {p}, <<a, "coin">>, x)
<1>1. StockOf(B, <<arg>>, {"Object"}, {p}, x)
  BY StockOfOne
<1> QED BY <1>1, TransferAll

(* A deposit of a stock spends it. *)
LEMMA DepositAll ==
  ASSUME NEW B, Live(B), NEW args, NEW P, NEW v, StockOf(B, args, {"Object", "Vector"}, P, v), GasCoin \notin P,
         NEW C, C = Command(B, MoveCallCommand("deposit", args)).b
  PROVE  Spends(B, C, P, <<Pool, "coin">>, v)
<1>1. PICK q, am : Stock(B, args, {"Object", "Vector"}, q, am) /\ Spots(q, Len(args)) = P /\ Total(am) = v
  BY DEF StockOf
<1> DEFINE account == <<Pool, "coin">>
<1>2. Leaves(B, C, MoveCallCommand("deposit", args), Without(Run(B).at, Spots(q, Len(args))), More(Run(B).got, account, Total(am)))
  BY <1>1, LiveDeposit
<1> QED BY <1>1, <1>2 DEF Leaves, Longer, Spends

(* C is B and more; what was at P is in one vector at new. *)
InVector(B, C, P, arg, new, v) ==
  /\ Live(C) /\ Grows(B, C) /\ Run(C).got = Run(B).got
  /\ Without(Run(C).at, {new}) = Without(Run(B).at, P)
  /\ Holds(C, arg, new, "Vector", v)

(* MakeMoveVec: one value, all of them, in their place. *)
LEMMA VectorAll ==
  ASSUME NEW B, Live(B), NEW args, NEW P, NEW v, StockOf(B, args, {"Object"}, P, v), GasCoin \notin P,
         NEW C, C = Command(B, MakeMoveVec(args)).b,
         NEW n, n = Len(B.commands), NEW new, new = NestedResultArg(n, 0)
  PROVE  InVector(B, C, P, ResultArg(n), new, v)
<1>1. PICK q, am : Stock(B, args, {"Object"}, q, am) /\ Spots(q, Len(args)) = P /\ Total(am) = v
  BY DEF StockOf
<1> DEFINE cmd == MakeMoveVec(args)
           left == Without(Run(B).at, P)
           last == Run(C).at
<1>2. cmd = [name |-> "MakeMoveVec", arg |-> NoArg, args |-> args] /\ cmd.name = "MakeMoveVec" /\ C = Command(B, cmd).b
  BY DEF MakeMoveVec
<1>3. "MakeMoveVec" \in Making
  BY DEF Making
<1> HIDE DEF cmd
<1>4. Leaves(B, C, cmd, Placed(Without(Run(B).at, Spots(q, Len(args))), Len(B.commands), <<Total(am)>>), Run(B).got)
  BY <1>1, <1>2, <1>3, LiveMakes
<1>5. /\ last = Placed(left, n, <<v>>) /\ Run(C).got = Run(B).got
      /\ Live(C) /\ Grows(B, C) /\ Len(C.commands) = n + 1 /\ C.commands[n + 1] = cmd
  BY <1>1, <1>4 DEF Leaves, Longer
<1>6. IsFun(left) /\ \A l : NestedResultArg(n, l) \notin DOMAIN left
  <2>1. \A l : NestedResultArg(n, l) \notin DOMAIN Run(B).at
    BY ResultNew
  <2> QED BY <2>1 DEF IsFun, Without
<1> HIDE DEF left, last
<1>7. OnePlaced(last, left, new, v)
  <2>1. last = Placed(left, n, <<v>>) /\ IsFun(left) /\ v \in Nat
    BY <1>5, <1>6, StockOfNat
  <2> QED BY <1>6, <2>1, PlacedOne
<1>8. Without(last, {new}) = left /\ new \in DOMAIN last /\ last[new] = v
  BY <1>7 DEF OnePlaced
<1>9. n \in 0..(Len(C.commands) - 1)
  <2>1. n \in Nat
    BY LiveShape
  <2> QED BY <1>5, <2>1
<1>10. ResultType(C.commands[n + 1].name) = "Vector" /\ Width(C.commands[n + 1]) = 1
  BY <1>2, <1>5 DEF ResultType, Width
<1>11. Holds(C, ResultArg(n), new, "Vector", v)
  BY <1>5, <1>8, <1>9, <1>10, HoldsResult DEF last
<1> QED BY <1>5, <1>8, <1>11 DEF left, last, InVector

(* All but one of the values are merged into that one. *)
LEMMA MergeAll ==
  ASSUME NEW B, NEW A, Live(A), NEW Q, Wider(A, B, Q), NEW into, NEW p \in Q, NEW t, NEW x \in Nat, Holds(B, into, p, t, x),
         NEW args, NEW v, StockOf(B, args, {"Object"}, Q \ {p}, v), GasCoin \notin Q,
         NEW C, C = Command(B, MergeCoins(into, args)).b
  PROVE  Wider(A, C, {p}) /\ Holds(C, into, p, t, x + v)
<1>0. Live(B) /\ Grows(A, B)
  BY DEF Wider
<1>1. PICK q, am : Stock(B, args, {"Object"}, q, am) /\ Spots(q, Len(args)) = Q \ {p} /\ Total(am) = v
  BY DEF StockOf
<1> DEFINE P == Q \ {p}
           left == Without(Run(B).at, P)
           last == Run(C).at
<1>2. Leaves(B, C, MergeCoins(into, args), More(Without(Run(B).at, Spots(q, Len(args))), p, Total(am)), Run(B).got)
  BY <1>0, <1>1, LiveMerge
<1>3. /\ last = More(left, p, v) /\ Run(C).got = Run(B).got
      /\ Live(C) /\ Grows(B, C)
  BY <1>1, <1>2 DEF Leaves, Longer
<1>4. p \in DOMAIN Run(B).at /\ Run(B).at[p] = x
  BY DEF Holds
<1>5. /\ DOMAIN left = DOMAIN Run(A).at \cup {p} /\ left[p] = x
      /\ \A s \in DOMAIN Run(A).at : left[s] = Run(A).at[s]
      /\ p \notin DOMAIN Run(A).at
  BY <1>4 DEF Without, Wider
<1> HIDE DEF left
<1>6. /\ DOMAIN last = DOMAIN Run(A).at \cup {p} /\ last[p] = x + v
      /\ \A s \in DOMAIN Run(A).at : last[s] = Run(A).at[s]
  BY <1>3, <1>5 DEF More
<1>7. Grows(A, C)
  BY <1>0, <1>3, GrowsOn DEF Live
<1>8. Run(C).got = Run(A).got
  BY <1>3 DEF Wider
<1>9. Wider(A, C, {p})
  BY <1>3, <1>5, <1>6, <1>7, <1>8 DEF Wider
<1>10. Holds(C, into, p, t, x + v)
  BY <1>0, <1>3, <1>6, HoldsAnew
<1> QED BY <1>9, <1>10

(* arg is the input with the pure value x. *)
HoldsPure(B, arg, x) == PureKey(x) \in DOMAIN B.inputs /\ arg = Slot(B, PureKey(x))

(* A pure Argument stays one when the builder grows. *)
LEMMA HoldsPureGrows ==
  ASSUME NEW B, NEW C, Sound(B), Sound(C), Grows(B, C), NEW arg, NEW x, HoldsPure(B, arg, x)
  PROVE  HoldsPure(C, arg, x)
<1>1. PureKey(x) \in DOMAIN C.inputs
  BY DEF Grows, HoldsPure
<1> QED BY <1>1, SlotKept DEF HoldsPure

(* Pure leaves the machine alone and answers the Argument of the value. *)
LEMMA AddPure ==
  ASSUME NEW B, Live(B), NEW x \in PureValues, NEW r, r = Pure(B, x), Fits(r.b)
  PROVE  Wider(B, r.b, {}) /\ Run(r.b) = Run(B) /\ HoldsPure(r.b, r.arg, x)
<1> DEFINE C == r.b
<1>1. /\ r.err = "none" /\ Joined(B, C) /\ Run(C) = Run(B)
      /\ DOMAIN C.inputs = DOMAIN B.inputs \cup {PureKey(x)}
      /\ Fits(C) => r.arg = Slot(C, PureKey(x))
  BY LivePure
<1>2. Wider(B, C, {})
  BY <1>1, SameWider DEF Joined
<1>3. HoldsPure(C, r.arg, x)
  BY <1>1 DEF HoldsPure
<1> QED BY <1>1, <1>2, <1>3

(* Coins that are registered, by one of the loops. *)
Registered(B, r, ids, P) ==
  /\ Gains(B, r.b, P) /\ Wider(B, r.b, P) /\ GasCoin \notin P
  /\ StockOf(r.b, r.arg, {"Object"}, P, Worth(ids)) /\ Len(r.arg) = Len(ids)

(* The coins that a loop registers are a stock. *)
LEMMA AddCoins ==
  ASSUME NEW B, Live(B), NEW ids, Unused(B, ids), NEW r, AddsAll(r, B, ObjectKeys(ids), Len(ids)), Fits(r.b)
  PROVE  \E P : Registered(B, r, ids, P)
<1> DEFINE P == Spots(Coins(r.b, ids), Len(ids))
<1>1. Gains(B, r.b, P) /\ Stock(r.b, r.arg, {"Object"}, Coins(r.b, ids), Values(ids)) /\ Len(r.arg) = Len(ids)
  BY LiveObjs
<1> HIDE DEF P
<1>2. Wider(B, r.b, P) /\ GasCoin \notin P
  BY <1>1, GainsWider, GainedNotGas
<1>3. Worth(ids) = Total(Values(ids))
  BY ValuesNat DEF Unused
<1>4. Spots(Coins(r.b, ids), Len(r.arg)) = P
  BY <1>1 DEF P
<1>5. StockOf(r.b, r.arg, {"Object"}, P, Worth(ids))
  BY <1>1, <1>3, <1>4 DEF StockOf
<1>6. Registered(B, r, ids, P)
  BY <1>1, <1>2, <1>5 DEF Registered
<1> QED BY <1>6

(* Those of Objs are. *)
LEMMA AddObjs ==
  ASSUME NEW B, Live(B), NEW ids, Unused(B, ids), NEW r, r = Objs(B, ids), Fits(r.b)
  PROVE  \E P : Registered(B, r, ids, P)
<1>1. AddsAll(r, B, ObjectKeys(ids), Len(ids))
  BY ObjsAdds DEF Live
<1> QED BY <1>1, AddCoins

(* Obj answers the Argument of its coin. *)
LEMMA AddObj ==
  ASSUME NEW B, Live(B), NEW id \in DOMAIN CoinBalance, ObjectKey(id) \notin DOMAIN B.inputs,
         NEW r, r = Obj(B, OwnedObject(id)), Fits(r.b)
  PROVE  \E p : Wider(B, r.b, {p}) /\ Holds(r.b, r.arg, p, "Object", CoinBalance[id]) /\ p \in Slots(r.b)
<1>1. Gains(B, r.b, {Slot(r.b, ObjectKey(id))}) /\ Holds(r.b, r.arg, Slot(r.b, ObjectKey(id)), "Object", CoinBalance[id])
  BY LiveObj
<1>2. Wider(B, r.b, {Slot(r.b, ObjectKey(id))})
  BY <1>1, GainsWider
<1> QED BY <1>1, <1>2 DEF Gains

-----------------------------------------------------------------------------
(***************************************************************************)
(* What a method does for the transaction.                                 *)
(***************************************************************************)
(* x is paid to the account, and all that was there before is still there. *)
Delivers(B, C, account, x) ==
  /\ Live(C) /\ Grows(B, C) /\ Run(C).at = Run(B).at
  /\ Run(C).got = More(Run(B).got, account, x)

(* x of what is at p is paid to the account. *)
Draws(B, C, p, x, account) ==
  /\ Live(C) /\ Grows(B, C) /\ Run(C).at = Less(Run(B).at, p, x)
  /\ Run(C).got = More(Run(B).got, account, x)

(* What was gained and is spent is delivered, and the rest is as before. *)
LEMMA SpendsGained ==
  ASSUME NEW B, Live(B), NEW C, NEW P, Wider(B, C, P), NEW D, NEW account, NEW x, Spends(C, D, P, account, x)
  PROVE  Delivers(B, D, account, x)
<1>1. Live(D) /\ Grows(C, D) /\ Run(D).at = Without(Run(C).at, P) /\ Run(D).got = More(Run(C).got, account, x)
  BY DEF Spends
<1>2. Run(D).at = Run(B).at
  BY <1>1, WiderLost
<1>3. Live(C) /\ Grows(B, C) /\ Run(C).got = Run(B).got
  BY DEF Wider
<1>4. Grows(B, D)
  BY <1>1, <1>3, GrowsOn DEF Live
<1> QED BY <1>1, <1>2, <1>3, <1>4 DEF Delivers

(* What was split off and is spent is drawn from the coin. *)
LEMMA SpendsSplit ==
  ASSUME NEW B, Live(B), NEW C, NEW p, NEW y, NEW new, Splits(B, C, p, y, new),
         NEW D, NEW account, Spends(C, D, {new}, account, y)
  PROVE  Draws(B, D, p, y, account)
<1>1. Live(D) /\ Grows(C, D) /\ Run(D).at = Without(Run(C).at, {new}) /\ Run(D).got = More(Run(C).got, account, y)
  BY DEF Spends
<1>2. Live(C) /\ Grows(B, C) /\ Run(C).got = Run(B).got /\ Without(Run(C).at, {new}) = Less(Run(B).at, p, y)
  BY DEF Splits
<1>3. Grows(B, D)
  BY <1>1, <1>2, GrowsOn DEF Live
<1> QED BY <1>1, <1>2, <1>3 DEF Draws

(* TransferObject *)
LEMMA DoTransferObject ==
  ASSUME NEW B, Live(B), NEW ids, Unused(B, ids), NEW a \in Addresses,
         NEW r, r = TransferObject(B, a, ids), Fits(r.b)
  PROVE  r.err = "none" /\ Delivers(B, r.b, <<a, "coin">>, Worth(ids))
<1> DEFINE r1 == Pure(B, a)
           r2 == Objs(r1.b, ids)
           r3 == Command(r2.b, TransferObjects(r2.arg, r1.arg))
           account == <<a, "coin">>
<1>0. a \in PureValues
  BY DEF PureValues
<1>1. Onto(B, r1, {PureKey(a)}) /\ Sound(B)
  BY <1>0, PureOnto DEF Live
<1>2. Unused(r1.b, ids) /\ Sound(r1.b)
  BY <1>1, UnusedOnto
<1>3. Onto(r1.b, r2, CoinKeys(ids)) /\ Sound(r2.b)
  BY <1>2, ObjsOnto DEF Onto
<1>4. Onto(r2.b, r3, {})
  BY <1>3, CommandOnto
<1>5. r = r3 /\ r3.err = "none"
  BY <1>1, <1>3, <1>4 DEF TransferObject, Then, Onto
<1>6. Fits(r3.b) /\ Fits(r2.b) /\ Fits(r1.b)
  BY <1>1, <1>2, <1>3, <1>4, <1>5, OntoFits
<1>7. Wider(B, r1.b, {}) /\ Run(r1.b) = Run(B) /\ HoldsPure(r1.b, r1.arg, a)
  BY <1>0, <1>6, AddPure
<1>8. Live(r1.b)
  BY <1>7 DEF Wider
<1>9. PICK P : Registered(r1.b, r2, ids, P)
  BY <1>2, <1>6, <1>8, AddObjs
<1>10. Wider(r1.b, r2.b, P) /\ StockOf(r2.b, r2.arg, {"Object"}, P, Worth(ids))
  BY <1>9 DEF Registered
<1>11. Live(r2.b) /\ Grows(r1.b, r2.b)
  BY <1>10 DEF Wider
<1>12. HoldsPure(r2.b, r1.arg, a)
  BY <1>2, <1>3, <1>7, <1>11, HoldsPureGrows
<1> HIDE DEF r1, r2
<1>13. Spends(r2.b, r3.b, P, account, Worth(ids))
  BY <1>10, <1>11, <1>12, TransferAll DEF HoldsPure
<1> HIDE DEF r3, account
<1>14. Wider(B, r2.b, {} \cup P)
  BY <1>7, <1>10, WiderOn
<1>15. {} \cup P = P
  OBVIOUS
<1>16. Delivers(B, r3.b, account, Worth(ids))
  BY <1>13, <1>14, <1>15, SpendsGained
<1> QED BY <1>5, <1>16 DEF account

(* A MoveCall that deposits coins. *)
LEMMA DoDeposit ==
  ASSUME NEW B, Live(B), NEW ids, Unused(B, ids),
         NEW s, s = [i \in DOMAIN ids |-> ObjectCallArg(OwnedObject(ids[i]))],
         NEW r, r = MoveCall(B, "deposit", s), Fits(r.b)
  PROVE  r.err = "none" /\ Delivers(B, r.b, <<Pool, "coin">>, Worth(ids))
<1> DEFINE r2 == Each(B, s, Input)
           r3 == Command(r2.b, MoveCallCommand("deposit", r2.arg))
           account == <<Pool, "coin">>
<1>1. AddsAll(r2, B, ObjectKeys(ids), Len(ids)) /\ Sound(B)
  BY InputsAdd DEF Live
<1>2. Onto(B, r2, {ObjectKeys(ids)[i] : i \in 1..Len(ids)})
  BY <1>1, AddsAllOnto
<1>3. Onto(r2.b, r3, {}) /\ Sound(r2.b)
  BY <1>2, CommandOnto DEF Onto
<1>4. r = r3 /\ r3.err = "none"
  BY <1>2, <1>3 DEF MoveCall, Then, Onto
<1>5. Fits(r2.b)
  BY <1>3, <1>4, OntoFits
<1> HIDE DEF r2
<1>6. PICK P : Registered(B, r2, ids, P)
  BY <1>1, <1>5, AddCoins
<1>7. Wider(B, r2.b, P) /\ GasCoin \notin P /\ StockOf(r2.b, r2.arg, {"Object"}, P, Worth(ids)) /\ Live(r2.b)
  BY <1>6 DEF Registered, Wider
<1>8. StockOf(r2.b, r2.arg, {"Object", "Vector"}, P, Worth(ids))
  BY <1>7, StockOfTypes
<1>9. Spends(r2.b, r3.b, P, account, Worth(ids))
  BY <1>7, <1>8, DepositAll
<1> HIDE DEF r3, account
<1>10. Delivers(B, r3.b, account, Worth(ids))
  BY <1>7, <1>9, SpendsGained
<1> QED BY <1>4, <1>10 DEF account

(* MakeObjList, and a MoveCall that deposits the list. *)
LEMMA DoDepositList ==
  ASSUME NEW B, Live(B), NEW ids, Unused(B, ids),
         NEW s, s = [i \in DOMAIN ids |-> OwnedObject(ids[i])],
         NEW r, r = Then(MakeObjList(B, s), LAMBDA b1, list : Command(b1, MoveCallCommand("deposit", <<list>>))),
         Fits(r.b)
  PROVE  r.err = "none" /\ Delivers(B, r.b, <<Pool, "coin">>, Worth(ids))
<1> DEFINE r1 == Each(B, s, Obj)
           r2 == Command(r1.b, MakeMoveVec(r1.arg))
           r3 == Command(r2.b, MoveCallCommand("deposit", <<r2.arg>>))
           account == <<Pool, "coin">>
           n == Len(r1.b.commands)
           new == NestedResultArg(n, 0)
<1>1. AddsAll(r1, B, ObjectKeys(ids), Len(ids)) /\ Sound(B)
  BY Zenon, ObjectsAdd DEF Live
<1>2. Onto(B, r1, {ObjectKeys(ids)[i] : i \in 1..Len(ids)})
  BY Zenon, <1>1, AddsAllOnto
<1>3. Onto(r1.b, r2, {}) /\ Sound(r1.b)
  BY Zenon, <1>2, CommandOnto DEF Onto
<1>4. Onto(r2.b, r3, {}) /\ Sound(r2.b)
  BY Zenon, <1>3, CommandOnto DEF Onto
<1>5. r = r3 /\ r3.err = "none"
  BY Zenon, <1>2, <1>3, <1>4 DEF MakeObjList, Then, Onto
<1>6. Fits(r1.b) /\ Fits(r2.b)
  BY Zenon, <1>3, <1>4, <1>5, OntoFits
<1>x. r2.arg = ResultArg(n)
  BY Zenon, <1>3, <1>6, CommandAdds
<1> HIDE DEF r1
<1>7. PICK P : Registered(B, r1, ids, P)
  BY Zenon, <1>1, <1>6, AddCoins
<1>8. Wider(B, r1.b, P) /\ GasCoin \notin P /\ StockOf(r1.b, r1.arg, {"Object"}, P, Worth(ids)) /\ Live(r1.b)
  BY Zenon, <1>7 DEF Registered, Wider
<1>9. /\ Live(r2.b) /\ Grows(r1.b, r2.b) /\ Run(r2.b).got = Run(r1.b).got
      /\ Without(Run(r2.b).at, {new}) = Without(Run(r1.b).at, P)
      /\ Holds(r2.b, r2.arg, new, "Vector", Worth(ids))
  <2>1. InVector(r1.b, r2.b, P, r2.arg, new, Worth(ids))
    BY Zenon, <1>8, <1>x, VectorAll
  <2> QED BY Zenon, <2>1 DEF InVector
<1> HIDE DEF r2
<1>10. GasCoin \notin {new}
  BY Zenon DEF GasCoin, NestedResultArg
<1> HIDE DEF new
<1>11. StockOf(r2.b, <<r2.arg>>, {"Object", "Vector"}, {new}, Worth(ids))
  <2>1. Worth(ids) \in Nat
    BY Zenon, <1>8, StockOfNat
  <2> QED BY Zenon, <1>9, <2>1, StockOfOne
<1>12. Spends(r2.b, r3.b, {new}, account, Worth(ids))
  BY Zenon, <1>9, <1>10, <1>11, DepositAll
<1> HIDE DEF r3, account
<1>13. /\ Live(r3.b) /\ Grows(r2.b, r3.b) /\ Run(r3.b).at = Without(Run(r2.b).at, {new})
       /\ Run(r3.b).got = More(Run(r2.b).got, account, Worth(ids))
  BY Zenon, <1>12 DEF Spends
<1>14. Run(r3.b).at = Run(B).at
  BY Zenon, <1>8, <1>9, <1>13, WiderLost
<1>15. Run(r1.b).got = Run(B).got /\ Grows(B, r1.b)
  BY Zenon, <1>8 DEF Wider
<1>16. Grows(B, r3.b)
  <2>1. Grows(B, r2.b)
    BY Zenon, <1>8, <1>9, <1>15, GrowsOn DEF Live
  <2> QED BY Zenon, <1>9, <1>13, <2>1, GrowsOn DEF Live
<1>17. Delivers(B, r3.b, account, Worth(ids))
  BY Zenon, <1>9, <1>13, <1>14, <1>15, <1>16 DEF Delivers
<1> QED BY Zenon, <1>5, <1>17 DEF account

(* The whole gas coin: PayAllSui, and TransferSui without an amount. *)
LEMMA DoAllGas ==
  ASSUME NEW B, Live(B), GasCoin \in DOMAIN Run(B).at, NEW a \in Addresses,
         NEW r1, r1 = Pure(B, a), NEW r, r = Command(r1.b, TransferObjects(<<GasCoin>>, r1.arg)), Fits(r.b)
  PROVE  r.err = "none" /\ Spends(B, r.b, {GasCoin}, <<a, "coin">>, Run(B).at[GasCoin])
<1> DEFINE account == <<a, "coin">>
           x == Run(B).at[GasCoin]
<1>0. a \in PureValues /\ x \in Nat
  BY LiveShape DEF PureValues
<1>1. Onto(B, r1, {PureKey(a)}) /\ Sound(B)
  BY <1>0, PureOnto DEF Live
<1>2. Onto(r1.b, r, {}) /\ Sound(r1.b)
  BY <1>1, CommandOnto DEF Onto
<1>3. Fits(r1.b)
  BY <1>2, OntoFits
<1>4. Wider(B, r1.b, {}) /\ Run(r1.b) = Run(B) /\ HoldsPure(r1.b, r1.arg, a)
  BY <1>0, <1>3, AddPure
<1>5. Live(r1.b) /\ Grows(B, r1.b)
  BY <1>4 DEF Wider
<1>6. Holds(r1.b, GasCoin, GasCoin, "Object", x)
  BY <1>4, <1>5, HoldsGas
<1>7. Spends(r1.b, r.b, {GasCoin}, account, x)
  BY <1>0, <1>4, <1>5, <1>6, TransferOne DEF HoldsPure
<1> HIDE DEF account, x
<1>8. Live(r.b) /\ Grows(r1.b, r.b) /\ Run(r.b).at = Without(Run(r1.b).at, {GasCoin}) /\ Run(r.b).got = More(Run(r1.b).got, account, x)
  BY <1>7 DEF Spends
<1>9. Grows(B, r.b)
  BY <1>5, <1>8, GrowsOn DEF Live
<1>10. Spends(B, r.b, {GasCoin}, account, x)
  BY <1>4, <1>8, <1>9 DEF Spends
<1>11. r.err = "none"
  BY <1>2 DEF Onto
<1> QED BY <1>10, <1>11 DEF account, x

(* PayAllSui pays the whole gas coin. *)
LEMMA DoPayAllSui ==
  ASSUME NEW B, Live(B), GasCoin \in DOMAIN Run(B).at, NEW a \in Addresses, NEW r, r = PayAllSui(B, a), Fits(r.b)
  PROVE  r.err = "none" /\ Spends(B, r.b, {GasCoin}, <<a, "coin">>, Run(B).at[GasCoin])
<1> DEFINE r1 == Pure(B, a)
<1>1. r1.err = "none"
  BY PureOnto DEF PureValues, Live, Onto
<1>2. r = Command(r1.b, TransferObjects(<<GasCoin>>, r1.arg))
  BY <1>1 DEF PayAllSui, Then
<1> QED BY <1>2, DoAllGas

(* TransferSui without an amount pays the whole gas coin. *)
LEMMA DoTransferAllSui ==
  ASSUME NEW B, Live(B), GasCoin \in DOMAIN Run(B).at, NEW a \in Addresses, NEW r, r = TransferSui(B, a, NoAmount), Fits(r.b)
  PROVE  r.err = "none" /\ Spends(B, r.b, {GasCoin}, <<a, "coin">>, Run(B).at[GasCoin])
<1> DEFINE r1 == Pure(B, a)
<1>1. r1.err = "none"
  BY PureOnto DEF PureValues, Live, Onto
<1>2. r = Command(r1.b, TransferObjects(<<GasCoin>>, r1.arg))
  BY <1>1 DEF TransferSui, Then
<1> QED BY <1>2, DoAllGas

(* TransferSui of an amount. *)
LEMMA DoTransferSui ==
  ASSUME NEW B, Live(B), GasCoin \in DOMAIN Run(B).at, NEW a \in Addresses,
         NEW x \in Nat, x <= Run(B).at[GasCoin], NEW r, r = TransferSui(B, a, x), Fits(r.b)
  PROVE  r.err = "none" /\ Draws(B, r.b, GasCoin, x, <<a, "coin">>)
<1> DEFINE r1 == Pure(B, a)
           r2 == Pure(r1.b, x)
           r3 == Command(r2.b, SplitCoins(GasCoin, <<r2.arg>>))
           r4 == Command(r3.b, TransferObjects(<<r3.arg>>, r1.arg))
           account == <<a, "coin">>
           y == Run(B).at[GasCoin]
           n == Len(r2.b.commands)
           new == NestedResultArg(n, 0)
<1>0. a \in PureValues /\ x \in PureValues /\ y \in Nat /\ x # NoAmount
  BY LiveShape DEF PureValues, NoAmount
<1>1. Onto(B, r1, {PureKey(a)}) /\ Sound(B)
  BY <1>0, PureOnto DEF Live
<1>2. Onto(r1.b, r2, {PureKey(x)}) /\ Sound(r1.b)
  BY <1>0, <1>1, PureOnto DEF Onto
<1>3. Onto(r2.b, r3, {}) /\ Sound(r2.b)
  BY <1>2, CommandOnto DEF Onto
<1>4. Onto(r3.b, r4, {}) /\ Sound(r3.b)
  BY <1>3, CommandOnto DEF Onto
<1>5. r = r4 /\ r4.err = "none"
  BY Zenon, <1>0, <1>1, <1>2, <1>3, <1>4 DEF TransferSui, Then, Onto
<1>6. Fits(r1.b) /\ Fits(r2.b) /\ Fits(r3.b)
  BY <1>2, <1>3, <1>4, <1>5, OntoFits
<1>7. Wider(B, r1.b, {}) /\ Run(r1.b) = Run(B) /\ HoldsPure(r1.b, r1.arg, a)
  BY <1>0, <1>6, AddPure
<1>8. Wider(r1.b, r2.b, {}) /\ Run(r2.b) = Run(r1.b) /\ HoldsPure(r2.b, r2.arg, x)
  BY <1>0, <1>6, <1>7, AddPure DEF Wider
<1>9. Live(r1.b) /\ Grows(B, r1.b) /\ Live(r2.b) /\ Grows(r1.b, r2.b)
  BY <1>7, <1>8 DEF Wider
<1>10. Holds(r2.b, GasCoin, GasCoin, "Object", y)
  BY <1>7, <1>8, <1>9, HoldsGas
<1>11. r3.arg = ResultArg(n)
  BY <1>3, <1>6, CommandAdds
<1>12. SplitOff(r2.b, r3.b, GasCoin, GasCoin, "Object", y, x)
  BY <1>0, <1>8, <1>9, <1>10, LiveSplitOne DEF HoldsPure
<1>13. Splits(r2.b, r3.b, GasCoin, x, new) /\ Holds(r3.b, r3.arg, new, "Object", x)
  BY <1>11, <1>12 DEF SplitOff
<1>14. Live(r3.b) /\ Grows(r2.b, r3.b)
  BY Zenon, <1>13 DEF Splits
<1>15. HoldsPure(r3.b, r1.arg, a)
  <2>1. HoldsPure(r2.b, r1.arg, a)
    BY <1>2, <1>3, <1>7, <1>9, HoldsPureGrows
  <2> QED BY <1>3, <1>4, <1>14, <2>1, HoldsPureGrows
<1> HIDE DEF r1, r2, r3, new
<1>16. Spends(r3.b, r4.b, {new}, account, x)
  BY <1>13, <1>14, <1>15, TransferOne DEF HoldsPure
<1> HIDE DEF r4, account
<1>17. Draws(r2.b, r4.b, GasCoin, x, account)
  BY <1>9, <1>13, <1>16, SpendsSplit
<1>18. Live(r4.b) /\ Grows(r2.b, r4.b)
  BY <1>17 DEF Draws
<1>19. Grows(B, r4.b)
  <2>1. Grows(B, r2.b)
    BY <1>9, GrowsOn DEF Live
  <2> QED BY <1>9, <1>18, <2>1, GrowsOn DEF Live
<1>20. Draws(B, r4.b, GasCoin, x, account)
  BY <1>7, <1>8, <1>17, <1>19 DEF Draws
<1> QED BY <1>5, <1>20 DEF account

(* A new input at p keeps what is left of the coins of a call. *)
LeavesCoin(B, C, account, x) ==
  /\ Live(C) /\ Grows(B, C)
  /\ \E p \in Slots(C) \ DOMAIN Run(B).at :
       /\ DOMAIN Run(C).at = DOMAIN Run(B).at \cup {p}
       /\ \A s \in DOMAIN Run(B).at : Run(C).at[s] = Run(B).at[s]
  /\ Run(C).got = More(Run(B).got, account, x)

(* What is drawn from a new coin leaves the coin. *)
LEMMA DrawsGained ==
  ASSUME NEW B, Live(B), NEW C, NEW p, Wider(B, C, {p}), p \in Slots(C),
         NEW D, NEW account, NEW x, Draws(C, D, p, x, account)
  PROVE  LeavesCoin(B, D, account, x)
<1>1. Live(D) /\ Grows(C, D) /\ Run(D).at = Less(Run(C).at, p, x) /\ Run(D).got = More(Run(C).got, account, x)
  BY DEF Draws
<1>2. /\ Live(C) /\ Grows(B, C) /\ Run(C).got = Run(B).got
      /\ DOMAIN Run(C).at = DOMAIN Run(B).at \cup {p} /\ p \notin DOMAIN Run(B).at
      /\ \A s \in DOMAIN Run(B).at : Run(C).at[s] = Run(B).at[s]
  BY DEF Wider
<1>3. Grows(B, D)
  BY <1>1, <1>2, GrowsOn DEF Live
<1>4. p \in Slots(D)
  BY <1>1, <1>2, ArgsGrow DEF Live
<1>5. /\ DOMAIN Run(D).at = DOMAIN Run(B).at \cup {p}
      /\ \A s \in DOMAIN Run(B).at : Run(D).at[s] = Run(B).at[s]
  BY <1>1, <1>2 DEF Less
<1> QED BY <1>1, <1>2, <1>3, <1>4, <1>5 DEF LeavesCoin

(* The first coin and the others. *)
LEMMA HeadUnused ==
  ASSUME NEW B, NEW ids, Unused(B, ids), ids # <<>>
  PROVE  /\ Head(ids) \in DOMAIN CoinBalance /\ ObjectKey(Head(ids)) \notin DOMAIN B.inputs
         /\ Worth(ids) = CoinBalance[Head(ids)] + Worth(Tail(ids))
         /\ CoinBalance[Head(ids)] \in Nat /\ Worth(Tail(ids)) \in Nat /\ Worth(ids) \in Nat
<1>1. ids \in Seq(DOMAIN CoinBalance) /\ Len(ids) > 0 /\ 1 \in 1..Len(ids) /\ Head(ids) = ids[1]
  BY DEF Unused
<1>2. Head(ids) \in DOMAIN CoinBalance /\ ObjectKey(Head(ids)) \notin DOMAIN B.inputs
  BY <1>1 DEF Unused
<1>3. CoinBalance[Head(ids)] \in Nat
  BY <1>2, TransferAssumptions
<1>4. Tail(ids) \in Seq(DOMAIN CoinBalance) /\ Len(Tail(ids)) = Len(ids) - 1 /\ \A i \in 1..(Len(ids) - 1) : Tail(ids)[i] = ids[i + 1]
  BY <1>1
<1> DEFINE v == Values(ids)
           t == Values(Tail(ids))
<1>5. v \in Seq(Nat) /\ Len(v) = Len(ids) /\ Worth(ids) = Total(v) /\ Worth(ids) \in Nat
  BY <1>1, ValuesNat
<1>6. t \in Seq(Nat) /\ Len(t) = Len(ids) - 1 /\ Worth(Tail(ids)) = Total(t) /\ Worth(Tail(ids)) \in Nat
  BY Zenon, <1>4, ValuesNat
<1>7. \A i \in 1..Len(ids) : v[i] = CoinBalance[ids[i]]
  BY <1>1 DEF Values
<1>8. \A i \in 1..(Len(ids) - 1) : t[i] = CoinBalance[ids[i + 1]]
  BY <1>4 DEF Values
<1> HIDE DEF v, t
<1>9. Tail(v) = t
  <2>1. Tail(v) \in Seq(Nat) /\ Len(Tail(v)) = Len(ids) - 1 /\ \A i \in 1..(Len(ids) - 1) : Tail(v)[i] = v[i + 1]
    BY <1>1, <1>5
  <2>2. \A i \in 1..(Len(ids) - 1) : Tail(v)[i] = t[i]
    BY <1>1, <1>7, <1>8, <2>1
  <2> QED BY <1>6, <2>1, <2>2, SeqEqual
<1>10. v # <<>> /\ Head(v) = CoinBalance[Head(ids)]
  BY <1>1, <1>5, <1>7
<1>11. Total(v) = Head(v) + Total(Tail(v))
  BY <1>5, <1>10, TotalHead
<1> QED BY <1>2, <1>3, <1>5, <1>6, <1>9, <1>10, <1>11

(* The other coins are not in use once the first is registered. *)
LEMMA TailUnused ==
  ASSUME NEW B, NEW ids, Unused(B, ids), ids # <<>>, NEW r, Onto(B, r, {ObjectKey(Head(ids))})
  PROVE  Unused(r.b, Tail(ids))
<1>1. ids \in Seq(DOMAIN CoinBalance) /\ Len(ids) > 0 /\ Head(ids) = ids[1] /\ Len(ids) \in Nat
  BY DEF Unused
<1>2. Tail(ids) \in Seq(DOMAIN CoinBalance) /\ Len(Tail(ids)) = Len(ids) - 1 /\ \A i \in 1..(Len(ids) - 1) : Tail(ids)[i] = ids[i + 1]
  BY <1>1
<1>3. \A i \in 1..(Len(ids) - 1) : i + 1 \in 1..Len(ids) /\ i + 1 # 1 /\ 1 \in 1..Len(ids)
  BY <1>1
<1>4. \A i, j \in 1..Len(ids) : ids[i] = ids[j] => i = j
  BY DEF Unused
<1>5. \A i \in 1..Len(ids) : ObjectKey(ids[i]) \notin DOMAIN B.inputs
  BY DEF Unused
<1>6. DOMAIN r.b.inputs = DOMAIN B.inputs \cup {ObjectKey(Head(ids))}
  BY DEF Onto
<1>7. ASSUME NEW i \in 1..Len(Tail(ids)) PROVE ObjectKey(Tail(ids)[i]) \notin DOMAIN r.b.inputs
  <2>1. Tail(ids)[i] = ids[i + 1] /\ i + 1 \in 1..Len(ids) /\ i + 1 # 1 /\ 1 \in 1..Len(ids)
    BY <1>2, <1>3
  <2>2. ids[i + 1] # Head(ids)
    BY <1>1, <1>4, <2>1
  <2>3. ObjectKey(Tail(ids)[i]) # ObjectKey(Head(ids))
    BY <2>1, <2>2 DEF ObjectKey
  <2> QED BY <1>5, <1>6, <2>1, <2>3
<1>8. ASSUME NEW i \in 1..Len(Tail(ids)), NEW j \in 1..Len(Tail(ids)), Tail(ids)[i] = Tail(ids)[j] PROVE i = j
  <2>1. Tail(ids)[i] = ids[i + 1] /\ i + 1 \in 1..Len(ids) /\ Tail(ids)[j] = ids[j + 1] /\ j + 1 \in 1..Len(ids)
    BY <1>2, <1>3
  <2>2. i + 1 = j + 1
    BY <1>4, <1>8, <2>1
  <2> QED BY <1>2, <2>2
<1> QED BY <1>2, <1>7, <1>8 DEF Unused

-----------------------------------------------------------------------------
(* A WithdrawalTransfer that is rejected leaves the builder alone. *)
LEMMA WithdrawalRejected ==
  ASSUME NEW B, Sound(B), NEW ids, Unused(B, ids), NEW a \in Addresses, NEW x \in Nat, NEW w \in Nat,
         NEW r, r = WithdrawalTransfer(B, a, ids, x, w)
  PROVE  r.err # "none" => r.b = B
<1>1. CASE w = 0
  BY <1>1 DEF WithdrawalTransfer, Outcome
<1>2. CASE w # 0 /\ ids = <<>> /\ w # x
  BY <1>2 DEF WithdrawalTransfer, Outcome
<1> DEFINE r1 == Pure(B, a)
<1>3. Onto(B, r1, {PureKey(a)})
  BY PureOnto DEF PureValues
<1>4. Sound(r1.b) /\ r1.err = "none"
  BY <1>3 DEF Onto
<1> HIDE DEF r1
<1>5. CASE w # 0 /\ ids = <<>> /\ w = x
  <2> DEFINE r2 == RedeemFunds(r1.b, "coin::redeem_funds", w)
             r3 == Command(r2.b, TransferObjects(<<r2.arg>>, r1.arg))
  <2>1. r2.err = "none" /\ Sound(r2.b)
    BY <1>4, RedeemOnto DEF Onto
  <2>2. r3.err = "none"
    BY <2>1, CommandOnto DEF Onto
  <2>3. r = r3
    BY <1>4, <1>5, <2>1 DEF WithdrawalTransfer, Then, r1
  <2> QED BY <2>2, <2>3
<1>6. CASE w # 0 /\ ids # <<>>
  <2> DEFINE r2 == Pure(r1.b, x)
             r3 == RedeemFunds(r2.b, "coin::redeem_funds", w)
             r4 == Obj(r3.b, OwnedObject(Head(ids)))
             r5 == Objs(r4.b, Tail(ids))
             r6 == Command(r5.b, MergeCoins(r4.arg, Append(r5.arg, r3.arg)))
             r7 == SplitCoinAmount(r6.b, r4.arg, r2.arg)
             r8 == Command(r7.b, TransferObjects(<<r7.arg>>, r1.arg))
  <2>1. Unused(r1.b, ids)
    BY <1>3, UnusedOnto
  <2>2. Onto(r1.b, r2, {PureKey(x)}) /\ r2.err = "none"
    BY <1>4, PureOnto DEF PureValues, Onto
  <2>3. Unused(r2.b, ids) /\ Sound(r2.b)
    BY <2>1, <2>2, UnusedOnto
  <2>4. Onto(r2.b, r3, {ForcedKey(Len(r2.b.order))})
    BY <2>3, RedeemOnto
  <2>5. Unused(r3.b, ids) /\ Sound(r3.b) /\ r3.err = "none"
    <3>1. Unused(r3.b, ids) /\ Sound(r3.b)
      BY <2>3, <2>4, UnusedForced
    <3> QED BY <2>4, <3>1 DEF Onto
  <2>6. Onto(r3.b, r4, {ObjectKey(Head(ids))}) /\ r4.err = "none"
    BY <1>6, <2>5, HeadUnused, ObjOnto DEF Onto
  <2>7. Unused(r4.b, Tail(ids)) /\ Sound(r4.b)
    BY <1>6, <2>5, <2>6, TailUnused DEF Onto
  <2>8. r5.err = "none" /\ Sound(r5.b)
    BY <2>7, ObjsOnto DEF Onto
  <2>9. r6.err = "none" /\ Sound(r6.b)
    BY <2>8, CommandOnto DEF Onto
  <2>10. r7.err = "none" /\ Sound(r7.b)
    <3>1. Onto(r6.b, r7, {})
      BY Zenon, <2>9, SplitOnto
    <3> QED BY Zenon, <3>1 DEF Onto
  <2>11. r8.err = "none"
    BY Zenon, <2>10, CommandOnto DEF Onto
  <2>12. r = r8
    BY Zenon, <1>4, <1>6, <2>2, <2>5, <2>6, <2>8, <2>9, <2>10 DEF WithdrawalTransfer, Then, r1
  <2> QED BY Zenon, <2>11, <2>12
<1> QED BY <1>1, <1>2, <1>5, <1>6

(* RedeemFunds to a coin places the amount in a new result. *)
LEMMA RedeemCoin ==
  ASSUME NEW B, Live(B), NEW w \in Nat, NEW r, r = RedeemFunds(B, "coin::redeem_funds", w), Fits(r.b)
  PROVE  \E p : Redeemed(B, r, p, "Object", w)
<1> DEFINE f == "coin::redeem_funds"
           type == "Object"
<1>1. f \in {"coin::redeem_funds", "balance::redeem_funds"}
  OBVIOUS
<1>2. type = IF f = "balance::redeem_funds" THEN "Balance" ELSE "Object"
  OBVIOUS
<1> HIDE DEF f, type
<1>3. r = RedeemFunds(B, f, w)
  BY DEF f
<1>4. \E p : Redeemed(B, r, p, type, w)
  BY <1>1, <1>2, <1>3, LiveRedeem
<1> QED BY <1>4 DEF type

(* RedeemFunds to a balance does too. *)
LEMMA RedeemBalance ==
  ASSUME NEW B, Live(B), NEW w \in Nat, NEW r, r = RedeemFunds(B, "balance::redeem_funds", w), Fits(r.b)
  PROVE  \E p : Redeemed(B, r, p, "Balance", w)
<1> DEFINE f == "balance::redeem_funds"
           type == "Balance"
<1>1. f \in {"coin::redeem_funds", "balance::redeem_funds"}
  OBVIOUS
<1>2. type = IF f = "balance::redeem_funds" THEN "Balance" ELSE "Object"
  OBVIOUS
<1> HIDE DEF f, type
<1>3. r = RedeemFunds(B, f, w)
  BY DEF f
<1>4. \E p : Redeemed(B, r, p, type, w)
  BY <1>1, <1>2, <1>3, LiveRedeem
<1> QED BY <1>4 DEF type

(* The piece that SplitCoinAmount answers. *)
SplitTo(B, r, source, amtArg) ==
  /\ Onto(B, r, {}) /\ r.b = Command(B, SplitCoins(source, <<amtArg>>)).b
  /\ Fits(r.b) => r.arg = NestedResultArg(Len(B.commands), 0)

(* SplitCoinAmount answers the piece that its command splits off. *)
LEMMA SplitGives ==
  ASSUME NEW B, Sound(B), NEW source, NEW amtArg, NEW r, r = SplitCoinAmount(B, source, amtArg)
  PROVE  SplitTo(B, r, source, amtArg)
BY SplitOnto DEF SplitTo

(* A WithdrawalTransfer without coins redeems what it pays. *)
LEMMA DoWithdrawal ==
  ASSUME NEW B, Live(B), NEW a \in Addresses, NEW w \in Nat \ {0},
         NEW r, r = WithdrawalTransfer(B, a, <<>>, w, w), Fits(r.b)
  PROVE  r.err = "none" /\ Delivers(B, r.b, <<a, "coin">>, w)
<1> DEFINE r1 == Pure(B, a)
           r2 == RedeemFunds(r1.b, "coin::redeem_funds", w)
           r3 == Command(r2.b, TransferObjects(<<r2.arg>>, r1.arg))
           account == <<a, "coin">>
<1>0. a \in PureValues /\ w \in Nat
  BY DEF PureValues
<1>1. Onto(B, r1, {PureKey(a)}) /\ Sound(B)
  BY <1>0, PureOnto DEF Live
<1>2. Onto(r1.b, r2, {ForcedKey(Len(r1.b.order))}) /\ Sound(r1.b)
  BY <1>0, <1>1, RedeemOnto DEF Onto
<1>3. Onto(r2.b, r3, {}) /\ Sound(r2.b)
  BY <1>2, CommandOnto DEF Onto
<1>4. r1.err = "none" /\ r2.err = "none" /\ r3.err = "none"
  BY <1>1, <1>2, <1>3 DEF Onto
<1>5. r = r3
  BY <1>0, <1>4 DEF WithdrawalTransfer, Then
<1>6. Fits(r1.b) /\ Fits(r2.b)
  BY <1>2, <1>3, <1>5, OntoFits
<1>7. Wider(B, r1.b, {}) /\ Run(r1.b) = Run(B) /\ HoldsPure(r1.b, r1.arg, a)
  BY <1>0, <1>6, AddPure
<1>8. Live(r1.b)
  BY <1>7 DEF Wider
<1>9. PICK p : Redeemed(r1.b, r2, p, "Object", w)
  BY <1>0, <1>6, <1>8, RedeemCoin
<1>10. Live(r2.b) /\ Grows(r1.b, r2.b) /\ Wider(r1.b, r2.b, {p}) /\ Holds(r2.b, r2.arg, p, "Object", w)
  BY <1>9 DEF Wider, Redeemed
<1>11. HoldsPure(r2.b, r1.arg, a)
  BY <1>2, <1>3, <1>7, <1>10, HoldsPureGrows
<1> HIDE DEF r1, r2
<1>12. Spends(r2.b, r3.b, {p}, account, w)
  BY <1>0, <1>10, <1>11, TransferOne DEF HoldsPure
<1> HIDE DEF r3, account
<1>13. Wider(B, r2.b, {} \cup {p})
  BY <1>7, <1>10, WiderOn
<1>14. {} \cup {p} = {p}
  OBVIOUS
<1>15. Delivers(B, r3.b, account, w)
  BY <1>12, <1>13, <1>14, SpendsGained
<1> QED BY <1>4, <1>5, <1>15 DEF account

(* A place of a result is no input and not the gas coin. *)
LEMMA NestedIs ==
  ASSUME NEW p, p[1] = "NestedResult"
  PROVE  p # GasCoin /\ \A B : p \notin Slots(B)
<1>1. p # GasCoin
  BY DEF GasCoin
<1>2. \A B : p \notin Slots(B)
  BY SlotTag DEF Slots
<1> QED BY <1>1, <1>2

(* With coins: they and the redeemed coin are merged into the first, which  *)
(* keeps what is not paid.                                                  *)
LEMMA DoWithdrawalCoins ==
  ASSUME NEW B, Live(B), NEW ids, Unused(B, ids), ids # <<>>, NEW a \in Addresses, NEW x \in Nat, NEW w \in Nat \ {0},
         x <= Worth(ids) + w,
         NEW r, r = WithdrawalTransfer(B, a, ids, x, w), Fits(r.b)
  PROVE  LeavesCoin(B, r.b, <<a, "coin">>, x)
<1> DEFINE r1 == Pure(B, a)
           r2 == Pure(r1.b, x)
           r3 == RedeemFunds(r2.b, "coin::redeem_funds", w)
           r4 == Obj(r3.b, OwnedObject(Head(ids)))
           r5 == Objs(r4.b, Tail(ids))
           all == Append(r5.arg, r3.arg)
           r6 == Command(r5.b, MergeCoins(r4.arg, all))
           r7 == SplitCoinAmount(r6.b, r4.arg, r2.arg)
           r8 == Command(r7.b, TransferObjects(<<r7.arg>>, r1.arg))
           account == <<a, "coin">>
           first == CoinBalance[Head(ids)]
           others == Worth(Tail(ids))
<1>0. a \in PureValues /\ x \in PureValues /\ w \in Nat /\ Sound(B)
  BY DEF PureValues, Live
<1>1. Onto(B, r1, {PureKey(a)}) /\ Sound(r1.b) /\ Unused(r1.b, ids)
  BY <1>0, PureOnto, UnusedOnto
<1>2. Onto(r1.b, r2, {PureKey(x)}) /\ Sound(r2.b) /\ Unused(r2.b, ids)
  BY <1>0, <1>1, PureOnto, UnusedOnto
<1>3. Onto(r2.b, r3, {ForcedKey(Len(r2.b.order))}) /\ Sound(r3.b) /\ Unused(r3.b, ids)
  <2>1. Onto(r2.b, r3, {ForcedKey(Len(r2.b.order))})
    BY <1>0, <1>2, RedeemOnto
  <2> DEFINE n == Len(r2.b.order)
  <2> HIDE DEF r1, r2, r3, n
  <2>2. Onto(r2.b, r3, {ForcedKey(n)})
    BY <2>1 DEF n
  <2> QED BY <1>2, <2>1, <2>2, UnusedForced
<1>4. Onto(r3.b, r4, {ObjectKey(Head(ids))}) /\ Sound(r4.b) /\ Unused(r4.b, Tail(ids))
  <2>1. Onto(r3.b, r4, {ObjectKey(Head(ids))})
    BY <1>3, HeadUnused, ObjOnto
  <2>2. Sound(r4.b)
    BY <2>1 DEF Onto
  <2> QED BY <1>3, <2>1, <2>2, TailUnused
<1>5. Onto(r4.b, r5, CoinKeys(Tail(ids))) /\ Sound(r5.b)
  BY Zenon, <1>4, ObjsOnto DEF Onto
<1>6. Onto(r5.b, r6, {}) /\ Sound(r6.b)
  BY Zenon, <1>5, CommandOnto DEF Onto
<1>7. /\ Onto(r6.b, r7, {}) /\ r7.b = Command(r6.b, SplitCoins(r4.arg, <<r2.arg>>)).b
      /\ Fits(r7.b) => r7.arg = NestedResultArg(Len(r6.b.commands), 0)
  <2> HIDE DEF r6, r4, r2
  <2>1. SplitTo(r6.b, r7, r4.arg, r2.arg)
    BY <1>6, SplitGives
  <2> QED BY <2>1 DEF SplitTo
<1>8. Onto(r7.b, r8, {}) /\ Sound(r7.b)
  BY Zenon, <1>7, CommandOnto DEF Onto
<1>9. /\ r1.err = "none" /\ r2.err = "none" /\ r3.err = "none" /\ r4.err = "none"
      /\ r5.err = "none" /\ r6.err = "none" /\ r7.err = "none"
  BY Zenon, <1>1, <1>2, <1>3, <1>4, <1>5, <1>6, <1>7 DEF Onto
<1>10. r = r8
  BY Zenon, <1>0, <1>9 DEF WithdrawalTransfer, Then
<1>11. Fits(r7.b) /\ Fits(r6.b) /\ Fits(r5.b)
  BY Zenon, <1>5, <1>6, <1>7, <1>8, <1>10, OntoFits
<1>12. Fits(r4.b) /\ Fits(r3.b) /\ Fits(r2.b) /\ Fits(r1.b)
  BY Zenon, <1>1, <1>2, <1>3, <1>4, <1>5, <1>11, OntoFits
<1>13. Wider(B, r1.b, {}) /\ Run(r1.b) = Run(B) /\ HoldsPure(r1.b, r1.arg, a)
  BY <1>0, <1>12, AddPure
<1>14. Wider(r1.b, r2.b, {}) /\ Run(r2.b) = Run(r1.b) /\ HoldsPure(r2.b, r2.arg, x)
  BY <1>0, <1>12, <1>13, AddPure DEF Wider
<1>15. Live(r1.b) /\ Live(r2.b) /\ Grows(r1.b, r2.b)
  BY <1>13, <1>14 DEF Wider
<1>16. PICK n : Redeemed(r2.b, r3, n, "Object", w)
  BY <1>0, <1>12, <1>15, RedeemCoin
<1>17. Live(r3.b) /\ Wider(r2.b, r3.b, {n}) /\ Holds(r3.b, r3.arg, n, "Object", w) /\ n[1] = "NestedResult"
  BY <1>16 DEF Wider, Redeemed
<1>18. PICK p : Wider(r3.b, r4.b, {p}) /\ Holds(r4.b, r4.arg, p, "Object", first) /\ p \in Slots(r4.b)
  BY Zenon, <1>3, <1>12, <1>17, HeadUnused, AddObj
<1>19. Live(r4.b)
  BY Zenon, <1>18 DEF Wider
<1>20. PICK Q : Registered(r4.b, r5, Tail(ids), Q)
  BY Zenon, <1>4, <1>11, <1>19, AddObjs
<1>21. Wider(r4.b, r5.b, Q) /\ GasCoin \notin Q /\ StockOf(r5.b, r5.arg, {"Object"}, Q, others)
  BY Zenon, <1>20 DEF Registered
<1>22. Live(r5.b) /\ Grows(r4.b, r5.b)
  BY Zenon, <1>21 DEF Wider
<1>23. first \in Nat /\ others \in Nat /\ Worth(ids) = first + others
  BY HeadUnused
<1> HIDE DEF r1, r2, r3, r4, r5, first, others, account
<1>24. Holds(r5.b, r3.arg, n, "Object", w) /\ Holds(r5.b, r4.arg, p, "Object", first)
  <2>1. Holds(r4.b, r3.arg, n, "Object", w)
    BY <1>17, <1>18, WiderHolds
  <2> QED BY <1>18, <1>19, <1>21, <2>1, WiderHolds
<1>25. n # p /\ n \notin Q /\ p \notin Q
  <2>1. n \in DOMAIN Run(r3.b).at /\ n \in DOMAIN Run(r4.b).at /\ p \in DOMAIN Run(r4.b).at
    BY <1>17, <1>18 DEF Wider
  <2> QED BY <1>18, <1>21, <2>1 DEF Wider
<1>26. StockOf(r5.b, all, {"Object"}, Q \cup {n}, others + w)
  BY <1>0, <1>21, <1>24, <1>25, StockOfAppend
<1> DEFINE U == {n} \cup ({p} \cup Q)
<1>27. Wider(r2.b, r5.b, U)
  <2>1. Wider(r3.b, r5.b, {p} \cup Q)
    BY <1>17, <1>18, <1>21, WiderOn
  <2> QED BY <1>15, <1>17, <2>1, WiderOn
<1>28. U \ {p} = Q \cup {n} /\ p \in U
  BY <1>25
<1>29. GasCoin \notin U
  <2>1. p # GasCoin
    BY <1>18, SlotTag DEF Slots
  <2> QED BY <1>17, <1>21, <2>1, NestedIs
<1> HIDE DEF U, all
<1>30. Wider(r2.b, r6.b, {p}) /\ Holds(r6.b, r4.arg, p, "Object", first + (others + w))
  BY <1>15, <1>23, <1>24, <1>26, <1>27, <1>28, <1>29, MergeAll
<1>31. Live(r6.b) /\ Grows(r2.b, r6.b)
  BY <1>30 DEF Wider
<1>32. HoldsPure(r6.b, r2.arg, x) /\ HoldsPure(r6.b, r1.arg, a)
  <2>1. HoldsPure(r2.b, r1.arg, a)
    BY <1>1, <1>2, <1>13, <1>15, HoldsPureGrows
  <2> QED BY <1>2, <1>6, <1>14, <1>31, <2>1, HoldsPureGrows
<1> DEFINE y == first + (others + w)
           new == NestedResultArg(Len(r6.b.commands), 0)
<1>33. y \in Nat /\ x <= y
  BY <1>0, <1>23
<1> HIDE DEF y, r6
<1>34. SplitOff(r6.b, r7.b, r4.arg, p, "Object", y, x)
  BY <1>7, <1>30, <1>31, <1>32, <1>33, LiveSplitOne DEF HoldsPure, y
<1>35. Splits(r6.b, r7.b, p, x, new) /\ Holds(r7.b, r7.arg, new, "Object", x)
  BY <1>7, <1>11, <1>34 DEF SplitOff
<1>36. Live(r7.b) /\ Grows(r6.b, r7.b)
  BY <1>35 DEF Splits
<1>37. HoldsPure(r7.b, r1.arg, a)
  BY <1>6, <1>8, <1>32, <1>36, HoldsPureGrows
<1> HIDE DEF r7, new
<1>38. Spends(r7.b, r8.b, {new}, account, x)
  BY <1>35, <1>36, <1>37, TransferOne DEF HoldsPure, account
<1> HIDE DEF r8
<1>39. Draws(r6.b, r8.b, p, x, account)
  BY <1>31, <1>35, <1>38, SpendsSplit
<1>40. p \in Slots(r6.b)
  <2>1. p \in Slots(r5.b)
    BY <1>4, <1>5, <1>18, <1>22, ArgsGrow
  <2>2. Grows(r5.b, r6.b)
    BY <1>6 DEF Onto
  <2> QED BY <1>5, <1>6, <2>1, <2>2, ArgsGrow
<1>41. LeavesCoin(r2.b, r8.b, account, x)
  BY <1>15, <1>30, <1>39, <1>40, DrawsGained
<1>42. Grows(B, r2.b)
  BY <1>0, <1>1, <1>2, GrowsOn DEF Onto
<1>43. Grows(B, r8.b)
  BY <1>0, <1>2, <1>41, <1>42, GrowsOn DEF LeavesCoin, Live
<1>44. LeavesCoin(B, r8.b, account, x)
  BY <1>13, <1>14, <1>41, <1>43 DEF LeavesCoin
<1> QED BY <1>10, <1>44 DEF account

(***************************************************************************)
(* GaslessTransfer.                                                        *)
(***************************************************************************)
(* Its parts, whatever the builder's commands do. *)
LEMMA MergeGaslessOnto ==
  ASSUME NEW B, Sound(B), NEW ids, Unused(B, ids), NEW w \in Nat, NEW r, r = MergeGaslessCoins(B, ids, w)
  PROVE  \E K : Onto(B, r, K)
<1> DEFINE r1 == Objs(B, ids)
           r2 == RedeemFunds(r1.b, "coin::redeem_funds", w)
           b2 == IF w > 0 THEN r2.b ELSE r1.b
           all == IF w > 0 THEN Append(r1.arg, r2.arg) ELSE r1.arg
           merge == Command(b2, MergeCoins(all[1], Tail(all)))
           b3 == IF Len(all) > 1 THEN merge.b ELSE b2
<1>1. Onto(B, r1, CoinKeys(ids)) /\ r1.err = "none" /\ Sound(r1.b)
  BY ObjsOnto DEF Onto
<1>2. r = Outcome(b3, all[1], "none")
  BY <1>1 DEF MergeGaslessCoins, Then
<1>3. r.b = b3 /\ r.err = "none"
  BY <1>2 DEF Outcome
<1>4. Onto(r1.b, r2, {ForcedKey(Len(r1.b.order))})
  BY <1>1, RedeemOnto
<1> HIDE DEF r1, r2
<1>5. PICK K : Sound(b2) /\ Grows(B, b2) /\ DOMAIN b2.inputs = DOMAIN B.inputs \cup K
  <2>1. CASE w > 0
    <3>1. Onto(B, r2, CoinKeys(ids) \cup {ForcedKey(Len(r1.b.order))})
      BY <1>1, <1>4, OntoOn
    <3> QED BY <2>1, <3>1 DEF Onto
  <2>2. CASE ~ w > 0
    BY <1>1, <2>2 DEF Onto
  <2> QED BY <2>1, <2>2
<1> HIDE DEF b2, all
<1>6. Onto(b2, merge, {})
  BY <1>5, CommandOnto
<1>7. Sound(b3) /\ Grows(B, b3) /\ DOMAIN b3.inputs = DOMAIN B.inputs \cup K
  <2>1. CASE Len(all) > 1
    <3>1. Sound(merge.b) /\ Grows(b2, merge.b) /\ DOMAIN merge.b.inputs = DOMAIN b2.inputs
      BY <1>6 DEF Onto
    <3>2. Grows(B, merge.b)
      BY <1>5, <3>1, GrowsOn
    <3> QED BY <1>5, <2>1, <3>1, <3>2
  <2>2. CASE ~ Len(all) > 1
    BY <1>5, <2>2
  <2> QED BY <2>1, <2>2
<1> QED BY <1>3, <1>7 DEF Onto

(* A GaslessTransfer that is rejected leaves the builder alone. *)
LEMMA GaslessRejected ==
  ASSUME NEW B, Sound(B), NEW ids, Unused(B, ids), NEW s \in Addresses, NEW a \in Addresses,
         NEW x \in Nat, NEW w \in Nat, NEW r, r = GaslessTransfer(B, s, a, ids, x, w)
  PROVE  r.err # "none" => r.b = B
<1>1. CASE x = 0
  BY <1>1 DEF GaslessTransfer, Outcome
<1>2. CASE x # 0 /\ ids = <<>> /\ w # x
  BY <1>2 DEF GaslessTransfer, GaslessTransferFromBalance, Outcome
<1>3. CASE x # 0 /\ ids = <<>> /\ w = x
  <2> DEFINE r1 == RedeemFunds(B, "balance::redeem_funds", w)
             r2 == SendFunds(r1.b, "balance::send_funds", r1.arg, a)
  <2>1. r1.err = "none" /\ Sound(r1.b)
    BY RedeemOnto DEF Onto
  <2>2. r2.err = "none"
    BY <2>1, SendOnto DEF Onto
  <2>3. r = r2
    BY <1>3, <2>1 DEF GaslessTransfer, GaslessTransferFromBalance, BalanceSendFunds, Then
  <2> QED BY <2>2, <2>3
<1>4. CASE x # 0 /\ ids # <<>>
  <2> DEFINE r1 == MergeGaslessCoins(B, ids, w)
             r2 == Pure(r1.b, x)
             r3 == SplitCoinAmount(r2.b, r1.arg, r2.arg)
             r4 == SendFunds(r3.b, "coin::send_funds", r3.arg, a)
             r5 == SendFunds(r4.b, "coin::send_funds", r1.arg, s)
  <2>1. r1.err = "none" /\ Sound(r1.b)
    BY MergeGaslessOnto DEF Onto
  <2>2. r2.err = "none" /\ Sound(r2.b)
    BY <2>1, PureOnto DEF Onto, PureValues
  <2>3. r3.err = "none" /\ Sound(r3.b)
    <3>1. Onto(r2.b, r3, {})
      BY <2>2, SplitOnto
    <3> QED BY <3>1 DEF Onto
  <2>4. r4.err = "none" /\ Sound(r4.b)
    BY <2>3, SendOnto DEF Onto
  <2>5. r5.err = "none"
    BY <2>4, SendOnto DEF Onto
  <2>6. r = r5
    BY <1>4, <2>1, <2>2, <2>3, <2>4 DEF GaslessTransfer, GaslessTransferFromCoins, CoinSendFunds, Then
  <2> QED BY Zenon, <2>5, <2>6
<1> QED BY <1>1, <1>2, <1>3, <1>4

(* No Arguments are worth nothing. *)
LEMMA StockOfEmpty ==
  ASSUME NEW B, NEW args, NEW types, NEW P, NEW v, StockOf(B, args, types, P, v), Len(args) = 0
  PROVE  P = {} /\ v = 0
<1>1. PICK q, am : Stock(B, args, types, q, am) /\ Spots(q, Len(args)) = P /\ Total(am) = v
  BY DEF StockOf
<1>2. am \in Seq(Nat) /\ Len(am) = 0
  BY <1>1 DEF Stock
<1>3. am = <<>>
  BY <1>2
<1>4. Spots(q, 0) = {}
  BY DEF Spots
<1> QED BY <1>1, <1>3, <1>4, TotalEmpty

(* The Arguments of a stock are a sequence. *)
LEMMA StockOfSeq ==
  ASSUME NEW B, NEW args, NEW types, NEW P, NEW v, StockOf(B, args, types, P, v)
  PROVE  IsSeq(args)
<1>1. PICK q, am : Stock(B, args, types, q, am)
  BY DEF StockOf
<1> QED BY <1>1 DEF Stock

(* Lengths of an appended and of a shortened sequence. *)
LEMMA SeqLens ==
  ASSUME NEW s, IsSeq(s), NEW x
  PROVE  Len(Append(s, x)) = Len(s) + 1 /\ Len(s) \in Nat /\ (Len(s) > 0 => Len(Tail(s)) = Len(s) - 1)
<1> DEFINE S == {s[i] : i \in DOMAIN s}
           T == S \cup {x}
<1>1. s \in Seq(S)
  BY DEF IsSeq
<1> HIDE DEF S
<1>2. s \in Seq(T) /\ x \in T
  BY <1>1
<1> HIDE DEF T
<1> QED BY <1>2

(* Several coins, or one, as one coin: all is merged into its first. *)
OneCoin(A, C, arg, p, v) == Wider(A, C, {p}) /\ Holds(C, arg, p, "Object", v) /\ p # GasCoin

(* Coins of a stock are merged into the first, unless there is only one. *)
LEMMA MergeInto ==
  ASSUME NEW A, Live(A), NEW B, NEW Q, Wider(A, B, Q), GasCoin \notin Q,
         NEW all, NEW v, StockOf(B, all, {"Object"}, Q, v), Len(all) > 0,
         NEW C, C = IF Len(all) > 1 THEN Command(B, MergeCoins(all[1], Tail(all))).b ELSE B
  PROVE  \E p : OneCoin(A, C, all[1], p, v)
<1>1. PICK p \in Q, x \in Nat : Holds(B, all[1], p, "Object", x) /\ StockOf(B, Tail(all), {"Object"}, Q \ {p}, v - x)
  BY StockOfHead
<1>2. p # GasCoin /\ v \in Nat /\ Len(all) \in Nat
  BY StockOfNat
<1>3. CASE Len(all) > 1
  <2>1. C = Command(B, MergeCoins(all[1], Tail(all))).b
    BY <1>3
  <2> DEFINE into == all[1]
             args == Tail(all)
  <2>2. Holds(B, into, p, "Object", x) /\ StockOf(B, args, {"Object"}, Q \ {p}, v - x) /\ C = Command(B, MergeCoins(into, args)).b
    BY <1>1, <2>1
  <2> HIDE DEF into, args
  <2>3. Wider(A, C, {p}) /\ Holds(C, into, p, "Object", x + (v - x))
    BY <1>1, <2>2, MergeAll
  <2>4. x + (v - x) = v
    BY <1>2
  <2> QED BY <1>2, <2>3, <2>4 DEF OneCoin, into
<1>4. CASE Len(all) = 1
  <2>1. IsSeq(all)
    BY StockOfSeq
  <2>2. Len(Tail(all)) = 0
    BY <1>4, <2>1, SeqLens
  <2>3. Q \ {p} = {} /\ v - x = 0
    <3> DEFINE args == Tail(all)
               P == Q \ {p}
               u == v - x
    <3>1. StockOf(B, args, {"Object"}, P, u) /\ Len(args) = 0
      BY <1>1, <2>2
    <3> HIDE DEF args, P, u
    <3>2. P = {} /\ u = 0
      BY <3>1, StockOfEmpty
    <3> QED BY <3>2 DEF P, u
  <2>4. Q = {p} /\ v = x /\ C = B
    BY <1>1, <1>2, <1>4, <2>3
  <2> QED BY <1>1, <1>2, <2>4 DEF OneCoin
<1>5. Len(all) > 1 \/ Len(all) = 1
  <2>1. \A n \in Nat : n > 0 => n > 1 \/ n = 1
    OBVIOUS
  <2> QED BY <1>2, <2>1, Zenon
<1> QED BY <1>3, <1>4, <1>5, Zenon

(* mergeGaslessCoins leaves one coin with the value of the coins and of the *)
(* withdrawal.                                                              *)
LEMMA MergeGasless ==
  ASSUME NEW B, Live(B), NEW ids, Unused(B, ids), ids # <<>>, NEW w \in Nat, NEW r, r = MergeGaslessCoins(B, ids, w), Fits(r.b)
  PROVE  \E p : OneCoin(B, r.b, r.arg, p, Worth(ids) + w)
<1> DEFINE r1 == Objs(B, ids)
           r2 == RedeemFunds(r1.b, "coin::redeem_funds", w)
           b2 == IF w > 0 THEN r2.b ELSE r1.b
           all == IF w > 0 THEN Append(r1.arg, r2.arg) ELSE r1.arg
           merge == Command(b2, MergeCoins(all[1], Tail(all)))
           b3 == IF Len(all) > 1 THEN merge.b ELSE b2
           v == Worth(ids)
<1>1. Onto(B, r1, CoinKeys(ids)) /\ r1.err = "none" /\ Sound(r1.b) /\ Sound(B)
  BY ObjsOnto DEF Onto, Live
<1>2. r = Outcome(b3, all[1], "none")
  BY <1>1 DEF MergeGaslessCoins, Then
<1>3. r.b = b3 /\ r.arg = all[1]
  BY <1>2 DEF Outcome
<1>4. Onto(r1.b, r2, {ForcedKey(Len(r1.b.order))}) /\ Sound(r2.b)
  BY <1>1, RedeemOnto DEF Onto
<1>5. Sound(b2)
  BY <1>1, <1>4
<1>6. Onto(b2, merge, {})
  BY <1>5, CommandOnto
<1>7. Fits(b2)
  <2> HIDE DEF b2, all, merge
  <2>1. CASE b3 = merge.b
    BY <1>3, <1>5, <1>6, <2>1, OntoFits
  <2> QED BY <1>3, <2>1
<1>8. Fits(r1.b)
  BY <1>1, <1>4, <1>7, OntoFits
<1>9. PICK P : Registered(B, r1, ids, P)
  BY <1>8, AddObjs
<1>10. Wider(B, r1.b, P) /\ GasCoin \notin P /\ StockOf(r1.b, r1.arg, {"Object"}, P, v) /\ Len(r1.arg) = Len(ids)
  BY <1>9 DEF Registered
<1>11. Live(r1.b) /\ Len(ids) > 0 /\ Len(ids) \in Nat
  BY <1>10 DEF Wider, Unused
<1>12. v \in Nat
  BY ValuesNat DEF Unused
<1> HIDE DEF r1, r2, v
<1>13. PICK Q : Wider(B, b2, Q) /\ GasCoin \notin Q /\ StockOf(b2, all, {"Object"}, Q, v + w) /\ Len(all) > 0
  <2>1. CASE w > 0
    <3>1. b2 = r2.b /\ all = Append(r1.arg, r2.arg)
      BY <2>1
    <3>2. PICK n : Redeemed(r1.b, r2, n, "Object", w)
      BY <1>7, <1>11, <3>1, RedeemCoin DEF r2
    <3>3. Wider(r1.b, r2.b, {n}) /\ Holds(r2.b, r2.arg, n, "Object", w) /\ n[1] = "NestedResult"
      BY <3>2 DEF Redeemed
    <3>4. n # GasCoin
      BY <3>3, NestedIs
    <3>5. StockOf(r2.b, r1.arg, {"Object"}, P, v)
      BY <1>10, <1>11, <3>3, StockOfWider
    <3>6. n \notin P
      <4>1. P \subseteq DOMAIN Run(r1.b).at
        BY <1>10 DEF Wider
      <4>2. n \notin DOMAIN Run(r1.b).at
        BY <3>3 DEF Wider
      <4> QED BY <4>1, <4>2
    <3>7. StockOf(r2.b, Append(r1.arg, r2.arg), {"Object"}, P \cup {n}, v + w)
      BY <3>3, <3>5, <3>6, StockOfAppend
    <3>8. Wider(B, r2.b, P \cup {n})
      BY <1>10, <3>3, WiderOn
    <3>9. Len(Append(r1.arg, r2.arg)) > 0
      <4>1. IsSeq(r1.arg)
        BY <1>10, StockOfSeq
      <4> QED BY <4>1, SeqLens
    <3> QED BY <1>10, <3>1, <3>4, <3>7, <3>8, <3>9
  <2>2. CASE w = 0
    <3>1. b2 = r1.b /\ all = r1.arg /\ v + w = v
      BY <1>12, <2>2
    <3> QED BY <1>10, <1>11, <3>1
  <2> QED BY <2>1, <2>2
<1>14. b3 = IF Len(all) > 1 THEN Command(b2, MergeCoins(all[1], Tail(all))).b ELSE b2
  OBVIOUS
<1> HIDE DEF b3, b2, all
<1>15. \E p : OneCoin(B, b3, all[1], p, v + w)
  BY <1>13, <1>14, MergeInto
<1> QED BY <1>3, <1>15 DEF v

(* CoinSendFunds pays a coin to a balance. *)
LEMMA SendCoin ==
  ASSUME NEW B, Live(B), NEW value, NEW p, NEW x \in Nat, Holds(B, value, p, "Object", x), p # GasCoin,
         NEW a \in Addresses, NEW r, r = CoinSendFunds(B, value, a), Fits(r.b)
  PROVE  Spends(B, r.b, {p}, <<a, "balance">>, x)
<1> DEFINE f == "coin::send_funds"
           type == "Object"
<1>1. f \in {"coin::send_funds", "balance::send_funds"}
  OBVIOUS
<1>2. type = IF f = "coin::send_funds" THEN "Object" ELSE "Balance"
  OBVIOUS
<1>3. Holds(B, value, p, type, x)
  OBVIOUS
<1> HIDE DEF f, type
<1>4. r = SendFunds(B, f, value, a)
  BY DEF f, CoinSendFunds
<1> QED BY <1>1, <1>2, <1>3, <1>4, LiveSendFunds

(* BalanceSendFunds pays a balance to a balance. *)
LEMMA SendBalance ==
  ASSUME NEW B, Live(B), NEW value, NEW p, NEW x \in Nat, Holds(B, value, p, "Balance", x), p # GasCoin,
         NEW a \in Addresses, NEW r, r = BalanceSendFunds(B, value, a), Fits(r.b)
  PROVE  Spends(B, r.b, {p}, <<a, "balance">>, x)
<1> DEFINE f == "balance::send_funds"
           type == "Balance"
<1>1. f \in {"coin::send_funds", "balance::send_funds"}
  OBVIOUS
<1>2. type = IF f = "coin::send_funds" THEN "Object" ELSE "Balance"
  OBVIOUS
<1>3. Holds(B, value, p, type, x)
  OBVIOUS
<1> HIDE DEF f, type
<1>4. r = SendFunds(B, f, value, a)
  BY DEF f, BalanceSendFunds
<1> QED BY <1>1, <1>2, <1>3, <1>4, LiveSendFunds

(* From the address balance only. *)
LEMMA DoGaslessBalance ==
  ASSUME NEW B, Live(B), NEW s, NEW a \in Addresses, NEW x \in Nat \ {0},
         NEW r, r = GaslessTransfer(B, s, a, <<>>, x, x), Fits(r.b)
  PROVE  r.err = "none" /\ Delivers(B, r.b, <<a, "balance">>, x)
<1> DEFINE r1 == RedeemFunds(B, "balance::redeem_funds", x)
           r2 == BalanceSendFunds(r1.b, r1.arg, a)
           account == <<a, "balance">>
<1>1. r1.err = "none" /\ Sound(r1.b)
  BY RedeemOnto DEF Onto, Live
<1>2. Onto(r1.b, r2, {PureKey(a)})
  BY <1>1, SendOnto DEF BalanceSendFunds
<1>3. r = r2
  BY <1>1 DEF GaslessTransfer, GaslessTransferFromBalance, Then
<1>4. r2.err = "none" /\ Fits(r1.b)
  BY <1>1, <1>2, <1>3, OntoFits DEF Onto
<1>5. PICK p : Redeemed(B, r1, p, "Balance", x)
  BY <1>4, RedeemBalance
<1> HIDE DEF r1
<1>6. Wider(B, r1.b, {p}) /\ Holds(r1.b, r1.arg, p, "Balance", x) /\ p # GasCoin /\ Live(r1.b)
  BY <1>5, NestedIs DEF Redeemed, Wider
<1>7. Fits(r2.b)
  BY <1>3
<1>8. Spends(r1.b, r2.b, {p}, account, x)
  BY <1>6, <1>7, SendBalance
<1> HIDE DEF r2, account
<1>9. Delivers(B, r2.b, account, x)
  BY <1>6, <1>8, SpendsGained
<1> QED BY <1>3, <1>4, <1>9 DEF account

(* x is paid to one account and y to another. *)
DeliversTwo(B, C, one, x, other, y) ==
  /\ Live(C) /\ Grows(B, C) /\ Run(C).at = Run(B).at
  /\ Run(C).got = More(More(Run(B).got, one, x), other, y)

(* Taking from a place that is then given up changes nothing else. *)
LEMMA LessLost ==
  ASSUME NEW at, IsFun(at), NEW p, NEW x
  PROVE  Without(Less(at, p, x), {p}) = Without(at, {p})
<1>1. DOMAIN Less(at, p, x) = DOMAIN at
  BY DEF Less
<1>2. \A s \in DOMAIN at \ {p} : Less(at, p, x)[s] = at[s]
  BY DEF Less
<1> QED BY <1>1, <1>2 DEF Without

(* With coins: what is not paid goes to the sender's balance. *)
LEMMA DoGaslessCoins ==
  ASSUME NEW B, Live(B), NEW ids, Unused(B, ids), ids # <<>>, NEW s \in Addresses, NEW a \in Addresses,
         NEW x \in Nat \ {0}, NEW w \in Nat, x <= Worth(ids) + w,
         NEW r, r = GaslessTransfer(B, s, a, ids, x, w), Fits(r.b)
  PROVE  r.err = "none" /\ DeliversTwo(B, r.b, <<a, "balance">>, x, <<s, "balance">>, Worth(ids) + w - x)
<1> DEFINE r1 == MergeGaslessCoins(B, ids, w)
           r2 == Pure(r1.b, x)
           r3 == SplitCoinAmount(r2.b, r1.arg, r2.arg)
           r4 == CoinSendFunds(r3.b, r3.arg, a)
           r5 == CoinSendFunds(r4.b, r1.arg, s)
           one == <<a, "balance">>
           other == <<s, "balance">>
           y == Worth(ids) + w
<1>0. x \in PureValues /\ x \in Nat /\ Sound(B) /\ y \in Nat /\ x <= y
  BY ValuesNat DEF PureValues, Live, Unused
<1>1. PICK K : Onto(B, r1, K)
  BY <1>0, MergeGaslessOnto
<1>2. r1.err = "none" /\ Sound(r1.b)
  BY <1>1 DEF Onto
<1>3. Onto(r1.b, r2, {PureKey(x)}) /\ r2.err = "none" /\ Sound(r2.b)
  BY <1>0, <1>2, PureOnto DEF Onto
<1>4. SplitTo(r2.b, r3, r1.arg, r2.arg)
  BY <1>3, SplitGives
<1>5. Onto(r2.b, r3, {}) /\ r3.err = "none" /\ Sound(r3.b)
  BY <1>4 DEF SplitTo, Onto
<1>6. Onto(r3.b, r4, {PureKey(a)}) /\ r4.err = "none" /\ Sound(r4.b)
  <2> HIDE DEF r1, r2, r3
  <2>1. Onto(r3.b, r4, {PureKey(a)})
    BY <1>5, SendOnto DEF CoinSendFunds
  <2> QED BY <2>1 DEF Onto
<1>7. Onto(r4.b, r5, {PureKey(s)}) /\ r5.err = "none"
  <2> HIDE DEF r1, r2, r3, r4
  <2>1. Onto(r4.b, r5, {PureKey(s)})
    BY <1>6, SendOnto DEF CoinSendFunds
  <2> QED BY <2>1 DEF Onto
<1>8. r = r5
  BY Zenon, <1>2, <1>3, <1>5, <1>6 DEF GaslessTransfer, GaslessTransferFromCoins, Then
<1>9. Fits(r5.b) /\ Fits(r4.b) /\ Fits(r3.b)
  BY Zenon, <1>5, <1>6, <1>7, <1>8, OntoFits
<1>10. Fits(r2.b) /\ Fits(r1.b)
  BY Zenon, <1>0, <1>1, <1>2, <1>3, <1>5, <1>9, OntoFits
<1>11. PICK p : OneCoin(B, r1.b, r1.arg, p, y)
  BY <1>0, <1>10, MergeGasless
<1>12. Wider(B, r1.b, {p}) /\ Holds(r1.b, r1.arg, p, "Object", y) /\ p # GasCoin /\ Live(r1.b)
  BY <1>11 DEF OneCoin, Wider
<1>13. Wider(r1.b, r2.b, {}) /\ Run(r2.b) = Run(r1.b) /\ HoldsPure(r2.b, r2.arg, x)
  BY <1>0, <1>10, <1>12, AddPure
<1> HIDE DEF r1, one, other, y
<1> DEFINE base == r1.arg
<1>14. Holds(r2.b, base, p, "Object", y) /\ Live(r2.b)
  <2>1. Holds(r2.b, base, p, "Object", y)
    BY <1>12, <1>13, WiderHolds
  <2> QED BY <1>13, <2>1 DEF Wider
<1>15. Wider(B, r2.b, {p})
  <2>1. Wider(B, r2.b, {p} \cup {})
    BY <1>12, <1>13, WiderOn
  <2>2. {p} \cup {} = {p}
    OBVIOUS
  <2> QED BY <2>1, <2>2
<1> DEFINE new == NestedResultArg(Len(r2.b.commands), 0)
<1> HIDE DEF r2, base
<1>16. SplitOff(r2.b, r3.b, base, p, "Object", y, x) /\ r3.arg = new
  <2>1. r3.b = Command(r2.b, SplitCoins(base, <<r2.arg>>)).b /\ r3.arg = new
    BY <1>4, <1>9 DEF SplitTo, base
  <2> QED BY <1>0, <1>13, <1>14, <2>1, LiveSplitOne DEF HoldsPure
<1>17. Splits(r2.b, r3.b, p, x, new) /\ Holds(r3.b, r3.arg, new, "Object", x) /\ Holds(r3.b, base, p, "Object", y - x)
  BY <1>16 DEF SplitOff
<1>18. Live(r3.b) /\ new # GasCoin
  <2>1. new[1] = "NestedResult"
    BY DEF NestedResultArg
  <2> QED BY <1>17, <2>1, NestedIs DEF Splits
<1> HIDE DEF r3, new
<1>19. Spends(r3.b, r4.b, {new}, one, x)
  BY <1>0, <1>9, <1>17, <1>18, SendCoin DEF one
<1> HIDE DEF r4
<1>20. Draws(r2.b, r4.b, p, x, one)
  BY <1>14, <1>17, <1>19, SpendsSplit
<1>21. /\ Live(r4.b) /\ Grows(r2.b, r4.b) /\ Run(r4.b).at = Less(Run(r2.b).at, p, x)
       /\ Run(r4.b).got = More(Run(r2.b).got, one, x)
  BY <1>20 DEF Draws
<1>22. IsFun(Run(r2.b).at) /\ p \in DOMAIN Run(r2.b).at /\ Run(r2.b).at[p] = y
  BY <1>14, LiveFun DEF Holds
<1>23. p \in DOMAIN Run(r4.b).at /\ Run(r4.b).at[p] = y - x
  BY <1>21, <1>22, LessFacts
<1>24. Holds(r4.b, base, p, "Object", y - x)
  BY <1>14, <1>21, <1>23, HoldsAnew
<1>25. y - x \in Nat
  BY <1>0
<1>26. Spends(r4.b, r5.b, {p}, other, y - x)
  BY <1>9, <1>12, <1>21, <1>24, <1>25, SendCoin DEF other, base
<1> HIDE DEF r5
<1>27. /\ Live(r5.b) /\ Grows(r4.b, r5.b) /\ Run(r5.b).at = Without(Run(r4.b).at, {p})
       /\ Run(r5.b).got = More(Run(r4.b).got, other, y - x)
  BY <1>26 DEF Spends
<1>28. Run(r5.b).at = Run(B).at
  <2>1. Without(Run(r4.b).at, {p}) = Without(Run(r2.b).at, {p})
    BY <1>21, <1>22, LessLost
  <2>2. Without(Run(r2.b).at, {p}) = Run(B).at
    BY <1>15, WiderLost
  <2> QED BY <1>27, <2>1, <2>2
<1>29. Run(r5.b).got = More(More(Run(B).got, one, x), other, y - x)
  BY <1>15, <1>21, <1>27 DEF Wider
<1>30. Grows(B, r5.b)
  <2>1. Grows(B, r2.b) /\ Sound(r4.b) /\ Sound(r5.b) /\ Sound(r2.b)
    BY <1>15, <1>21, <1>27 DEF Wider, Live
  <2>2. Grows(B, r4.b)
    BY <1>0, <1>21, <2>1, GrowsOn
  <2>3. Grows(r4.b, r5.b)
    BY <1>27
  <2> QED BY <1>0, <2>1, <2>2, <2>3, GrowsOn
<1>31. DeliversTwo(B, r5.b, one, x, other, y - x)
  BY <1>27, <1>28, <1>29, <1>30 DEF DeliversTwo
<1>32. DeliversTwo(B, r.b, one, x, other, y - x) /\ r.err = "none"
  BY <1>7, <1>8, <1>31
<1>33. y - x = Worth(ids) + w - x
  <2>1. Worth(ids) \in Nat
    BY ValuesNat DEF Unused
  <2> QED BY <2>1 DEF y
<1>34. one = <<a, "balance">> /\ other = <<s, "balance">>
  BY DEF one, other
<1> QED BY <1>32, <1>33, <1>34, Zenon

(***************************************************************************)
(* PayMulInternal.                                                         *)
(***************************************************************************)
PiecesOf(n, recipients, v) ==
  LET is == PositionsOf(recipients, v)
  IN [k \in DOMAIN is |-> NestedResultArg(n, (is[k] - 1) % U16)]

(* A round of its loop: p is <<the command that splits, recipients>>. *)
SendTo(bb, v, p) ==
  Then(Pure(bb, v), LAMBDA b3, rec : Command(b3, TransferObjects(PiecesOf(p[1], p[2], v), rec)))

OneSend(acc, v, p) ==
  Then(acc, LAMBDA bb, args :
    LET r == SendTo(bb, v, p)
    IN Outcome(r.b, IF r.err = "none" THEN Append(args, r.arg) ELSE NoArg, r.err))

FSend == INSTANCE SeqFolds WITH op <- OneSend

(* Induction, the hypothesis of FSend. *)
LEMMA FSendInduction == FSend!Induction
BY SetInduction DEF FSend!Induction

SendAll(b2, split, recipients) ==
  Each(b2, RecipientOrder(recipients), LAMBDA bb, v : SendTo(bb, v, <<split[2], recipients>>))

(* The loop over the recipients of PayMulInternal is a fold. *)
LEMMA SendsFold ==
  ASSUME NEW b2, NEW split, NEW recipients
  PROVE  SendAll(b2, split, recipients) = FSend!Fold(Start(b2), <<split[2], recipients>>, RecipientOrder(recipients))
BY DEF SendAll, Then, FSend!Fold, FSend!MapThenFoldSet, FSend!Max,
       FoldLeft, MapThenFoldSet, Max, OneSend, Start, Each

(* PayMulInternal with the loop named. *)
LEMMA PayMulSends ==
  ASSUME NEW B, NEW recipients, NEW amounts, NEW coin,
         Len(recipients) = Len(amounts), amounts # <<>>
  PROVE  PayMulInternal(B, recipients, amounts, coin)
      = Then(Each(B, amounts, Pure), LAMBDA b1, amts : Then(Command(b1, SplitCoins(coin, amts)), LAMBDA b2, split :
          SendAll(b2, split, recipients)))
BY DEF PayMulInternal, SendAll, SendTo, PiecesOf

(* The pieces split off for the recipients in J, by the command n. *)
Parcels(n, rs, J) == {NestedResultArg(n, i - 1) : i \in {k \in 1..Len(rs) : rs[k] \in J}}

(* What the recipients in J are paid. *)
PaidTo(f, rs, amounts, J) ==
  [x \in DOMAIN f |-> IF \E v \in J : x = <<v, "coin">> THEN f[x] + Total(Masked(rs, amounts, x[1])) ELSE f[x]]

(* Taking two sets of places is taking their union. *)
LEMMA WithoutTwice ==
  ASSUME NEW at, NEW P, NEW Q
  PROVE  Without(Without(at, P), Q) = Without(at, P \cup Q)
BY DEF Without

(* One more recipient is paid. *)
LEMMA PaidMore ==
  ASSUME NEW f, NEW rs, NEW amounts, NEW J, NEW v, v \notin J
  PROVE  More(PaidTo(f, rs, amounts, J), <<v, "coin">>, Total(Masked(rs, amounts, v))) = PaidTo(f, rs, amounts, J \cup {v})
<1> DEFINE g == PaidTo(f, rs, amounts, J)
           h == PaidTo(f, rs, amounts, J \cup {v})
           a == <<v, "coin">>
           y == Total(Masked(rs, amounts, v))
           m == More(g, a, y)
<1>1. DOMAIN g = DOMAIN f /\ DOMAIN h = DOMAIN f /\ DOMAIN m = DOMAIN f
  BY DEF PaidTo, More
<1>2. ASSUME NEW x \in DOMAIN f PROVE m[x] = h[x]
  <2> DEFINE z == Total(Masked(rs, amounts, x[1]))
  <2>1. g[x] = (IF \E u \in J : x = <<u, "coin">> THEN f[x] + z ELSE f[x])
    BY DEF PaidTo
  <2>2. h[x] = (IF \E u \in J \cup {v} : x = <<u, "coin">> THEN f[x] + z ELSE f[x])
    BY DEF PaidTo
  <2>3. CASE x = a
    <3>1. m[x] = g[x] + y
      BY <1>1, <2>3 DEF More
    <3>2. ~ \E u \in J : x = <<u, "coin">>
      BY <2>3
    <3>3. x[1] = v
      BY <2>3
    <3> QED BY <2>1, <2>2, <2>3, <3>1, <3>2, <3>3
  <2>4. CASE x # a
    <3>1. m[x] = g[x]
      BY <1>1, <2>4 DEF More
    <3>2. (\E u \in J : x = <<u, "coin">>) <=> \E u \in J \cup {v} : x = <<u, "coin">>
      BY <2>4
    <3> QED BY <2>1, <2>2, <3>1, <3>2
  <2> QED BY <2>3, <2>4
<1>3. m = [x \in DOMAIN f |-> m[x]] /\ h = [x \in DOMAIN f |-> h[x]]
  <2>1. m = [x \in DOMAIN m |-> m[x]]
    BY DEF More
  <2>2. h = [x \in DOMAIN h |-> h[x]]
    BY DEF PaidTo
  <2> QED BY <1>1, <2>1, <2>2
<1> QED BY <1>2, <1>3

(* One recipient gets its pieces. *)
LEMMA SendToOnto ==
  ASSUME NEW C, Sound(C), NEW v \in Addresses, NEW p, NEW r, r = SendTo(C, v, p)
  PROVE  Onto(C, r, {PureKey(v)})
<1> DEFINE r1 == Pure(C, v)
           cmd == TransferObjects(PiecesOf(p[1], p[2], v), r1.arg)
           r2 == Command(r1.b, cmd)
<1>1. Onto(C, r1, {PureKey(v)})
  BY PureOnto DEF PureValues
<1>2. Onto(r1.b, r2, {})
  BY <1>1, CommandOnto DEF Onto
<1>3. r = r2
  BY <1>1 DEF SendTo, Then, Onto
<1> HIDE DEF r1, r2
<1>4. Onto(C, r2, {PureKey(v)} \cup {})
  BY <1>1, <1>2, OntoOn
<1>5. {PureKey(v)} \cup {} = {PureKey(v)}
  OBVIOUS
<1> QED BY <1>3, <1>4, <1>5

(* A round of the loop sends a recipient all its pieces. *)
LEMMA SendRound ==
  ASSUME NEW C, Live(C), NEW v \in Addresses, NEW n \in 0..(Len(C.commands) - 1), C.commands[n + 1].name = "SplitCoins",
         NEW L \in Nat, L <= U16, NEW rs \in Seq(Addresses), Len(rs) = L, NEW am \in Seq(Nat), Len(am) = L,
         \A i \in 1..L : rs[i] = v =>
           NestedResultArg(n, i - 1) \in DOMAIN Run(C).at /\ Run(C).at[NestedResultArg(n, i - 1)] = am[i],
         NEW r, r = SendTo(C, v, <<n, rs>>), Fits(r.b)
  PROVE  Spends(C, r.b, Parcels(n, rs, {v}), <<v, "coin">>, Total(Masked(rs, am, v)))
<1> DEFINE r1 == Pure(C, v)
           D == r1.b
           is == PositionsOf(rs, v)
           pieces == PiecesOf(n, rs, v)
           cmd == TransferObjects(pieces, r1.arg)
           r2 == Command(D, cmd)
           m == Len(is)
           vals == [j \in 1..m |-> am[is[j]]]
           account == <<v, "coin">>
<1>0. v \in PureValues
  BY DEF PureValues
<1>1. Onto(C, r1, {PureKey(v)}) /\ Sound(C) /\ Sound(D)
  BY <1>0, PureOnto DEF Live, Onto
<1>2. Onto(D, r2, {})
  BY <1>1, CommandOnto
<1>3. r = r2
  BY <1>1 DEF SendTo, Then, Onto
<1>4. Fits(D)
  BY <1>1, <1>2, <1>3, OntoFits
<1>5. Wider(C, D, {}) /\ Run(D) = Run(C) /\ HoldsPure(D, r1.arg, v)
  BY <1>0, <1>4, AddPure
<1>6. Live(D) /\ Grows(C, D)
  BY <1>5 DEF Wider
<1>7. /\ is \in Seq(1..L) /\ m \in Nat
      /\ \A i, j \in 1..m : is[i] = is[j] => i = j
      /\ \A i \in 1..L : rs[i] = v <=> \E j \in 1..m : is[j] = i
      /\ Total(vals) = Total(Masked(rs, am, v))
  <2> HIDE DEF r1
  <2>1. RightPositions(is, L, rs, am, v)
    BY PositionFacts
  <2> HIDE DEF is
  <2>2. is \in Seq(1..L)
    BY <2>1 DEF RightPositions
  <2>3. Len(is) \in Nat
    BY <2>2
  <2> QED BY <2>1, <2>2, <2>3 DEF RightPositions
<1>8. D.commands = C.commands
  <2>1. Adds(r1, C, PureKey(v))
    BY <1>0, <1>1, PureAdds
  <2> QED BY <2>1 DEF Adds
<1> HIDE DEF r1, D, is, r2
<1>9. DOMAIN is = 1..m /\ \A j \in 1..m : is[j] \in 1..L
  BY <1>7
<1>10. pieces = [j \in 1..m |-> NestedResultArg(n, is[j] - 1)]
  <2>1. \A j \in 1..m : (is[j] - 1) % U16 = is[j] - 1
    <3> TAKE j \in 1..m
    <3>1. is[j] \in 1..L
      BY <1>9
    <3>2. is[j] - 1 \in Nat /\ is[j] - 1 < U16 /\ U16 \in Nat
      BY <3>1, U16Assumption
    <3> QED BY <3>2, FitsU16
  <2> QED BY <1>9, <2>1 DEF PiecesOf, is
<1>11. ASSUME NEW j \in 1..m
       PROVE  Holds(D, pieces[j], pieces[j], "Object", vals[j])
  <2>1. is[j] \in 1..L /\ rs[is[j]] = v
    BY <1>7, <1>9
  <2>2. pieces[j] = NestedResultArg(n, is[j] - 1) /\ is[j] - 1 \in Nat
    BY <1>10, <2>1
  <2>3. pieces[j] \in DOMAIN Run(D).at /\ Run(D).at[pieces[j]] = vals[j]
    BY <1>5, <2>1, <2>2
  <2>4. ResultType(D.commands[n + 1].name) = "Object"
    BY <1>8 DEF ResultType
  <2>5. n \in 0..(Len(D.commands) - 1)
    BY <1>8
  <2> HIDE DEF pieces, vals
  <2>6. Holds(D, NestedResultArg(n, is[j] - 1), NestedResultArg(n, is[j] - 1), "Object", Run(D).at[NestedResultArg(n, is[j] - 1)])
    BY <1>6, <2>2, <2>3, <2>4, <2>5, HoldsNested
  <2> QED BY <2>2, <2>3, <2>6
<1>12. vals \in Seq(Nat) /\ Len(vals) = m
  <2>1. vals \in [1..m -> Nat]
    BY <1>9
  <2> QED BY <1>7, <2>1
<1>13. IsSeq(pieces) /\ Len(pieces) = m /\ DOMAIN pieces = 1..m
  <2> HIDE DEF pieces
  <2> DEFINE T == {pieces[i] : i \in DOMAIN pieces}
  <2>1. DOMAIN pieces = 1..m
    BY <1>10
  <2>2. \A i \in 1..m : pieces[i] \in T
    BY <2>1
  <2>3. pieces = [i \in 1..m |-> pieces[i]]
    BY <1>10
  <2> HIDE DEF T
  <2>4. pieces \in [1..m -> T]
    BY <2>2, <2>3
  <2>5. m \in Nat
    BY <1>7
  <2> HIDE DEF m
  <2>6. pieces \in Seq(T) /\ Len(pieces) = m
    BY <2>4, <2>5
  <2> QED BY <2>1, <2>6 DEF IsSeq, T
<1>14. \A i, j \in 1..m : pieces[i] = pieces[j] => i = j
  <2> TAKE i, j \in 1..m
  <2>1. pieces[i] = <<"NestedResult", n, is[i] - 1>> /\ pieces[j] = <<"NestedResult", n, is[j] - 1>>
    BY <1>10 DEF NestedResultArg
  <2>2. pieces[i] = pieces[j] => is[i] - 1 = is[j] - 1
    BY <2>1
  <2> QED BY <1>7, <1>9, <2>2
<1> HIDE DEF pieces, vals
<1>15. Stock(D, pieces, {"Object"}, pieces, vals)
  BY <1>7, <1>11, <1>12, <1>13, <1>14 DEF Stock
<1>16. Spots(pieces, Len(pieces)) = Parcels(n, rs, {v})
  <2>1. Spots(pieces, Len(pieces)) = {NestedResultArg(n, is[j] - 1) : j \in 1..m}
    BY <1>10, <1>13 DEF Spots
  <2>2. {k \in 1..Len(rs) : rs[k] \in {v}} = {is[j] : j \in 1..m}
    BY <1>7, <1>9
  <2> QED BY <2>1, <2>2 DEF Parcels
<1>17. StockOf(D, pieces, {"Object"}, Parcels(n, rs, {v}), Total(vals))
  BY <1>15, <1>16 DEF StockOf
<1> DEFINE P == Parcels(n, rs, {v})
           x == Total(vals)
           E == r2.b
<1>18. E = Command(D, TransferObjects(pieces, r1.arg)).b
  BY DEF r2
<1> HIDE DEF P, x, E
<1>19. Spends(D, E, P, account, x)
  BY <1>5, <1>6, <1>17, <1>18, TransferAll DEF HoldsPure, P, x
<1> HIDE DEF account
<1>20. Spends(C, E, P, account, x)
  <2>1. Live(E) /\ Grows(D, E) /\ Run(E).at = Without(Run(D).at, P) /\ Run(E).got = More(Run(D).got, account, x)
    BY <1>19 DEF Spends
  <2>2. Grows(C, E)
    BY <1>1, <1>6, <2>1, GrowsOn DEF Live
  <2> QED BY <1>5, <2>1, <2>2 DEF Spends
<1>21. r.b = E /\ x = Total(Masked(rs, am, v))
  BY <1>3, <1>7 DEF E, x
<1> QED BY <1>20, <1>21 DEF account, P

(* The command n of D has split off the amounts, in their order. *)
Cut(D, n, rs, am) ==
  /\ Live(D) /\ n \in 0..(Len(D.commands) - 1) /\ D.commands[n + 1].name = "SplitCoins"
  /\ rs \in Seq(Addresses) /\ am \in Seq(Nat) /\ Len(am) = Len(rs) /\ Len(rs) <= U16
  /\ \A i \in 1..Len(rs) : NestedResultArg(n, i - 1) \in DOMAIN Run(D).at /\ Run(D).at[NestedResultArg(n, i - 1)] = am[i]

(* E is D and more; the recipients in J have got their pieces. *)
Sent(D, E, n, rs, am, J) ==
  /\ Live(E) /\ Grows(D, E)
  /\ Run(E).at = Without(Run(D).at, Parcels(n, rs, J))
  /\ Run(E).got = PaidTo(Run(D).got, rs, am, J)

(* The machine of a builder whose commands execute, as functions. *)
LEMMA RunShape ==
  ASSUME NEW B, Live(B)
  PROVE  IsMachine(Run(B)) /\ IsFun(Run(B).at) /\ IsFun(Run(B).got)
<1>1. IsMachine(Run(B))
  <2>1. Len(B.commands) \in Nat
    BY SoundFacts DEF Live
  <2>2. Len(B.commands) \in 0..Len(B.commands)
    BY <2>1
  <2> QED BY <2>2, RanShape DEF Live, Run
<1>2. IsFun(Run(B).at)
  BY LiveFun
<1>3. IsFun(Run(B).got)
  <2>1. Run(B).got \in [Accounts -> Nat]
    BY <1>1 DEF IsMachine
  <2>2. Run(B).got = [x \in Accounts |-> Run(B).got[x]] /\ DOMAIN Run(B).got = Accounts
    BY <2>1
  <2> QED BY <2>2 DEF IsFun
<1> QED BY <1>1, <1>2, <1>3

(* Before the loop nobody has a piece. *)
LEMMA SentNone ==
  ASSUME NEW D, NEW n, NEW rs, NEW am, Live(D)
  PROVE  Sent(D, D, n, rs, am, {})
<1>1. IsFun(Run(D).at) /\ IsFun(Run(D).got)
  BY RunShape
<1>2. Parcels(n, rs, {}) = {}
  BY DEF Parcels
<1>3. Without(Run(D).at, {}) = Run(D).at
  BY <1>1 DEF Without, IsFun
<1>4. PaidTo(Run(D).got, rs, am, {}) = Run(D).got
  BY <1>1 DEF PaidTo, IsFun
<1>5. Grows(D, D)
  BY GrowsSame DEF Live
<1> QED BY <1>2, <1>3, <1>4, <1>5 DEF Sent

(* After a round one more recipient has its pieces. *)
LEMMA SentMore ==
  ASSUME NEW D, NEW n, NEW rs, NEW am, Cut(D, n, rs, am), NEW E, NEW J, Sent(D, E, n, rs, am, J),
         NEW v \in Addresses, v \notin J, NEW r, r = SendTo(E, v, <<n, rs>>), Fits(r.b)
  PROVE  Sent(D, r.b, n, rs, am, J \cup {v})
<1> DEFINE L == Len(rs)
           F == r.b
<1>1. L \in Nat /\ L <= U16 /\ rs \in Seq(Addresses) /\ am \in Seq(Nat) /\ Len(am) = L
  BY DEF Cut
<1>2. Live(E) /\ Live(D) /\ Grows(D, E)
  BY DEF Sent, Cut
<1>3. n \in 0..(Len(E.commands) - 1) /\ E.commands[n + 1].name = "SplitCoins"
  <2>1. Len(D.commands) \in Nat /\ Len(E.commands) \in Nat
    BY <1>2, SoundFacts DEF Live
  <2>2. n \in 0..(Len(D.commands) - 1) /\ D.commands[n + 1].name = "SplitCoins"
    BY DEF Cut
  <2>3. Len(D.commands) <= Len(E.commands) /\ \A i \in 1..Len(D.commands) : E.commands[i] = D.commands[i]
    BY <1>2 DEF Grows
  <2>4. n + 1 \in 1..Len(D.commands)
    BY <2>1, <2>2
  <2> QED BY <2>1, <2>2, <2>3, <2>4
<1>4. ASSUME NEW i \in 1..L, rs[i] = v
      PROVE  NestedResultArg(n, i - 1) \in DOMAIN Run(E).at /\ Run(E).at[NestedResultArg(n, i - 1)] = am[i]
  <2> DEFINE p == NestedResultArg(n, i - 1)
  <2>1. p \in DOMAIN Run(D).at /\ Run(D).at[p] = am[i]
    BY DEF Cut
  <2>2. p \notin Parcels(n, rs, J)
    <3> SUFFICES ASSUME p \in Parcels(n, rs, J) PROVE FALSE
      OBVIOUS
    <3>1. PICK k \in 1..L : rs[k] \in J /\ p = NestedResultArg(n, k - 1)
      BY DEF Parcels
    <3>2. i - 1 = k - 1
      BY <3>1 DEF NestedResultArg
    <3>3. i = k
      BY <1>1, <3>2
    <3> QED BY <1>4, <3>1, <3>3
  <2>3. Run(E).at = Without(Run(D).at, Parcels(n, rs, J))
    BY DEF Sent
  <2> HIDE DEF p
  <2>4. p \in DOMAIN Run(E).at /\ Run(E).at[p] = am[i]
    BY <2>1, <2>2, <2>3 DEF Without
  <2> QED BY <2>4 DEF p
<1>5. Spends(E, F, Parcels(n, rs, {v}), <<v, "coin">>, Total(Masked(rs, am, v)))
  BY <1>1, <1>2, <1>3, <1>4, SendRound
<1> DEFINE P == Parcels(n, rs, J)
           Q == Parcels(n, rs, {v})
           R == Parcels(n, rs, J \cup {v})
           x == Total(Masked(rs, am, v))
           a == <<v, "coin">>
<1>7. Without(Without(Run(D).at, P), Q) = Without(Run(D).at, R)
  <2>1. R = P \cup Q
    BY DEF Parcels
  <2> HIDE DEF P, Q, R
  <2>2. Without(Without(Run(D).at, P), Q) = Without(Run(D).at, P \cup Q)
    BY WithoutTwice
  <2> QED BY <2>1, <2>2
<1>6. Run(E).at = Without(Run(D).at, P) /\ Run(E).got = PaidTo(Run(D).got, rs, am, J)
  BY DEF Sent
<1>8. More(PaidTo(Run(D).got, rs, am, J), a, x) = PaidTo(Run(D).got, rs, am, J \cup {v})
  <2> DEFINE f == Run(D).got
  <2> HIDE DEF f
  <2>1. More(PaidTo(f, rs, am, J), <<v, "coin">>, Total(Masked(rs, am, v))) = PaidTo(f, rs, am, J \cup {v})
    BY PaidMore
  <2> QED BY <2>1 DEF f, a, x
<1> HIDE DEF P, Q, R, x, a, F
<1>9. Live(F) /\ Grows(E, F) /\ Run(F).at = Without(Run(E).at, Q) /\ Run(F).got = More(Run(E).got, a, x)
  BY <1>5 DEF Spends, Q, x, a
<1>10. Grows(D, F)
  BY <1>2, <1>9, GrowsOn DEF Live
<1>11. Run(F).at = Without(Run(D).at, Parcels(n, rs, J \cup {v}))
  BY <1>6, <1>7, <1>9 DEF R
<1>12. Run(F).got = PaidTo(Run(D).got, rs, am, J \cup {v})
  BY <1>6, <1>8, <1>9
<1> QED BY <1>9, <1>10, <1>11, <1>12 DEF Sent, F

(* acc is the outcome of D's loop after the recipients in J. *)
Sending(D, acc, n, rs, J) ==
  /\ acc.err = "none" /\ Sound(acc.b) /\ Grows(D, acc.b)
  /\ Fits(acc.b) => \A am : Cut(D, n, rs, am) => Sent(D, acc.b, n, rs, am, J)

Upto(s, k) == {s[j] : j \in 1..k}

(* A round of the loop as an outcome. *)
LEMMA SendStep ==
  ASSUME NEW acc, acc.err = "none", NEW v, NEW p
  PROVE  OneSend(acc, v, p) = Collect(acc, SendTo(acc.b, v, p))
BY DEF OneSend, Then, Collect

(* A round keeps what the loop has sent. *)
LEMMA SendingMore ==
  ASSUME NEW D, Sound(D), NEW acc, NEW n, NEW rs, NEW J, Sending(D, acc, n, rs, J), NEW v \in Addresses, v \notin J,
         NEW r, r = SendTo(acc.b, v, <<n, rs>>), NEW next, next = Collect(acc, r)
  PROVE  Sending(D, next, n, rs, J \cup {v})
<1> DEFINE E == acc.b
<1>1. Sound(E) /\ Grows(D, E)
  BY DEF Sending
<1>2. Onto(E, r, {PureKey(v)})
  <2>1. r = SendTo(E, v, <<n, rs>>)
    OBVIOUS
  <2> HIDE DEF E
  <2> QED BY <1>1, <2>1, SendToOnto
<1>3. next.b = r.b /\ next.err = "none"
  BY <1>2 DEF Collect, Outcome, Onto
<1>4. Sound(r.b) /\ Grows(E, r.b)
  BY <1>2 DEF Onto
<1>5. Grows(D, r.b)
  BY <1>1, <1>4, GrowsOn
<1>6. ASSUME Fits(r.b), NEW am, Cut(D, n, rs, am)
      PROVE  Sent(D, r.b, n, rs, am, J \cup {v})
  <2>1. Fits(E)
    BY <1>1, <1>2, <1>6, OntoFits
  <2>2. Sent(D, E, n, rs, am, J)
    BY <1>6, <2>1 DEF Sending
  <2> HIDE DEF E
  <2>3. r = SendTo(E, v, <<n, rs>>)
    BY DEF E
  <2> QED BY <1>6, <2>2, <2>3, SentMore
<1> HIDE DEF E
<1>7. (Fits(r.b) => \A am : Cut(D, n, rs, am) => Sent(D, r.b, n, rs, am, J \cup {v}))
  BY <1>6
<1> QED BY <1>3, <1>4, <1>5, <1>7 DEF Sending

(* The loop, where no recipient comes twice. *)
LEMMA SendLoop ==
  ASSUME NEW D, Sound(D), NEW n, NEW rs, NEW order \in Seq(Addresses), NEW m, m = Len(order),
         \A i, j \in 1..m : order[i] = order[j] => i = j,
         NEW A, A[0] = Start(D),
         \A k \in 0..(m - 1) : A[k].err = "none" => A[k + 1] = Collect(A[k], SendTo(A[k].b, order[k + 1], <<n, rs>>))
  PROVE  Sending(D, A[m], n, rs, Upto(order, m))
<1> DEFINE S == {k \in Nat : k <= m => Sending(D, A[k], n, rs, Upto(order, k))}
<1>0. m \in Nat /\ \A i \in 1..m : order[i] \in Addresses
  OBVIOUS
<1>1. 0 \in S
  <2>1. A[0].b = D /\ A[0].err = "none"
    BY DEF Start, Outcome
  <2>2. Upto(order, 0) = {}
    BY DEF Upto
  <2>3. \A am : Cut(D, n, rs, am) => Sent(D, D, n, rs, am, {})
    BY SentNone DEF Cut
  <2>4. Grows(D, D)
    BY GrowsSame
  <2> QED BY <2>1, <2>2, <2>3, <2>4 DEF Sending
<1>2. ASSUME NEW k \in Nat, k \in S PROVE k + 1 \in S
  <2> SUFFICES ASSUME k + 1 <= m PROVE Sending(D, A[k + 1], n, rs, Upto(order, k + 1))
    OBVIOUS
  <2> DEFINE J == Upto(order, k)
             v == order[k + 1]
             acc == A[k]
             r == SendTo(acc.b, v, <<n, rs>>)
  <2>1. k + 1 \in 1..m /\ k \in 0..(m - 1)
    BY <1>0
  <2>2. Sending(D, acc, n, rs, J)
    BY <1>0, <1>2
  <2>3. v \in Addresses
    BY <1>0, <2>1
  <2>4. v \notin J
    <3> SUFFICES ASSUME NEW j \in 1..k, order[j] = v PROVE FALSE
      BY DEF Upto
    <3>1. j \in 1..m /\ j # k + 1
      BY <1>0
    <3> QED BY <2>1, <3>1
  <2>5. A[k + 1] = Collect(acc, r)
    BY <2>1, <2>2 DEF Sending
  <2>6. Upto(order, k + 1) = J \cup {v}
    <3>1. 1..(k + 1) = (1..k) \cup {k + 1}
      OBVIOUS
    <3> QED BY <3>1 DEF Upto
  <2>7. r = SendTo(acc.b, v, <<n, rs>>)
    OBVIOUS
  <2> DEFINE next == A[k + 1]
  <2>9. next = Collect(acc, r)
    BY <2>5
  <2> HIDE DEF J, v, acc, r, next
  <2>8. Sending(D, next, n, rs, J \cup {v})
    BY <2>2, <2>3, <2>4, <2>9, <2>7, SendingMore
  <2> QED BY <2>6, <2>8 DEF next
<1> HIDE DEF S
<1>3. Nat \subseteq S
  BY <1>1, <1>2, SetInduction
<1>4. m \in S
  BY <1>0, <1>3
<1>5. m <= m
  BY <1>0
<1> QED BY <1>4, <1>5 DEF S

(* All that the loop does: everything that was split off is paid. *)
LEMMA SendAllDone ==
  ASSUME NEW D, Sound(D), NEW split, NEW rs \in Seq(Addresses), NEW r, r = SendAll(D, split, rs)
  PROVE  Sending(D, r, split[2], rs, Upto(RecipientOrder(rs), Len(RecipientOrder(rs))))
<1> DEFINE order == RecipientOrder(rs)
           m == Len(order)
           p == <<split[2], rs>>
           A == [k \in 0..m |-> FSend!Fold(Start(D), p, SubSeq(order, 1, k))]
<1>1. order \in Seq(Addresses) /\ \A i, j \in 1..m : order[i] = order[j] => i = j
  BY RecipientFacts
<1> HIDE DEF order
<1>2. m \in Nat
  BY <1>1
<1>3. A[0] = Start(D)
  <2>1. SubSeq(order, 1, 0) = <<>> /\ 0 \in 0..m
    BY <1>1, <1>2
  <2> QED BY <2>1, FSendInduction, FSend!FoldEmpty
<1>4. ASSUME NEW k \in 0..(m - 1), A[k].err = "none" PROVE A[k + 1] = Collect(A[k], SendTo(A[k].b, order[k + 1], p))
  <2>1. k \in Nat /\ k + 1 <= Len(order) /\ k \in 0..m /\ k + 1 \in 0..m
    BY <1>2
  <2> HIDE DEF p
  <2>2. FSend!Fold(Start(D), p, SubSeq(order, 1, k + 1)) = OneSend(FSend!Fold(Start(D), p, SubSeq(order, 1, k)), order[k + 1], p)
    BY <1>1, <2>1, FSendInduction, FSend!FoldPrefix
  <2>3. A[k + 1] = OneSend(A[k], order[k + 1], p)
    BY <2>1, <2>2
  <2> HIDE DEF A
  <2> QED BY <1>4, <2>3, SendStep
<1>5. A[m] = r
  <2>1. SubSeq(order, 1, m) = order /\ m \in 0..m
    BY <1>1, <1>2
  <2>2. r = FSend!Fold(Start(D), p, order)
    BY SendsFold DEF order
  <2> QED BY <2>1, <2>2
<1> HIDE DEF A, m
<1>6. Sending(D, A[m], split[2], rs, Upto(order, m))
  <2>1. m = Len(order)
    BY DEF m
  <2>2. \A k \in 0..(m - 1) : A[k].err = "none" => A[k + 1] = Collect(A[k], SendTo(A[k].b, order[k + 1], <<split[2], rs>>))
    BY <1>4 DEF p
  <2> QED BY <1>1, <1>3, <2>1, <2>2, SendLoop
<1> QED BY <1>5, <1>6 DEF order, m

(* The amounts are paid to the recipients from the coin at p. *)
PaysOut(B, E, p, rs, am) ==
  /\ Live(E) /\ Grows(B, E)
  /\ Run(E).at = Less(Run(B).at, p, Total(am))
  /\ Run(E).got = PaidTo(Run(B).got, rs, am, Upto(rs, Len(rs)))

(* What a SplitCoins gives, as the loop needs it. *)
LEMMA CutHere ==
  ASSUME NEW C, Live(C), NEW D, NEW cmd, NEW p, NEW rs \in Seq(Addresses), NEW am \in Seq(Nat),
         Len(rs) = Len(am), Len(am) <= U16, p \in DOMAIN Run(C).at, cmd.name = "SplitCoins",
         NEW n, n = Len(C.commands),
         Leaves(C, D, cmd, Placed(Less(Run(C).at, p, Total(am)), n, am), Run(C).got)
  PROVE  /\ Cut(D, n, rs, am) /\ Grows(C, D)
         /\ Without(Run(D).at, News(n, Len(am))) = Less(Run(C).at, p, Total(am))
         /\ Run(D).got = Run(C).got
<1> DEFINE left == Less(Run(C).at, p, Total(am))
           at == Run(D).at
<1>1. Longer(C, D, cmd) /\ at = Placed(left, n, am) /\ Run(D).got = Run(C).got
  BY DEF Leaves
<1>2. Live(D) /\ Grows(C, D) /\ Len(D.commands) = n + 1 /\ D.commands[n + 1] = cmd
  BY <1>1 DEF Longer
<1>3. n \in Nat
  BY LiveShape
<1>4. n \in 0..(Len(D.commands) - 1) /\ D.commands[n + 1].name = "SplitCoins"
  BY <1>2, <1>3
<1>5. IsFun(left) /\ DOMAIN left = DOMAIN Run(C).at
  <2> DEFINE q == Run(C).at
             x == Total(am)
  <2>1. IsFun(q) /\ p \in DOMAIN q
    BY LiveFun
  <2> HIDE DEF q, x
  <2>2. IsFun(Less(q, p, x)) /\ DOMAIN Less(q, p, x) = DOMAIN q
    BY <2>1, LessFacts
  <2> QED BY <2>2 DEF q, x
<1>6. \A l : NestedResultArg(n, l) \notin DOMAIN left
  BY <1>5, ResultNew
<1> HIDE DEF left, at
<1>7. Without(at, News(n, Len(am))) = left
  BY <1>1, <1>5, <1>6, PlacedLost
<1>8. ASSUME NEW i \in 1..Len(rs)
      PROVE  NestedResultArg(n, i - 1) \in DOMAIN at /\ at[NestedResultArg(n, i - 1)] = am[i]
  <2> DEFINE s == NestedResultArg(n, i - 1)
  <2>1. i \in 1..Len(am)
    OBVIOUS
  <2>2. s \notin DOMAIN left
    BY <1>6
  <2>3. s \in News(n, Len(am))
    BY <2>1 DEF News
  <2>4. s = NestedResultArg(n, i - 1)
    OBVIOUS
  <2> HIDE DEF s
  <2>5. at[s] = am[i]
    BY <1>1, <2>1, <2>2, <2>4, PlacedAt
  <2>6. s \in DOMAIN at
    <3>1. DOMAIN Placed(left, n, am) = DOMAIN left \cup News(n, Len(am))
      BY PlacedPlaces
    <3> QED BY <1>1, <2>3, <3>1
  <2> QED BY <2>5, <2>6 DEF s
<1>9. Cut(D, n, rs, am)
  <2>1. \A i \in 1..Len(rs) : NestedResultArg(n, i - 1) \in DOMAIN Run(D).at /\ Run(D).at[NestedResultArg(n, i - 1)] = am[i]
    BY <1>8 DEF at
  <2> QED BY <1>2, <1>4, <2>1 DEF Cut
<1> QED BY <1>1, <1>2, <1>7, <1>9 DEF left, at

(* The recipients in their order are the recipients, and have all pieces. *)
LEMMA AllParcels ==
  ASSUME NEW rs \in Seq(Addresses), NEW n, NEW J, J = Upto(RecipientOrder(rs), Len(RecipientOrder(rs)))
  PROVE  J = Upto(rs, Len(rs)) /\ Parcels(n, rs, J) = News(n, Len(rs))
<1> DEFINE order == RecipientOrder(rs)
           m == Len(order)
           L == Len(rs)
<1>1. \A i \in 1..L : \E j \in 1..m : order[j] = rs[i]
  BY RecipientFacts
<1>2. \A j \in 1..m : \E i \in 1..L : order[j] = rs[i]
  BY RecipientFacts
<1>0. J = Upto(order, m)
  OBVIOUS
<1> HIDE DEF order, m, L
<1>3. J = Upto(rs, L)
  <2>1. J = {order[j] : j \in 1..m}
    BY <1>0 DEF Upto
  <2>2. \A v \in J : \E i \in 1..L : v = rs[i]
    BY <1>2, <2>1
  <2>3. \A i \in 1..L : rs[i] \in J
    BY <1>1, <2>1
  <2>4. J = {rs[i] : i \in 1..L}
    BY <2>2, <2>3
  <2> QED BY <2>4 DEF Upto
<1>4. \A k \in 1..L : rs[k] \in J
  BY <1>3 DEF Upto
<1>5. {k \in 1..L : rs[k] \in J} = 1..L
  BY <1>4
<1>6. Parcels(n, rs, J) = News(n, L)
  <2>1. Parcels(n, rs, J) = {NestedResultArg(n, i - 1) : i \in {k \in 1..L : rs[k] \in J}}
    BY DEF Parcels, L
  <2> QED BY <1>5, <2>1 DEF News
<1> QED BY <1>3, <1>6 DEF L

(* PayMulInternal *)
LEMMA DoPayMul ==
  ASSUME NEW B, Live(B), NEW coin, NEW p, NEW t, NEW y \in Nat, Holds(B, coin, p, t, y),
         NEW rs \in Seq(Addresses), NEW am \in Seq(Nat), Len(rs) = Len(am), Len(am) <= U16, am # <<>>, Total(am) <= y,
         NEW r, r = PayMulInternal(B, rs, am, coin), Fits(r.b)
  PROVE  r.err = "none" /\ PaysOut(B, r.b, p, rs, am)
<1> DEFINE r1 == Each(B, am, Pure)
           C == r1.b
           amts == r1.arg
           cmd == SplitCoins(coin, amts)
           r2 == Command(C, cmd)
           D == r2.b
           split == r2.arg
           s == SendAll(D, split, rs)
           n == Len(C.commands)
           J == Upto(RecipientOrder(rs), Len(RecipientOrder(rs)))
           x == Total(am)
<1>1. /\ r1.err = "none" /\ Joined(B, C) /\ Run(C) = Run(B)
      /\ Fits(C) => AmountArgs(C, amts, am)
  BY LivePures
<1>2. Live(C) /\ Grows(B, C) /\ Sound(C) /\ Sound(B)
  BY <1>1 DEF Joined, Live
<1>3. Onto(C, r2, {}) /\ (Fits(D) => split = ResultArg(n))
  BY <1>2, CommandOnto, CommandAdds
<1>4. r = s
  BY <1>1, <1>3, PayMulSends DEF Then, Onto
<1>5. Sound(D) /\ Grows(C, D)
  BY <1>3 DEF Onto
<1>6. Sending(D, s, split[2], rs, J)
  <2> HIDE DEF D, split, s, J
  <2>1. s = SendAll(D, split, rs)
    BY DEF s
  <2> QED BY <1>5, <2>1, SendAllDone DEF J
<1>7. Fits(D)
  <2>1. Sound(s.b) /\ Grows(D, s.b) /\ Fits(s.b)
    BY <1>4, <1>6 DEF Sending
  <2> HIDE DEF D, s
  <2> QED BY <1>5, <2>1, FitsBefore
<1>8. Fits(C)
  BY <1>2, <1>5, <1>7, FitsBefore
<1>9. split[2] = n
  BY <1>3, <1>7 DEF ResultArg
<1>10. AmountArgs(C, amts, am)
  BY <1>1, <1>8
<1>11. p \in DOMAIN Run(C).at /\ Run(C).at[p] = y
  BY <1>1 DEF Holds
<1>12. D = Command(C, SplitCoins(coin, amts)).b /\ cmd.name = "SplitCoins"
  BY DEF SplitCoins
<1> HIDE DEF r1, C, amts, r2, D, split, s, J, cmd
<1>13. Holds(C, coin, p, t, y)
  BY <1>2, <1>11, HoldsGrows
<1>14. Leaves(C, D, cmd, Placed(Less(Run(C).at, p, x), n, am), Run(C).got)
  BY <1>2, <1>10, <1>12, <1>13, LiveSplit DEF cmd
<1>15. /\ Cut(D, n, rs, am)
       /\ Without(Run(D).at, News(n, Len(am))) = Less(Run(C).at, p, x)
       /\ Run(D).got = Run(C).got
  BY <1>2, <1>11, <1>12, <1>14, CutHere
<1>16. Sent(D, s.b, n, rs, am, J)
  BY <1>4, <1>6, <1>9, <1>15 DEF Sending
<1>17. J = Upto(rs, Len(rs)) /\ Parcels(n, rs, J) = News(n, Len(rs))
  BY AllParcels DEF J
<1>18. Live(s.b) /\ Grows(D, s.b) /\ Run(s.b).at = Less(Run(B).at, p, x) /\ Run(s.b).got = PaidTo(Run(B).got, rs, am, Upto(rs, Len(rs)))
  BY <1>1, <1>15, <1>16, <1>17 DEF Sent
<1>19. Grows(B, s.b)
  <2>1. Sound(s.b)
    BY <1>18 DEF Live
  <2>2. Grows(B, D)
    BY <1>2, <1>5, GrowsOn
  <2> QED BY <1>2, <1>5, <1>18, <2>1, <2>2, GrowsOn
<1>20. s.err = "none"
  BY <1>6 DEF Sending
<1> QED BY <1>4, <1>18, <1>19, <1>20 DEF PaysOut, x

(* C is B and more; what was there is there, and besides only inputs. *)
Keeps(B, C) ==
  /\ Live(C) /\ Grows(B, C)
  /\ DOMAIN Run(B).at \subseteq DOMAIN Run(C).at
  /\ DOMAIN Run(C).at \subseteq DOMAIN Run(B).at \cup Slots(C)
  /\ \A s \in DOMAIN Run(B).at : Run(C).at[s] = Run(B).at[s]

(* A builder keeps itself. *)
LEMMA KeepsSame ==
  ASSUME NEW B, Live(B)
  PROVE  Keeps(B, B)
BY GrowsSame DEF Keeps, Live

(* A new object at an input is kept, and nobody is paid. *)
LEMMA KeepsInput ==
  ASSUME NEW B, NEW C, NEW p \in Slots(C), Wider(B, C, {p})
  PROVE  Keeps(B, C) /\ Run(C).got = Run(B).got
BY DEF Keeps, Wider

(* A coin that is left at an input is kept. *)
LEMMA KeepsCoin ==
  ASSUME NEW B, NEW C, NEW account, NEW x, LeavesCoin(B, C, account, x)
  PROVE  Keeps(B, C)
BY DEF Keeps, LeavesCoin

(* Nobody is paid. *)
LEMMA PaidNone ==
  ASSUME NEW f, IsFun(f), NEW rs \in Seq(Addresses), Len(rs) = 0, NEW am
  PROVE  PaidTo(f, rs, am, Upto(rs, Len(rs))) = f
<1>1. Upto(rs, Len(rs)) = {}
  BY DEF Upto
<1>2. PaidTo(f, rs, am, {}) = f
  BY DEF PaidTo, IsFun
<1> QED BY <1>1, <1>2

(* From the coin at an input that is new. *)
LEMMA PaysFromInput ==
  ASSUME NEW B, Live(B), NEW C, NEW p \in Slots(C), Wider(B, C, {p}),
         NEW D, NEW rs, NEW am, PaysOut(C, D, p, rs, am)
  PROVE  Keeps(B, D) /\ Run(D).got = PaidTo(Run(B).got, rs, am, Upto(rs, Len(rs)))
<1> DEFINE b0 == Run(B).at
           c0 == Run(C).at
           d0 == Run(D).at
           x == Total(am)
<1>1. Live(C) /\ Grows(B, C) /\ Run(C).got = Run(B).got /\ DOMAIN c0 = DOMAIN b0 \cup {p} /\ p \notin DOMAIN b0
      /\ \A s \in DOMAIN b0 : c0[s] = b0[s]
  BY DEF Wider
<1>2. Live(D) /\ Grows(C, D) /\ d0 = Less(c0, p, x) /\ Run(D).got = PaidTo(Run(C).got, rs, am, Upto(rs, Len(rs)))
  BY DEF PaysOut
<1>3. Grows(B, D)
  BY <1>1, <1>2, GrowsOn DEF Live
<1>4. p \in Slots(D)
  BY <1>1, <1>2, ArgsGrow DEF Live
<1>5. IsFun(c0)
  BY <1>1, LiveFun
<1> HIDE DEF b0, c0, d0, x
<1>6. DOMAIN d0 = DOMAIN c0 /\ \A s \in DOMAIN c0 \ {p} : d0[s] = c0[s]
  BY <1>1, <1>2, <1>5, LessFacts
<1>7. DOMAIN d0 = DOMAIN b0 \cup {p} /\ \A s \in DOMAIN b0 : d0[s] = b0[s]
  BY <1>1, <1>6
<1> QED BY <1>1, <1>2, <1>3, <1>4, <1>7 DEF Keeps, b0, d0

(* PayMulInternal, whatever the builder's commands do. *)
LEMMA PayMulOnto ==
  ASSUME NEW B, Sound(B), NEW rs \in Seq(Addresses), NEW am \in Seq(Nat), NEW coin,
         Len(rs) = Len(am), NEW r, r = PayMulInternal(B, rs, am, coin)
  PROVE  r.err = "none" /\ Sound(r.b) /\ Grows(B, r.b)
<1>1. CASE am = <<>>
  <2>1. r = Outcome(B, NoArg, "none")
    BY <1>1 DEF PayMulInternal
  <2> QED BY <2>1, GrowsSame DEF Outcome
<1>2. CASE am # <<>>
  <2> DEFINE r1 == Each(B, am, Pure)
             r2 == Command(r1.b, SplitCoins(coin, r1.arg))
             s == SendAll(r2.b, r2.arg, rs)
             J == Upto(RecipientOrder(rs), Len(RecipientOrder(rs)))
  <2>1. am \in Seq(PureValues)
    BY DEF PureValues
  <2>2. AddsAll(r1, B, PureKeys(am), Len(am))
    BY <2>1, PuresAdd
  <2>3. r1.err = "none" /\ Sound(r1.b) /\ Grows(B, r1.b)
    BY <2>2 DEF AddsAll
  <2>4. Onto(r1.b, r2, {})
    BY <2>3, CommandOnto
  <2>5. r2.err = "none" /\ Sound(r2.b) /\ Grows(r1.b, r2.b)
    BY <2>4 DEF Onto
  <2>6. r = s
    BY <1>2, <2>3, <2>5, PayMulSends DEF Then
  <2>7. s = SendAll(r2.b, r2.arg, rs)
    OBVIOUS
  <2> HIDE DEF r1, r2, s
  <2>8. Sending(r2.b, s, r2.arg[2], rs, J)
    BY <2>5, <2>7, SendAllDone
  <2>9. s.err = "none" /\ Sound(s.b) /\ Grows(r2.b, s.b)
    BY <2>8 DEF Sending
  <2>10. Grows(B, r2.b)
    BY <2>3, <2>5, GrowsOn
  <2> QED BY <2>5, <2>6, <2>9, <2>10, GrowsOn
<1> QED BY <1>1, <1>2

(* PaySui *)
LEMMA DoPaySui ==
  ASSUME NEW B, Live(B), NEW rs \in Seq(Addresses), NEW am \in Seq(Nat), Len(am) <= U16,
         NEW r, r = PaySui(B, rs, am), Fits(r.b)
  PROVE  /\ r.err # "none" => r.b = B
         /\ r.err = "none" /\ am = <<>> => r.b = B /\ Len(rs) = 0
         /\ r.err = "none" /\ am # <<>> /\ GasCoin \in DOMAIN Run(B).at /\ Total(am) <= Run(B).at[GasCoin] =>
              PaysOut(B, r.b, GasCoin, rs, am)
<1>1. r = PayMulInternal(B, rs, am, GasCoin)
  BY DEF PaySui
<1>2. CASE Len(rs) # Len(am)
  <2>1. r = Outcome(B, NoArg, "LengthMismatch")
    BY <1>1, <1>2 DEF PayMulInternal
  <2> QED BY <2>1 DEF Outcome
<1>3. CASE Len(rs) = Len(am) /\ am = <<>>
  <2>1. r = Outcome(B, NoArg, "none")
    BY <1>1, <1>3 DEF PayMulInternal
  <2> QED BY <1>3, <2>1 DEF Outcome
<1>4. CASE Len(rs) = Len(am) /\ am # <<>>
  <2>1. r.err = "none"
    BY <1>1, <1>4, PayMulOnto DEF Live
  <2>2. ASSUME GasCoin \in DOMAIN Run(B).at, Total(am) <= Run(B).at[GasCoin]
        PROVE  PaysOut(B, r.b, GasCoin, rs, am)
    <3> DEFINE y == Run(B).at[GasCoin]
    <3>1. Holds(B, GasCoin, GasCoin, "Object", y)
      BY <2>2, HoldsGas
    <3>2. y \in Nat /\ Total(am) <= y
      BY <2>2, LiveShape
    <3> HIDE DEF y
    <3> QED BY <1>1, <1>4, <3>1, <3>2, DoPayMul
  <2> QED BY <1>4, <2>1, <2>2
<1> QED BY <1>2, <1>3, <1>4

(* The coins of a Pay in one: they are merged into the first. *)
Gathered(B, C, arg, p, v) ==
  p \in Slots(C) /\ Wider(B, C, {p}) /\ Holds(C, arg, p, "Object", v)

(* The coins of a Pay are merged into the first, which is worth them all. *)
LEMMA GatherCoins ==
  ASSUME NEW B, Live(B), NEW ids, Unused(B, ids), ids # <<>>,
         NEW r1, r1 = Obj(B, OwnedObject(Head(ids))), NEW r2, r2 = Objs(r1.b, Tail(ids)),
         NEW C, C = (IF r2.arg # <<>> THEN Command(r2.b, MergeCoins(r1.arg, r2.arg)).b ELSE r2.b), Fits(C)
  PROVE  \E p : Gathered(B, C, r1.arg, p, Worth(ids))
<1> DEFINE first == CoinBalance[Head(ids)]
           others == Worth(Tail(ids))
           merge == Command(r2.b, MergeCoins(r1.arg, r2.arg))
<1>1. Onto(B, r1, {ObjectKey(Head(ids))}) /\ Sound(B) /\ Sound(r1.b) /\ Unused(r1.b, Tail(ids))
  <2>1. Onto(B, r1, {ObjectKey(Head(ids))})
    BY HeadUnused, ObjOnto DEF Live
  <2>2. Sound(r1.b)
    BY <2>1 DEF Onto
  <2> QED BY <2>1, <2>2, TailUnused DEF Live
<1>2. Onto(r1.b, r2, CoinKeys(Tail(ids))) /\ Sound(r2.b)
  BY <1>1, ObjsOnto DEF Onto
<1>3. Onto(r2.b, merge, {})
  BY <1>2, CommandOnto
<1>4. Fits(r2.b)
  BY <1>2, <1>3, OntoFits
<1>5. Fits(r1.b)
  BY <1>1, <1>2, <1>4, OntoFits
<1>6. PICK p : Wider(B, r1.b, {p}) /\ Holds(r1.b, r1.arg, p, "Object", first) /\ p \in Slots(r1.b)
  BY <1>5, HeadUnused, AddObj
<1>7. Live(r1.b)
  BY <1>6 DEF Wider
<1>8. PICK Q : Registered(r1.b, r2, Tail(ids), Q)
  BY <1>1, <1>4, <1>7, AddObjs
<1>9. Wider(r1.b, r2.b, Q) /\ GasCoin \notin Q /\ StockOf(r2.b, r2.arg, {"Object"}, Q, others)
  BY <1>8 DEF Registered
<1>10. Live(r2.b) /\ Grows(r1.b, r2.b)
  BY <1>9 DEF Wider
<1>11. first \in Nat /\ others \in Nat /\ Worth(ids) = first + others
  BY HeadUnused
<1>12. p \in Slots(r2.b)
  BY <1>1, <1>2, <1>6, <1>10, ArgsGrow
<1> HIDE DEF first, others
<1>13. Holds(r2.b, r1.arg, p, "Object", first)
  BY <1>6, <1>7, <1>9, WiderHolds
<1> DEFINE U == {p} \cup Q
<1>14. Wider(B, r2.b, U)
  BY <1>6, <1>9, WiderOn
<1>15. p \notin Q /\ U \ {p} = Q /\ p \in U /\ GasCoin \notin U
  <2>1. p \in DOMAIN Run(r1.b).at
    BY <1>6 DEF Wider
  <2>2. p \notin Q
    BY <1>9, <2>1 DEF Wider
  <2>3. p # GasCoin
    BY <1>6, SlotTag DEF Slots
  <2> QED BY <1>9, <2>2, <2>3
<1> HIDE DEF U, merge
<1>16. CASE r2.arg # <<>>
  <2>1. C = Command(r2.b, MergeCoins(r1.arg, r2.arg)).b
    BY <1>16
  <2>2. StockOf(r2.b, r2.arg, {"Object"}, U \ {p}, others)
    BY <1>9, <1>15
  <2>3. Wider(B, C, {p}) /\ Holds(C, r1.arg, p, "Object", first + others)
    BY Zenon, <1>11, <1>13, <1>14, <1>15, <2>1, <2>2, MergeAll
  <2>4. p \in Slots(C)
    <3>1. Sound(C) /\ Grows(r2.b, C)
      BY <1>3, <2>1 DEF Onto, merge
    <3> QED BY <1>2, <1>12, <3>1, ArgsGrow
  <2> QED BY Zenon, <1>11, <2>3, <2>4 DEF Gathered
<1>17. CASE r2.arg = <<>>
  <2>1. C = r2.b
    BY <1>17
  <2>2. Len(r2.arg) = 0
    BY <1>17
  <2>3. Q = {} /\ others = 0
    BY <1>9, <2>2, StockOfEmpty
  <2>4. U = {p} /\ Worth(ids) = first
    BY <1>11, <2>3 DEF U
  <2> QED BY <1>12, <1>13, <1>14, <2>1, <2>4 DEF Gathered
<1> QED BY <1>16, <1>17

(* Pay *)
LEMMA DoPay ==
  ASSUME NEW B, Live(B), NEW ids, Unused(B, ids), NEW rs \in Seq(Addresses), NEW am \in Seq(Nat), Len(am) <= U16,
         NEW r, r = Pay(B, ids, rs, am), Fits(r.b)
  PROVE  /\ r.err # "none" => Keeps(B, r.b) /\ Run(r.b).got = Run(B).got
         /\ r.err = "none" /\ Total(am) <= Worth(ids) =>
              Keeps(B, r.b) /\ Run(r.b).got = PaidTo(Run(B).got, rs, am, Upto(rs, Len(rs)))
<1>1. CASE ids = <<>>
  <2>1. r = Outcome(B, NoArg, "CoinsEmpty")
    BY <1>1 DEF Pay
  <2> QED BY <2>1, KeepsSame DEF Outcome
<1>2. CASE ids # <<>>
  <2> DEFINE r1 == Obj(B, OwnedObject(Head(ids)))
             r2 == Objs(r1.b, Tail(ids))
             C == IF r2.arg # <<>> THEN Command(r2.b, MergeCoins(r1.arg, r2.arg)).b ELSE r2.b
             coin == r1.arg
             v == Worth(ids)
  <2>1. Onto(B, r1, {ObjectKey(Head(ids))}) /\ Sound(B) /\ Sound(r1.b) /\ Unused(r1.b, Tail(ids))
    <3>1. Onto(B, r1, {ObjectKey(Head(ids))})
      BY <1>2, HeadUnused, ObjOnto DEF Live
    <3>2. Sound(r1.b)
      BY <3>1 DEF Onto
    <3> QED BY <1>2, <3>1, <3>2, TailUnused DEF Live
  <2>2. Onto(r1.b, r2, CoinKeys(Tail(ids))) /\ Sound(r2.b)
    BY <2>1, ObjsOnto DEF Onto
  <2>3. Sound(C)
    <3>1. Onto(r2.b, Command(r2.b, MergeCoins(r1.arg, r2.arg)), {})
      BY <2>2, CommandOnto
    <3> QED BY <2>2, <3>1 DEF Onto
  <2>4. r = PayMulInternal(C, rs, am, coin)
    BY <1>2, <2>1, <2>2 DEF Pay, Then, Onto
  <2>5. r1 = Obj(B, OwnedObject(Head(ids))) /\ r2 = Objs(r1.b, Tail(ids))
        /\ C = (IF r2.arg # <<>> THEN Command(r2.b, MergeCoins(r1.arg, r2.arg)).b ELSE r2.b)
    OBVIOUS
  <2> HIDE DEF r1, r2, C
  <2>6. ASSUME Fits(C) PROVE \E p : Gathered(B, C, coin, p, v)
    BY <1>2, <2>5, <2>6, GatherCoins
  <2>7. v \in Nat
    BY ValuesNat DEF Unused
  <2> HIDE DEF coin, v
  <2>8. CASE Len(rs) # Len(am)
    <3>1. r = Outcome(C, NoArg, "LengthMismatch")
      BY <2>4, <2>8 DEF PayMulInternal
    <3>2. r.b = C /\ r.err # "none"
      BY <3>1 DEF Outcome
    <3>3. PICK p : Gathered(B, C, coin, p, v)
      BY <2>6, <3>2
    <3> QED BY <3>2, <3>3, KeepsInput DEF Gathered
  <2>9. CASE Len(rs) = Len(am) /\ am = <<>>
    <3>1. r = Outcome(C, NoArg, "none")
      BY <2>4, <2>9 DEF PayMulInternal
    <3>2. r.b = C /\ r.err = "none"
      BY <3>1 DEF Outcome
    <3>3. PICK p : Gathered(B, C, coin, p, v)
      BY <2>6, <3>2
    <3>4. Keeps(B, C) /\ Run(C).got = Run(B).got
      BY <3>3, KeepsInput DEF Gathered
    <3>5. Len(rs) = 0
      BY <2>9
    <3>6. PaidTo(Run(B).got, rs, am, Upto(rs, Len(rs))) = Run(B).got
      <4> DEFINE f == Run(B).got
      <4>1. IsFun(f)
        BY RunShape
      <4> HIDE DEF f
      <4>2. PaidTo(f, rs, am, Upto(rs, Len(rs))) = f
        BY <3>5, <4>1, PaidNone
      <4> QED BY <4>2 DEF f
    <3> QED BY <3>2, <3>4, <3>6
  <2>10. CASE Len(rs) = Len(am) /\ am # <<>>
    <3>1. r.err = "none" /\ Sound(r.b) /\ Grows(C, r.b)
      BY <2>3, <2>4, <2>10, PayMulOnto
    <3>2. Fits(C)
      BY <2>3, <3>1, FitsBefore
    <3>3. PICK p : Gathered(B, C, coin, p, v)
      BY <2>6, <3>2
    <3>4. Live(C) /\ p \in Slots(C) /\ Wider(B, C, {p}) /\ Holds(C, coin, p, "Object", v)
      BY <3>3 DEF Gathered, Wider
    <3>5. ASSUME Total(am) <= v PROVE PaysOut(C, r.b, p, rs, am)
      BY <2>4, <2>7, <2>10, <3>4, <3>5, DoPayMul
    <3>6. ASSUME Total(am) <= v PROVE Keeps(B, r.b) /\ Run(r.b).got = PaidTo(Run(B).got, rs, am, Upto(rs, Len(rs)))
      BY <3>4, <3>5, <3>6, PaysFromInput
    <3> QED BY <3>1, <3>6 DEF v
  <2> QED BY <2>8, <2>9, <2>10
<1> QED BY <1>1, <1>2

(***************************************************************************)
(* The calls of PTBTransfers.                                              *)
(***************************************************************************)
(* What is to be delivered, on top of f. *)
Owed(dues, a) == [i \in DOMAIN dues |-> IF dues[i][1] = a THEN dues[i][2] ELSE 0]
Paying(f, dues) == [a \in Accounts |-> f[a] + Total(Owed(dues, a))]

(* What is owed to one account. *)
LEMMA OneDue ==
  ASSUME NEW f, f \in [Accounts -> Nat], NEW account, NEW x \in Nat
  PROVE  Paying(f, <<<<account, x>>>>) = More(f, account, x)
<1> DEFINE dues == <<<<account, x>>>>
           g == Paying(f, dues)
           h == More(f, account, x)
<1>1. ASSUME NEW a \in Accounts
      PROVE  g[a] = h[a]
  <2>1. CASE a = account
    <3>1. Owed(dues, a) = <<x>>
      BY <2>1 DEF Owed
    <3>2. Total(Owed(dues, a)) = x
      BY <3>1, TotalOne
    <3>3. g[a] = f[a] + x
      BY <3>2 DEF Paying
    <3>4. h[a] = f[a] + x
      BY <2>1 DEF More
    <3> QED BY <3>3, <3>4
  <2>2. CASE a # account
    <3>1. Owed(dues, a) = <<0>>
      BY <2>2 DEF Owed
    <3>2. Total(Owed(dues, a)) = 0
      BY <3>1, TotalOne
    <3>3. g[a] = f[a] + 0 /\ f[a] \in Nat
      BY <3>2 DEF Paying
    <3>4. h[a] = f[a]
      BY <2>2 DEF More
    <3> QED BY <3>3, <3>4
  <2> QED BY <2>1, <2>2
<1>2. DOMAIN g = Accounts /\ g = [a \in Accounts |-> g[a]]
  BY DEF Paying
<1>3. DOMAIN h = Accounts /\ h = [a \in Accounts |-> h[a]]
  BY DEF More
<1> HIDE DEF g, h
<1>4. g = h
  BY <1>1, <1>2, <1>3
<1> QED BY <1>4 DEF g, h, dues

(* What is owed to two accounts, or twice to the same. *)
LEMMA TwoDues ==
  ASSUME NEW f, f \in [Accounts -> Nat], NEW one, NEW x \in Nat, NEW other, NEW y \in Nat
  PROVE  Paying(f, <<<<one, x>>, <<other, y>>>>) = More(More(f, one, x), other, y)
<1> DEFINE dues == <<<<one, x>>, <<other, y>>>>
           g == Paying(f, dues)
           k == More(f, one, x)
           h == More(k, other, y)
<1>0. DOMAIN k = Accounts /\ k = [a \in Accounts |-> k[a]] /\ \A a \in Accounts : k[a] = IF a = one THEN f[a] + x ELSE f[a]
  BY DEF More
<1>1. ASSUME NEW a \in Accounts
      PROVE  g[a] = h[a]
  <2>0. f[a] \in Nat /\ g[a] = f[a] + Total(Owed(dues, a))
    BY DEF Paying
  <2>1. CASE a = one /\ a # other
    <3>1. Owed(dues, a) = <<x, 0>>
      BY <2>1 DEF Owed
    <3>2. Total(Owed(dues, a)) = x + 0
      BY <3>1, TotalTwo
    <3>3. k[a] = f[a] + x
      BY <1>0, <2>1
    <3> HIDE DEF k, g, dues
    <3>4. h[a] = k[a]
      BY <1>0, <2>1 DEF More
    <3> HIDE DEF h
    <3> QED BY <2>0, <3>2, <3>3, <3>4
  <2>2. CASE a = other /\ a # one
    <3>1. Owed(dues, a) = <<0, y>>
      BY <2>2 DEF Owed
    <3>2. Total(Owed(dues, a)) = 0 + y
      BY <3>1, TotalTwo
    <3>3. k[a] = f[a]
      BY <1>0, <2>2
    <3> HIDE DEF k, g, dues
    <3>4. h[a] = k[a] + y
      BY <1>0, <2>2 DEF More
    <3> HIDE DEF h
    <3> QED BY <2>0, <3>2, <3>3, <3>4
  <2>3. CASE a # one /\ a # other
    <3>1. Owed(dues, a) = <<0, 0>>
      BY <2>3 DEF Owed
    <3>2. Total(Owed(dues, a)) = 0 + 0
      BY <3>1, TotalTwo
    <3>3. k[a] = f[a]
      BY <1>0, <2>3
    <3> HIDE DEF k, g, dues
    <3>4. h[a] = k[a]
      BY <1>0, <2>3 DEF More
    <3> HIDE DEF h
    <3> QED BY <2>0, <3>2, <3>3, <3>4
  <2>4. CASE a = one /\ a = other
    <3>1. Owed(dues, a) = <<x, y>>
      BY <2>4 DEF Owed
    <3>2. Total(Owed(dues, a)) = x + y
      BY <3>1, TotalTwo
    <3>3. k[a] = f[a] + x
      BY <1>0, <2>4
    <3> HIDE DEF k, g, dues
    <3>4. h[a] = k[a] + y
      BY <1>0, <2>4 DEF More
    <3> HIDE DEF h
    <3> QED BY <2>0, <3>2, <3>3, <3>4
  <2> QED BY <2>1, <2>2, <2>3, <2>4
<1>2. DOMAIN g = Accounts /\ g = [a \in Accounts |-> g[a]]
  BY DEF Paying
<1> HIDE DEF k
<1>3. DOMAIN h = Accounts /\ h = [a \in Accounts |-> h[a]]
  BY <1>0 DEF More
<1> HIDE DEF g, h
<1>4. g = h
  BY <1>1, <1>2, <1>3
<1> QED BY <1>4 DEF g, h, dues, k

(* A payment's dues are what the recipients are paid. *)
LEMMA PaymentDues ==
  ASSUME NEW f, f \in [Accounts -> Nat], NEW rs \in Seq(Addresses), NEW am \in Seq(Nat), Len(rs) = Len(am),
         NEW dues, dues = [i \in DOMAIN rs |-> <<<<rs[i], "coin">>, am[i]>>]
  PROVE  Paying(f, dues) = PaidTo(f, rs, am, Upto(rs, Len(rs)))
<1> DEFINE L == Len(rs)
           J == Upto(rs, L)
           g == Paying(f, dues)
           h == PaidTo(f, rs, am, J)
<1>1. L \in Nat /\ DOMAIN rs = 1..L /\ DOMAIN am = 1..L /\ \A i \in 1..L : am[i] \in Nat
  OBVIOUS
<1>2. ASSUME NEW a \in Accounts
      PROVE  g[a] = h[a]
  <2>0. f[a] \in Nat /\ g[a] = f[a] + Total(Owed(dues, a))
    BY DEF Paying
  <2>1. Owed(dues, a) = [i \in 1..L |-> IF <<rs[i], "coin">> = a THEN am[i] ELSE 0]
    BY <1>1 DEF Owed
  <2>2. CASE \E v \in J : a = <<v, "coin">>
    <3>1. h[a] = f[a] + Total(Masked(rs, am, a[1]))
      BY <2>2 DEF PaidTo
    <3>2. \A i \in 1..L : <<rs[i], "coin">> = a <=> rs[i] = a[1]
      BY <2>2
    <3>3. Masked(rs, am, a[1]) = [i \in 1..L |-> IF rs[i] = a[1] THEN am[i] ELSE 0]
      BY DEF Masked
    <3>4. Owed(dues, a) = Masked(rs, am, a[1])
      BY <2>1, <3>2, <3>3
    <3> QED BY <2>0, <3>1, <3>4
  <2>3. CASE ~ \E v \in J : a = <<v, "coin">>
    <3>1. h[a] = f[a]
      BY <2>3 DEF PaidTo
    <3>2. \A i \in 1..L : <<rs[i], "coin">> # a
      BY <2>3 DEF Upto
    <3>3. Owed(dues, a) = [i \in 1..L |-> 0]
      BY <2>1, <3>2
    <3> DEFINE z == [i \in 1..L |-> 0]
    <3>4. z \in Seq(Nat) /\ Len(z) = L /\ \A i \in 1..L : z[i] = 0
      BY <1>1
    <3> HIDE DEF z, L
    <3>5. Total(z) = 0
      BY <3>4, TotalZero
    <3>6. Total(Owed(dues, a)) = 0
      BY <3>3, <3>5 DEF z
    <3> HIDE DEF g, h
    <3> QED BY <2>0, <3>1, <3>6
  <2> QED BY <2>2, <2>3
<1>3. DOMAIN g = Accounts /\ g = [a \in Accounts |-> g[a]]
  BY DEF Paying
<1>4. DOMAIN h = Accounts /\ h = [a \in Accounts |-> h[a]]
  BY DEF PaidTo
<1> HIDE DEF g, h
<1>5. g = h
  BY <1>2, <1>3, <1>4
<1> QED BY <1>5 DEF g, h, J, L

(* The coins of a call have not been named before. *)
LEMMA ListsUnused ==
  ASSUME NEW coins \in CoinLists
  PROVE  Unused(b, coins)
<1>1. PICK cs \in SUBSET FreeCoins : coins = SetToSeq(cs)
  BY DEF CoinLists
<1>2. cs \subseteq DOMAIN CoinBalance /\ \A c \in cs : ObjectKey(c) \notin DOMAIN b.inputs
  BY <1>1 DEF FreeCoins
<1>3. IsFiniteSet(cs)
  BY <1>2, FS_Subset, TransferAssumptions
<1> DEFINE n == Cardinality(cs)
<1>4. n \in Nat /\ ExistsBijection(1..n, cs)
  BY <1>3, FS_CardinalityType
<1> HIDE DEF n
<1>5. \E f \in [1..n -> cs] : IsInjective(f)
  BY <1>4 DEF ExistsBijection, Bijection, Injection, IsInjective
<1>6. coins \in [1..n -> cs] /\ IsInjective(coins)
  BY <1>1, <1>5 DEF SetToSeq, n
<1>7. coins \in Seq(DOMAIN CoinBalance) /\ Len(coins) = n
  <2>1. coins \in [1..n -> DOMAIN CoinBalance]
    BY <1>2, <1>6
  <2> QED BY <1>4, <2>1
<1>8. \A i \in 1..Len(coins) : ObjectKey(coins[i]) \notin DOMAIN b.inputs
  BY <1>2, <1>6, <1>7
<1>9. \A i, j \in 1..Len(coins) : coins[i] = coins[j] => i = j
  BY <1>6, <1>7 DEF IsInjective
<1> QED BY <1>7, <1>8, <1>9 DEF Unused

(* Between two calls: the commands execute, nothing is left in a result,    *)
(* and g is in the gas coin, if there is a gas coin still.                  *)
Settled(B, g) ==
  /\ Live(B) /\ DOMAIN Run(B).at \subseteq {GasCoin} \cup Slots(B)
  /\ g # Spent => GasCoin \in DOMAIN Run(B).at /\ Run(B).at[GasCoin] = g

(* The machine between two calls. *)
LEMMA SettledShape ==
  ASSUME NEW B, NEW g, Settled(B, g)
  PROVE  Live(B) /\ Sound(B) /\ Run(B).got \in [Accounts -> Nat] /\ IsFun(Run(B).at)
BY LiveShape, RunShape DEF Settled

(* A builder whose machine has the same places is settled. *)
LEMMA SettledSame ==
  ASSUME NEW B, NEW g, Settled(B, g), NEW C, Live(C), Grows(B, C), Run(C).at = Run(B).at
  PROVE  Settled(C, g)
<1>1. Slots(B) \subseteq Slots(C)
  BY ArgsGrow DEF Settled, Live
<1> QED BY <1>1 DEF Settled

(* So is one that left coins at inputs. *)
LEMMA SettledKeeps ==
  ASSUME NEW B, NEW g, Settled(B, g), NEW C, Keeps(B, C)
  PROVE  Settled(C, g)
<1>1. Slots(B) \subseteq Slots(C)
  BY ArgsGrow DEF Settled, Live, Keeps
<1> QED BY <1>1 DEF Settled, Keeps

(* So is one that drew from the gas coin. *)
LEMMA SettledLess ==
  ASSUME NEW B, NEW g \in Nat, Settled(B, g), NEW C, Live(C), Grows(B, C), NEW x \in Nat, x <= g,
         Run(C).at = Less(Run(B).at, GasCoin, x)
  PROVE  Settled(C, g - x)
<1> DEFINE at == Run(B).at
           q == Run(C).at
<1>0. g # Spent /\ g - x \in Nat
  BY DEF Spent
<1>1. Slots(B) \subseteq Slots(C)
  BY ArgsGrow DEF Settled, Live
<1>2. IsFun(at) /\ GasCoin \in DOMAIN at /\ at[GasCoin] = g /\ DOMAIN at \subseteq {GasCoin} \cup Slots(B)
  BY <1>0, SettledShape DEF Settled
<1>3. q = Less(at, GasCoin, x)
  OBVIOUS
<1> HIDE DEF at, q
<1>4. DOMAIN q = DOMAIN at /\ q[GasCoin] = g - x
  BY <1>2, <1>3, LessFacts
<1> QED BY <1>1, <1>2, <1>4 DEF Settled, q

(* So is one that spent the gas coin. *)
LEMMA SettledSpent ==
  ASSUME NEW B, NEW g, Settled(B, g), NEW C, NEW account, NEW x, Spends(B, C, {GasCoin}, account, x)
  PROVE  Settled(C, Spent)
<1>1. Live(C) /\ Grows(B, C) /\ Run(C).at = Without(Run(B).at, {GasCoin})
  BY DEF Spends
<1>2. Slots(B) \subseteq Slots(C)
  BY <1>1, ArgsGrow DEF Settled, Live
<1>3. DOMAIN Run(C).at \subseteq DOMAIN Run(B).at
  BY <1>1 DEF Without
<1> QED BY <1>1, <1>2, <1>3 DEF Settled

(* What it executes to. *)
LEMMA SettledExecutes ==
  ASSUME NEW B, NEW g, Settled(B, g)
  PROVE  Execute(Finish(B)) = Run(B) /\ Run(B).err = "none"
<1>1. \A p \in DOMAIN Run(B).at : p[1] # "NestedResult"
  <2> TAKE p \in DOMAIN Run(B).at
  <2>1. p = GasCoin \/ p \in Slots(B)
    BY DEF Settled
  <2>2. p = GasCoin => p[1] # "NestedResult"
    BY DEF GasCoin
  <2>3. p \in Slots(B) => p[1] # "NestedResult"
    BY SlotTag DEF Slots
  <2> QED BY <2>1, <2>2, <2>3
<1> QED BY <1>1, ExecuteIs DEF Settled, Live

(* A new builder. *)
LEMMA NewSettled ==
  /\ Settled(NewBuilder, GasBalance) /\ Run(NewBuilder).got = NothingPaid
  /\ DOMAIN Run(NewBuilder).at = {GasCoin}
<1> DEFINE B == NewBuilder
<1>1. B.order = <<>> /\ B.commands = <<>> /\ DOMAIN B.inputs = {} /\ Len(B.order) = 0 /\ Len(B.commands) = 0
  BY DEF NewBuilder
<1>2. Sound(B)
  <2>1. B = [inputs |-> B.inputs, order |-> B.order, commands |-> B.commands]
    BY DEF NewBuilder
  <2>2. IsFiniteSet(DOMAIN B.inputs) /\ Cardinality(DOMAIN B.inputs) = 0
    BY <1>1, FS_EmptySet
  <2>3. IsSeq(B.commands) /\ B.order \in Seq(DOMAIN B.inputs)
    BY <1>1 DEF IsSeq
  <2> HIDE DEF B
  <2> QED BY <1>1, <2>1, <2>2, <2>3 DEF Sound
<1> HIDE DEF B
<1>3. Run(B) = Load(Finish(B))
  BY <1>1, <1>2, RanFacts DEF Run
<1>4. Slots(B) = {}
  BY <1>1 DEF Slots, Held
<1>5. /\ Run(B).err = "none" /\ Run(B).got = NothingPaid /\ DOMAIN Run(B).at = {GasCoin} \cup Slots(B)
      /\ Run(B).at[GasCoin] = GasBalance
  BY <1>2, <1>3, LoadFacts
<1>6. CmdsOK(B)
  BY <1>1 DEF CmdsOK
<1> QED BY <1>2, <1>4, <1>5, <1>6 DEF Settled, Live, B

(* C is B after a call that owed dues; g is in the gas coin now. *)
Done(B, C, g, dues) == Settled(C, g) /\ Run(C).got = Paying(Run(B).got, dues)

(* A call that delivers is done. *)
LEMMA DoneDelivers ==
  ASSUME NEW B, NEW g, Settled(B, g), NEW C, NEW account, NEW x \in Nat, Delivers(B, C, account, x)
  PROVE  Done(B, C, g, <<<<account, x>>>>)
<1>1. Live(C) /\ Grows(B, C) /\ Run(C).at = Run(B).at /\ Run(C).got = More(Run(B).got, account, x)
  BY DEF Delivers
<1>2. Settled(C, g)
  BY <1>1, SettledSame
<1>3. Run(B).got \in [Accounts -> Nat]
  BY SettledShape
<1> QED BY <1>1, <1>2, <1>3, OneDue DEF Done

(* A call that leaves a coin is done. *)
LEMMA DoneKeeps ==
  ASSUME NEW B, NEW g, Settled(B, g), NEW C, NEW account, NEW x \in Nat, LeavesCoin(B, C, account, x)
  PROVE  Done(B, C, g, <<<<account, x>>>>)
<1>1. Keeps(B, C) /\ Run(C).got = More(Run(B).got, account, x)
  BY KeepsCoin DEF LeavesCoin
<1>2. Settled(C, g)
  BY <1>1, SettledKeeps
<1>3. Run(B).got \in [Accounts -> Nat]
  BY SettledShape
<1> QED BY <1>1, <1>2, <1>3, OneDue DEF Done

(* A call that spends the gas coin is done. *)
LEMMA DoneSpent ==
  ASSUME NEW B, NEW g, Settled(B, g), NEW C, NEW account, NEW x \in Nat, Spends(B, C, {GasCoin}, account, x)
  PROVE  Done(B, C, Spent, <<<<account, x>>>>)
<1>1. Settled(C, Spent) /\ Run(C).got = More(Run(B).got, account, x)
  BY SettledSpent DEF Spends
<1>3. Run(B).got \in [Accounts -> Nat]
  BY SettledShape
<1> QED BY <1>1, <1>3, OneDue DEF Done

(* A call that draws from the gas coin is done. *)
LEMMA DoneDraws ==
  ASSUME NEW B, NEW g \in Nat, Settled(B, g), NEW C, NEW account, NEW x \in Nat, x <= g, Draws(B, C, GasCoin, x, account)
  PROVE  Done(B, C, g - x, <<<<account, x>>>>)
<1>1. Live(C) /\ Grows(B, C) /\ Run(C).at = Less(Run(B).at, GasCoin, x) /\ Run(C).got = More(Run(B).got, account, x)
  BY DEF Draws
<1>2. Settled(C, g - x)
  BY <1>1, SettledLess
<1>3. Run(B).got \in [Accounts -> Nat]
  BY SettledShape
<1> QED BY <1>1, <1>2, <1>3, OneDue DEF Done

(* Only gasless transfers were called. *)
Gasless == \A i \in DOMAIN calls : calls[i].method = "GaslessTransfer"

(***************************************************************************)
(* The inductive invariant.                                                *)
(***************************************************************************)
IInv ==
  /\ Settled(b, gas)
  /\ Run(b).got = promised
  /\ gas \in Nat \cup {Spent}
  /\ IsSeq(calls)
  /\ Gasless => /\ DOMAIN Run(b).at = {GasCoin} /\ gas = GasBalance
                /\ \A a \in Addresses : promised[<<a, "coin">>] = 0

(* The history after a call. *)
LEMMA CallsMade ==
  ASSUME IsSeq(calls), NEW method, NEW r, NEW dues, Make(method, r, dues)
  PROVE  /\ IsSeq(calls') /\ (method # "GaslessTransfer" => ~ Gasless')
         /\ (Gasless' => Gasless)
         /\ Len(calls') = Len(calls) + 1
         /\ calls'[Len(calls')] = [method |-> method, err |-> r.err]
<1> DEFINE e == [method |-> method, err |-> r.err]
           n == Len(calls)
<1>1. calls' = Append(calls, e)
  BY DEF Make
<1>2. e.method = method
  OBVIOUS
<1> HIDE DEF e
<1>3. n \in Nat /\ DOMAIN calls = 1..n
  <2>1. calls \in Seq({calls[i] : i \in DOMAIN calls})
    BY DEF IsSeq
  <2> QED BY <2>1
<1>4. /\ IsSeq(Append(calls, e)) /\ Len(Append(calls, e)) = n + 1
      /\ Append(calls, e)[n + 1] = e /\ \A i \in 1..n : Append(calls, e)[i] = calls[i]
  BY AppendIsSeq
<1>5. DOMAIN Append(calls, e) = 1..(n + 1)
  BY <1>4 DEF IsSeq
<1>6. n + 1 \in 1..(n + 1)
  BY <1>3
<1>7. method # "GaslessTransfer" => ~ Gasless'
  BY <1>1, <1>2, <1>4, <1>5, <1>6 DEF Gasless
<1>8. Gasless' => Gasless
  <2> SUFFICES ASSUME Gasless', NEW i \in DOMAIN calls PROVE calls[i].method = "GaslessTransfer"
    BY DEF Gasless
  <2>1. i \in 1..n /\ i \in 1..(n + 1)
    BY <1>3
  <2>2. calls'[i].method = "GaslessTransfer"
    BY <1>1, <1>5, <2>1 DEF Gasless
  <2> QED BY <1>1, <1>4, <2>1, <2>2
<1> QED BY <1>1, <1>4, <1>7, <1>8 DEF e

(* A call of another method keeps the invariant. *)
LEMMA Called ==
  ASSUME IInv, NEW method, method # "GaslessTransfer", NEW r, NEW dues, Make(method, r, dues),
         gas' \in Nat \cup {Spent},
         r.err # "none" => Settled(r.b, gas') /\ Run(r.b).got = Run(b).got,
         r.err = "none" => Done(b, r.b, gas', dues)
  PROVE  IInv'
<1>1. b' = r.b /\ promised' = IF r.err # "none" THEN promised ELSE Paying(promised, dues)
  BY DEF Make, Paying, Owed
<1>2. Run(b).got = promised
  BY DEF IInv
<1>3. IsSeq(calls') /\ ~ Gasless'
  BY CallsMade DEF IInv
<1>4. Settled(b', gas') /\ Run(b').got = promised'
  BY <1>1, <1>2 DEF Done
<1> QED BY <1>3, <1>4 DEF IInv

(* The calls of PTBTransfers keep the invariant. *)
LEMMA IInvShape ==
  ASSUME IInv
  PROVE  /\ Settled(b, gas) /\ Live(b) /\ Sound(b) /\ gas \in Nat \cup {Spent}
         /\ Run(b).got \in [Accounts -> Nat]
         /\ gas # Spent => gas \in Nat /\ GasCoin \in DOMAIN Run(b).at /\ Run(b).at[GasCoin] = gas
<1>1. Settled(b, gas) /\ gas \in Nat \cup {Spent}
  BY DEF IInv
<1> QED BY <1>1, SettledShape DEF Settled

(* Coins are worth a number. *)
LEMMA WorthNat ==
  ASSUME NEW B, NEW ids, Unused(B, ids)
  PROVE  Worth(ids) \in Nat
BY ValuesNat DEF Unused

(* TransferObject. *)
LEMMA TransferObjectKeeps ==
  ASSUME IInv, NEW recipient \in Addresses, NEW coins \in CoinLists, CallTransferObject(recipient, coins)
  PROVE  IInv'
<1> DEFINE r == TransferObject(b, recipient, coins)
           dues == <<<<<<recipient, "coin">>, Worth(coins)>>>>
<1>1. Make("TransferObject", r, dues) /\ gas' = gas
  BY DEF CallTransferObject
<1>2. Unused(b, coins)
  BY ListsUnused
<1>3. Worth(coins) \in Nat
  BY <1>2, WorthNat
<1>4. Fits(r.b)
  BY <1>1 DEF Make
<1>5. r.err = "none" /\ Delivers(b, r.b, <<recipient, "coin">>, Worth(coins))
  BY <1>2, <1>4, DoTransferObject, IInvShape
<1>6. Done(b, r.b, gas, dues)
  BY <1>3, <1>5, DoneDelivers, IInvShape
<1> HIDE DEF r, dues
<1> QED BY <1>1, <1>5, <1>6, Called, IInvShape

(* A MoveCall with coins. *)
LEMMA DepositKeeps ==
  ASSUME IInv, NEW coins \in CoinLists, CallDeposit(coins)
  PROVE  IInv'
<1> DEFINE r == MoveCall(b, "deposit", [i \in DOMAIN coins |-> ObjectCallArg(OwnedObject(coins[i]))])
           dues == <<<<<<Pool, "coin">>, Worth(coins)>>>>
<1>1. Make("MoveCall", r, dues) /\ gas' = gas
  BY DEF CallDeposit
<1>2. Unused(b, coins)
  BY ListsUnused
<1>3. Worth(coins) \in Nat
  BY <1>2, WorthNat
<1>4. Fits(r.b)
  BY <1>1 DEF Make
<1>5. r.err = "none" /\ Delivers(b, r.b, <<Pool, "coin">>, Worth(coins))
  BY <1>2, <1>4, DoDeposit, IInvShape
<1>6. Done(b, r.b, gas, dues)
  BY <1>3, <1>5, DoneDelivers, IInvShape
<1> HIDE DEF r, dues
<1> QED BY <1>1, <1>5, <1>6, Called, IInvShape

(* MakeObjList, and the command that uses its list. *)
LEMMA DepositListKeeps ==
  ASSUME IInv, NEW coins \in CoinLists, CallDepositList(coins)
  PROVE  IInv'
<1> DEFINE r == Then(MakeObjList(b, [i \in DOMAIN coins |-> OwnedObject(coins[i])]),
                     LAMBDA b1, list : Command(b1, MoveCallCommand("deposit", <<list>>)))
           dues == <<<<<<Pool, "coin">>, Worth(coins)>>>>
<1>1. Make("MakeObjList", r, dues) /\ gas' = gas
  BY Zenon DEF CallDepositList
<1>2. Unused(b, coins)
  BY ListsUnused
<1>3. Worth(coins) \in Nat
  BY <1>2, WorthNat
<1>4. Fits(r.b)
  BY Zenon, <1>1 DEF Make
<1>5. r.err = "none" /\ Delivers(b, r.b, <<Pool, "coin">>, Worth(coins))
  BY Zenon, <1>2, <1>4, DoDepositList, IInvShape
<1>6. Done(b, r.b, gas, dues)
  BY Zenon, <1>3, <1>5, DoneDelivers, IInvShape
<1> HIDE DEF r, dues
<1> QED BY <1>1, <1>5, <1>6, Called, IInvShape

(* PayAllSui. *)
LEMMA PayAllSuiKeeps ==
  ASSUME IInv, NEW recipient \in Addresses, CallPayAllSui(recipient)
  PROVE  IInv'
<1> DEFINE r == PayAllSui(b, recipient)
           dues == <<<<<<recipient, "coin">>, gas>>>>
<1>1. Make("PayAllSui", r, dues) /\ gas # Spent /\ gas' = Spent
  BY DEF CallPayAllSui
<1>2. Fits(r.b)
  BY <1>1 DEF Make
<1>3. gas \in Nat /\ GasCoin \in DOMAIN Run(b).at /\ Run(b).at[GasCoin] = gas /\ Live(b) /\ Settled(b, gas)
  BY <1>1, IInvShape
<1>4. r.err = "none" /\ Spends(b, r.b, {GasCoin}, <<recipient, "coin">>, Run(b).at[GasCoin])
  BY <1>2, <1>3, DoPayAllSui
<1>5. Done(b, r.b, Spent, dues)
  BY <1>3, <1>4, DoneSpent
<1> HIDE DEF r, dues
<1> QED BY <1>1, <1>4, <1>5, Called

(* TransferSui, of the whole gas coin or of an amount. *)
LEMMA TransferSuiKeeps ==
  ASSUME IInv, NEW recipient \in Addresses, NEW amount \in Nat \cup {NoAmount}, CallTransferSui(recipient, amount)
  PROVE  IInv'
<1> DEFINE r == TransferSui(b, recipient, amount)
           dues == <<<<<<recipient, "coin">>, IF amount = NoAmount THEN gas ELSE amount>>>>
<1>1. Make("TransferSui", r, dues) /\ gas # Spent /\ gas >= amount
  BY DEF CallTransferSui
<1>2. gas' = IF amount = NoAmount THEN Spent ELSE gas - amount
  BY DEF CallTransferSui
<1>3. Fits(r.b)
  BY <1>1 DEF Make
<1>4. gas \in Nat /\ GasCoin \in DOMAIN Run(b).at /\ Run(b).at[GasCoin] = gas /\ Live(b) /\ Settled(b, gas)
  BY <1>1, IInvShape
<1>5. CASE amount = NoAmount
  <2>1. r.err = "none" /\ Spends(b, r.b, {GasCoin}, <<recipient, "coin">>, Run(b).at[GasCoin])
    BY <1>3, <1>4, <1>5, DoTransferAllSui
  <2>2. Done(b, r.b, Spent, dues)
    BY <1>4, <1>5, <2>1, DoneSpent
  <2>3. gas' = Spent
    BY <1>2, <1>5
  <2> HIDE DEF r, dues
  <2> QED BY <1>1, <2>1, <2>2, <2>3, Called
<1>6. CASE amount # NoAmount
  <2>1. amount \in Nat /\ amount <= gas
    BY <1>1, <1>4, <1>6
  <2>2. r.err = "none" /\ Draws(b, r.b, GasCoin, amount, <<recipient, "coin">>)
    BY <1>3, <1>4, <2>1, DoTransferSui
  <2>3. Done(b, r.b, gas - amount, dues)
    BY <1>4, <1>6, <2>1, <2>2, DoneDraws
  <2>4. gas' = gas - amount /\ gas - amount \in Nat
    BY <1>2, <1>4, <1>6, <2>1
  <2> HIDE DEF r, dues
  <2> QED BY <1>1, <2>2, <2>3, <2>4, Called
<1> QED BY <1>5, <1>6

(* A payment is affordable lists of recipients and amounts. *)
LEMMA PaymentShape ==
  ASSUME NEW payment \in Payments, NEW rs, rs = payment[1], NEW am, am = payment[2]
  PROVE  rs \in Seq(Addresses) /\ am \in Seq(Nat) /\ Len(am) <= U16 /\ Total(am) \in Nat
<1>1. payment \in Seq(Addresses) \X Seq(Nat) /\ Len(payment[2]) <= U16
  BY TransferAssumptions
<1>2. rs \in Seq(Addresses) /\ am \in Seq(Nat) /\ Len(am) <= U16
  BY <1>1
<1> QED BY <1>2, TotalNat

(* Lists of different lengths are rejected. *)
LEMMA PaysEqual ==
  ASSUME NEW B, NEW rs, NEW am, NEW coin, PayMulInternal(B, rs, am, coin).err = "none"
  PROVE  Len(rs) = Len(am)
BY Zenon DEF PayMulInternal, Outcome

(* PaySui: rejected, of no amounts, or of some. *)
LEMMA PaySuiKeeps ==
  ASSUME IInv, NEW payment \in Payments, CallPaySui(payment)
  PROVE  IInv'
<1> DEFINE rs == payment[1]
           am == payment[2]
           r == PaySui(b, rs, am)
           dues == CoinDues(payment)
<1>1. Make("PaySui", r, dues)
  BY DEF CallPaySui
<1>2. r.err = "none" /\ am # <<>> => gas >= Total(am)
  BY DEF CallPaySui, Accepted
<1>3. gas' = IF r.err = "none" THEN gas - Total(am) ELSE gas
  BY DEF CallPaySui, Accepted
<1>4. Fits(r.b)
  BY <1>1 DEF Make
<1>5. rs \in Seq(Addresses) /\ am \in Seq(Nat) /\ Len(am) <= U16 /\ Total(am) \in Nat
  BY PaymentShape
<1>6. r.err = "none" => Len(rs) = Len(am)
  BY PaysEqual DEF PaySui
<1>7. dues = [i \in DOMAIN rs |-> <<<<rs[i], "coin">>, am[i]>>]
  BY DEF CoinDues
<1>8. /\ r.err # "none" => r.b = b
      /\ r.err = "none" /\ am = <<>> => r.b = b /\ Len(rs) = 0
      /\ r.err = "none" /\ am # <<>> /\ GasCoin \in DOMAIN Run(b).at /\ Total(am) <= Run(b).at[GasCoin] =>
           PaysOut(b, r.b, GasCoin, rs, am)
  BY <1>4, <1>5, DoPaySui, IInvShape
<1>9. Settled(b, gas) /\ Live(b) /\ Run(b).got \in [Accounts -> Nat]
  BY IInvShape
<1> HIDE DEF r, dues, rs, am
<1>10. CASE r.err # "none"
  <2>1. r.b = b /\ gas' = gas
    BY <1>3, <1>8, <1>10
  <2> QED BY <1>1, <1>9, <1>10, <2>1, Called, IInvShape
<1>11. CASE r.err = "none" /\ am = <<>>
  <2>1. r.b = b /\ Len(rs) = 0 /\ Total(am) = 0
    BY <1>8, <1>11, TotalEmpty
  <2>2. gas' = gas
    BY <1>3, <1>11, <2>1, IInvShape DEF Spent
  <2>3. IsFun(Run(b).got)
    BY <1>9, RunShape
  <2>4. PaidTo(Run(b).got, rs, am, Upto(rs, Len(rs))) = Run(b).got
    BY <1>5, <2>1, <2>3, PaidNone
  <2>5. Len(rs) = Len(am)
    BY <1>6, <1>11
  <2>6. Run(b).got = Paying(Run(b).got, dues)
    BY <1>5, <1>7, <1>9, <2>4, <2>5, PaymentDues
  <2>7. Done(b, r.b, gas, dues)
    BY <1>9, <2>1, <2>6 DEF Done
  <2> QED BY <1>1, <1>11, <2>2, <2>7, Called, IInvShape
<1>12. CASE r.err = "none" /\ am # <<>>
  <2>1. gas >= Total(am) /\ gas # Spent
    BY <1>2, <1>5, <1>12, IInvShape DEF Spent
  <2>2. gas \in Nat /\ GasCoin \in DOMAIN Run(b).at /\ Run(b).at[GasCoin] = gas
    BY <2>1, IInvShape
  <2>3. PaysOut(b, r.b, GasCoin, rs, am)
    BY <1>5, <1>8, <1>12, <2>1, <2>2
  <2>4. gas' = gas - Total(am) /\ gas - Total(am) \in Nat
    BY <1>3, <1>5, <1>12, <2>1, <2>2
  <2>5. /\ Live(r.b) /\ Grows(b, r.b) /\ Run(r.b).at = Less(Run(b).at, GasCoin, Total(am))
        /\ Run(r.b).got = PaidTo(Run(b).got, rs, am, Upto(rs, Len(rs)))
    BY <2>3 DEF PaysOut
  <2>6. Total(am) <= gas
    BY <1>5, <2>1, <2>2
  <2>7. Settled(r.b, gas - Total(am))
    BY <1>5, <1>9, <2>2, <2>5, <2>6, SettledLess
  <2>8. Run(r.b).got = Paying(Run(b).got, dues)
    BY <1>5, <1>6, <1>7, <1>9, <1>12, <2>5, PaymentDues
  <2>9. Done(b, r.b, gas - Total(am), dues)
    BY <2>7, <2>8 DEF Done
  <2> QED BY <1>1, <1>12, <2>4, <2>9, Called
<1> QED BY <1>10, <1>11, <1>12

(* Pay: rejected, or paid from the coins. *)
LEMMA PayKeeps ==
  ASSUME IInv, NEW coins \in CoinLists, NEW payment \in Payments, CallPay(coins, payment)
  PROVE  IInv'
<1> DEFINE rs == payment[1]
           am == payment[2]
           r == Pay(b, coins, rs, am)
           dues == CoinDues(payment)
<1>1. Make("Pay", r, dues) /\ gas' = gas
  BY DEF CallPay
<1>2. r.err = "none" => Worth(coins) >= Total(am)
  BY DEF CallPay, Accepted
<1>4. Fits(r.b)
  BY <1>1 DEF Make
<1>5. rs \in Seq(Addresses) /\ am \in Seq(Nat) /\ Len(am) <= U16 /\ Total(am) \in Nat
  BY PaymentShape
<1>6. r.err = "none" => Len(rs) = Len(am)
  BY PaysEqual DEF Pay, Then, Outcome
<1>7. dues = [i \in DOMAIN rs |-> <<<<rs[i], "coin">>, am[i]>>]
  BY DEF CoinDues
<1>8. Unused(b, coins)
  BY ListsUnused
<1>9. Settled(b, gas) /\ Live(b) /\ Run(b).got \in [Accounts -> Nat] /\ gas \in Nat \cup {Spent}
  BY IInvShape
<1>10. /\ r.err # "none" => Keeps(b, r.b) /\ Run(r.b).got = Run(b).got
       /\ r.err = "none" /\ Total(am) <= Worth(coins) =>
            Keeps(b, r.b) /\ Run(r.b).got = PaidTo(Run(b).got, rs, am, Upto(rs, Len(rs)))
  BY <1>4, <1>5, <1>8, <1>9, DoPay
<1>11. Worth(coins) \in Nat
  BY <1>8, WorthNat
<1> HIDE DEF r, dues, rs, am
<1>12. CASE r.err # "none"
  <2>1. Settled(r.b, gas)
    BY <1>9, <1>10, <1>12, SettledKeeps
  <2> QED BY <1>1, <1>9, <1>10, <1>12, <2>1, Called
<1>13. CASE r.err = "none"
  <2>1. Total(am) <= Worth(coins)
    BY <1>2, <1>5, <1>11, <1>13
  <2>2. Settled(r.b, gas) /\ Run(r.b).got = PaidTo(Run(b).got, rs, am, Upto(rs, Len(rs)))
    BY <1>9, <1>10, <1>13, <2>1, SettledKeeps
  <2>3. Run(r.b).got = Paying(Run(b).got, dues)
    BY <1>5, <1>6, <1>7, <1>9, <1>13, <2>2, PaymentDues
  <2>4. Done(b, r.b, gas, dues)
    BY <2>2, <2>3 DEF Done
  <2> QED BY <1>1, <1>9, <1>13, <2>4, Called
<1> QED BY <1>12, <1>13

(* WithdrawalTransfer: rejected, from the balance, or with coins. *)
LEMMA WithdrawalTransferKeeps ==
  ASSUME IInv, NEW recipient \in Addresses, NEW coins \in CoinLists, NEW amount \in Amounts, NEW withdrawal \in Amounts,
         CallWithdrawalTransfer(recipient, coins, amount, withdrawal)
  PROVE  IInv'
<1> DEFINE r == WithdrawalTransfer(b, recipient, coins, amount, withdrawal)
           dues == <<<<<<recipient, "coin">>, amount>>>>
<1>1. Make("WithdrawalTransfer", r, dues) /\ gas' = gas
  BY DEF CallWithdrawalTransfer
<1>2. r.err = "none" => Worth(coins) + withdrawal >= amount
  BY DEF CallWithdrawalTransfer, Accepted
<1>3. Fits(r.b)
  BY <1>1 DEF Make
<1>4. amount \in Nat /\ withdrawal \in Nat
  BY TransferAssumptions
<1>5. Unused(b, coins)
  BY ListsUnused
<1>6. Settled(b, gas) /\ Live(b) /\ Sound(b) /\ gas \in Nat \cup {Spent}
  BY IInvShape
<1>7. r.err # "none" => r.b = b
  BY <1>4, <1>5, <1>6, WithdrawalRejected
<1>8. Worth(coins) \in Nat
  BY <1>5, WorthNat
<1>9. CASE r.err # "none"
  <2> HIDE DEF r, dues
  <2> QED BY <1>1, <1>6, <1>7, <1>9, Called
<1>10. CASE r.err = "none"
  <2>1. withdrawal # 0 /\ (coins = <<>> => withdrawal = amount)
    BY Zenon, <1>10 DEF WithdrawalTransfer, Outcome
  <2>2. CASE coins = <<>>
    <3>1. r = WithdrawalTransfer(b, recipient, <<>>, withdrawal, withdrawal)
      BY <2>1, <2>2
    <3>2. withdrawal \in Nat \ {0}
      BY <1>4, <2>1
    <3> HIDE DEF r
    <3>3. Delivers(b, r.b, <<recipient, "coin">>, withdrawal)
      BY <1>3, <1>6, <3>1, <3>2, DoWithdrawal
    <3>4. Done(b, r.b, gas, dues)
      BY <1>4, <1>6, <2>1, <2>2, <3>3, DoneDelivers
    <3> HIDE DEF dues
    <3> QED BY <1>1, <1>6, <1>10, <3>4, Called
  <2>3. CASE coins # <<>>
    <3>1. withdrawal \in Nat \ {0} /\ amount <= Worth(coins) + withdrawal
      BY <1>2, <1>4, <1>8, <1>10, <2>1
    <3>2. LeavesCoin(b, r.b, <<recipient, "coin">>, amount)
      BY <1>3, <1>4, <1>5, <1>6, <2>3, <3>1, DoWithdrawalCoins
    <3> HIDE DEF r
    <3>3. Done(b, r.b, gas, dues)
      BY <1>4, <1>6, <3>2, DoneKeeps
    <3> HIDE DEF dues
    <3> QED BY <1>1, <1>6, <1>10, <3>3, Called
  <2> QED BY <2>2, <2>3
<1> QED BY <1>9, <1>10

-----------------------------------------------------------------------------
(* No coins are worth nothing. *)
LEMMA WorthNothing ==
  Worth(<<>>) = 0
<1> DEFINE s == [i \in DOMAIN <<>> |-> CoinBalance[<<>>[i]]]
<1>1. s = <<>>
  OBVIOUS
<1> HIDE DEF s
<1>2. Total(s) = 0
  BY <1>1, TotalEmpty
<1> QED BY <1>2 DEF Worth, s

(* Nothing more for an account. *)
LEMMA MoreNothing ==
  ASSUME NEW f, f \in [Accounts -> Nat], NEW account
  PROVE  More(f, account, 0) = f
<1> DEFINE g == More(f, account, 0)
<1>1. \A a \in Accounts : f[a] \in Nat /\ g[a] = f[a]
  BY DEF More
<1>2. f = [a \in Accounts |-> f[a]] /\ g = [a \in Accounts |-> g[a]]
  BY DEF More
<1> HIDE DEF g
<1>3. g = f
  BY <1>1, <1>2
<1> QED BY <1>3 DEF g

(* An account that gets more has a number. *)
LEMMA MoreShape ==
  ASSUME NEW f, f \in [Accounts -> Nat], NEW account, NEW x \in Nat
  PROVE  More(f, account, x) \in [Accounts -> Nat]
<1> DEFINE g == More(f, account, x)
<1>1. ASSUME NEW a \in Accounts PROVE g[a] \in Nat
  <2>1. f[a] \in Nat /\ g[a] = IF a = account THEN f[a] + x ELSE f[a]
    BY DEF More
  <2> HIDE DEF g
  <2> QED BY <2>1
<1>2. DOMAIN g = Accounts /\ g = [a \in Accounts |-> g[a]]
  BY DEF More
<1> HIDE DEF g
<1>3. g \in [Accounts -> Nat]
  BY <1>1, <1>2
<1> QED BY <1>3 DEF g

(* Two dues of a gasless transfer leave the coins that accounts got. *)
LEMMA BalanceDues ==
  ASSUME NEW f, f \in [Accounts -> Nat], NEW one, NEW x \in Nat, NEW other, NEW y \in Nat, NEW a \in Addresses
  PROVE  Paying(f, <<<<<<one, "balance">>, x>>, <<<<other, "balance">>, y>>>>)[<<a, "coin">>] = f[<<a, "coin">>]
<1> DEFINE dues == <<<<<<one, "balance">>, x>>, <<<<other, "balance">>, y>>>>
           account == <<a, "coin">>
<1>1. account \in Accounts /\ f[account] \in Nat
  BY DEF Accounts
<1>2. Owed(dues, account) = <<0, 0>>
  BY DEF Owed
<1>3. Total(<<0, 0>>) = 0 + 0
  BY TotalTwo
<1>4. Paying(f, dues)[account] = f[account] + Total(Owed(dues, account))
  BY <1>1 DEF Paying
<1> HIDE DEF account, dues
<1>5. Paying(f, dues)[account] = f[account]
  BY <1>1, <1>2, <1>3, <1>4
<1> QED BY <1>5 DEF account, dues

(* What a GaslessTransfer does, for its dues. *)
LEMMA DoGasless ==
  ASSUME NEW B, NEW g, Settled(B, g), NEW ids, Unused(B, ids), NEW a \in Addresses,
         NEW x \in Nat, NEW w \in Nat, x <= Worth(ids) + w,
         NEW r, r = GaslessTransfer(B, Sender, a, ids, x, w), r.err = "none", Fits(r.b)
  PROVE  /\ Settled(r.b, g) /\ Run(r.b).at = Run(B).at
         /\ Run(r.b).got = Paying(Run(B).got, <<<<<<a, "balance">>, x>>, <<<<Sender, "balance">>, Worth(ids) + w - x>>>>)
<1> DEFINE one == <<a, "balance">>
           other == <<Sender, "balance">>
           y == Worth(ids) + w - x
<1>1. Live(B) /\ Run(B).got \in [Accounts -> Nat]
  BY SettledShape
<1>2. Worth(ids) \in Nat /\ Sender \in Addresses
  <2>1. Worth(ids) \in Nat
    BY WorthNat
  <2> QED BY <2>1, TransferAssumptions
<1>3. x # 0 /\ (ids = <<>> => w = x)
  BY Zenon DEF GaslessTransfer, GaslessTransferFromBalance, Outcome
<1>4. y \in Nat /\ x \in Nat \ {0}
  <2>1. x \in Nat \ {0}
    BY <1>3
  <2> DEFINE v == Worth(ids)
  <2>2. v \in Nat /\ x <= v + w
    BY <1>2
  <2> HIDE DEF v
  <2>3. v + w - x \in Nat
    BY <2>2
  <2> QED BY <2>1, <2>3 DEF v
<1>5. /\ Live(r.b) /\ Grows(B, r.b) /\ Run(r.b).at = Run(B).at
      /\ Run(r.b).got = More(More(Run(B).got, one, x), other, y)
  <2>1. CASE ids = <<>>
    <3>1. Delivers(B, r.b, one, x)
      BY <1>1, <1>3, <1>4, <2>1, DoGaslessBalance
    <3>2. Worth(ids) = 0
      BY <2>1, WorthNothing
    <3>3. y = 0
      BY <1>3, <2>1, <3>2
    <3>4. More(Run(B).got, one, x) \in [Accounts -> Nat]
      BY <1>1, MoreShape
    <3> HIDE DEF y, one, other
    <3>5. More(More(Run(B).got, one, x), other, 0) = More(Run(B).got, one, x)
      BY <3>4, MoreNothing
    <3> QED BY <3>1, <3>3, <3>5 DEF Delivers
  <2>2. CASE ids # <<>>
    <3>1. DeliversTwo(B, r.b, one, x, other, y)
      BY <1>1, <1>2, <1>4, <2>2, DoGaslessCoins
    <3> HIDE DEF y, one, other
    <3> QED BY <3>1 DEF DeliversTwo
  <2> QED BY <2>1, <2>2
<1>6. Settled(r.b, g)
  BY <1>5, SettledSame
<1> HIDE DEF y
<1>7. Paying(Run(B).got, <<<<one, x>>, <<other, y>>>>) = More(More(Run(B).got, one, x), other, y)
  BY <1>1, <1>4, TwoDues
<1> QED BY <1>5, <1>6, <1>7 DEF y

(* GaslessTransfer: rejected, or paid to balances and nothing else touched. *)
LEMMA GaslessTransferKeeps ==
  ASSUME IInv, NEW recipient \in Addresses, NEW coins \in CoinLists, NEW total \in Amounts, NEW withdrawal \in Amounts,
         CallGaslessTransfer(recipient, coins, total, withdrawal)
  PROVE  IInv'
<1> DEFINE r == GaslessTransfer(b, Sender, recipient, coins, total, withdrawal)
           y == Worth(coins) + withdrawal - total
           dues == <<<<<<recipient, "balance">>, total>>, <<<<Sender, "balance">>, y>>>>
<1>1. Make("GaslessTransfer", r, dues) /\ gas' = gas
  BY DEF CallGaslessTransfer
<1>2. r.err = "none" => Worth(coins) + withdrawal >= total
  BY DEF CallGaslessTransfer, Accepted
<1>3. Fits(r.b)
  BY <1>1 DEF Make
<1>4. total \in Nat /\ withdrawal \in Nat /\ Sender \in Addresses
  BY TransferAssumptions
<1>5. Unused(b, coins)
  BY ListsUnused
<1>6. /\ Settled(b, gas) /\ Live(b) /\ Sound(b) /\ gas \in Nat \cup {Spent}
      /\ Run(b).got \in [Accounts -> Nat] /\ Run(b).got = promised
  BY IInvShape DEF IInv
<1>7. r.err # "none" => r.b = b
  <2>1. r = GaslessTransfer(b, Sender, recipient, coins, total, withdrawal)
    OBVIOUS
  <2>2. Sound(b)
    BY <1>6
  <2> HIDE DEF r, dues, y
  <2> QED BY <1>4, <1>5, <2>1, <2>2, GaslessRejected
<1>8. Worth(coins) \in Nat
  BY <1>5, WorthNat
<1>9. b' = r.b /\ promised' = IF r.err # "none" THEN promised ELSE Paying(promised, dues)
  <2> HIDE DEF r, dues
  <2> QED BY <1>1 DEF Make, Paying, Owed
<1>10. IsSeq(calls') /\ (Gasless' => Gasless)
  <2>1. IsSeq(calls)
    BY DEF IInv
  <2> HIDE DEF r, dues
  <2> QED BY <1>1, <2>1, CallsMade
<1>11. CASE r.err # "none"
  <2> HIDE DEF r, dues
  <2>1. b' = b /\ promised' = promised /\ gas' = gas
    BY <1>1, <1>7, <1>9, <1>11
  <2> QED BY <1>10, <2>1 DEF IInv
<1>12. CASE r.err = "none"
  <2>1. total <= Worth(coins) + withdrawal
    BY <1>2, <1>4, <1>8, <1>12
  <2>2. Settled(r.b, gas) /\ Run(r.b).at = Run(b).at /\ Run(r.b).got = Paying(Run(b).got, dues)
    BY <1>3, <1>4, <1>5, <1>6, <1>12, <2>1, DoGasless
  <2>3. y \in Nat
    BY <1>4, <1>8, <2>1
  <2> HIDE DEF y
  <2>4. \A a \in Addresses : Paying(promised, dues)[<<a, "coin">>] = promised[<<a, "coin">>]
    <3>1. promised \in [Accounts -> Nat]
      BY <1>6
    <3> SUFFICES ASSUME NEW a \in Addresses
                 PROVE  Paying(promised, dues)[<<a, "coin">>] = promised[<<a, "coin">>]
      BY Zenon
    <3>2. Paying(promised, <<<<<<recipient, "balance">>, total>>, <<<<Sender, "balance">>, y>>>>)[<<a, "coin">>]
            = promised[<<a, "coin">>]
      BY <1>4, <2>3, <3>1, BalanceDues
    <3> QED BY <3>2
  <2> HIDE DEF r, dues
  <2>5. Settled(b', gas') /\ Run(b').got = promised' /\ Run(b').at = Run(b).at /\ gas' = gas
    BY <1>1, <1>6, <1>9, <1>12, <2>2
  <2>6. \A a \in Addresses : promised'[<<a, "coin">>] = promised[<<a, "coin">>]
    BY Zenon, <1>9, <1>12, <2>4
  <2> QED BY <1>10, <2>5, <2>6 DEF IInv
<1> QED BY <1>11, <1>12

(* A new builder. *)
LEMMA NewKeeps ==
  ASSUME IInv, New
  PROVE  IInv'
<1>1. b' = NewBuilder /\ calls' = <<>> /\ promised' = NothingPaid /\ gas' = GasBalance
  BY DEF New
<1>2. /\ Settled(NewBuilder, GasBalance) /\ Run(NewBuilder).got = NothingPaid
      /\ DOMAIN Run(NewBuilder).at = {GasCoin}
  BY NewSettled
<1>3. GasBalance \in Nat /\ IsSeq(<<>>)
  BY TransferAssumptions DEF IsSeq
<1>4. \A a \in Addresses : NothingPaid[<<a, "coin">>] = 0
  BY DEF NothingPaid, Accounts
<1> QED BY <1>1, <1>2, <1>3, <1>4 DEF IInv

(* The invariant holds of the first builder. *)
LEMMA InitIInv ==
  ASSUME Init
  PROVE  IInv
<1>1. b = NewBuilder /\ calls = <<>> /\ promised = NothingPaid /\ gas = GasBalance
  BY DEF Init
<1>2. /\ Settled(NewBuilder, GasBalance) /\ Run(NewBuilder).got = NothingPaid
      /\ DOMAIN Run(NewBuilder).at = {GasCoin}
  BY NewSettled
<1>3. GasBalance \in Nat /\ IsSeq(<<>>)
  BY TransferAssumptions DEF IsSeq
<1>4. \A a \in Addresses : NothingPaid[<<a, "coin">>] = 0
  BY DEF NothingPaid, Accounts
<1> QED BY <1>1, <1>2, <1>3, <1>4 DEF IInv

(* Every call keeps it. *)
LEMMA NextIInv ==
  ASSUME IInv, [Next]_vars
  PROVE  IInv'
<1>1. CASE \E recipient \in Addresses, coins \in CoinLists : CallTransferObject(recipient, coins)
  BY <1>1, TransferObjectKeeps
<1>2. CASE \E coins \in CoinLists : CallDeposit(coins)
  BY <1>2, DepositKeeps
<1>3. CASE \E coins \in CoinLists : CallDepositList(coins)
  BY <1>3, DepositListKeeps
<1>4. CASE \E recipient \in Addresses : CallPayAllSui(recipient)
  BY <1>4, PayAllSuiKeeps
<1>5. CASE \E recipient \in Addresses, amount \in Amounts \cup {NoAmount} : CallTransferSui(recipient, amount)
  <2>1. Amounts \subseteq Nat
    BY TransferAssumptions
  <2> QED BY <1>5, <2>1, TransferSuiKeeps
<1>6. CASE \E payment \in Payments : CallPaySui(payment)
  BY <1>6, PaySuiKeeps
<1>7. CASE \E coins \in CoinLists, payment \in Payments : CallPay(coins, payment)
  BY <1>7, PayKeeps
<1>8. CASE \E recipient \in Addresses, coins \in CoinLists, amount, withdrawal \in Amounts :
             CallWithdrawalTransfer(recipient, coins, amount, withdrawal)
  BY <1>8, WithdrawalTransferKeeps
<1>9. CASE \E recipient \in Addresses, coins \in CoinLists, total, withdrawal \in Amounts :
             CallGaslessTransfer(recipient, coins, total, withdrawal)
  BY <1>9, GaslessTransferKeeps
<1>10. CASE New
  BY <1>10, NewKeeps
<1>11. CASE UNCHANGED vars
  BY <1>11 DEF vars, IInv, Gasless
<1> QED BY <1>1, <1>2, <1>3, <1>4, <1>5, <1>6, <1>7, <1>8, <1>9, <1>10, <1>11 DEF Next

(* Whatever calls are made on one builder, in whatever order and with       *)
(* rejected ones between them, the commands it holds execute, leave nothing *)
(* in a result, and have delivered what the accepted calls promised.        *)
THEOREM TransfersInvariant ==
  Spec => []IInv
<1>1. Init => IInv
  BY InitIInv
<1>2. IInv /\ [Next]_vars => IInv'
  BY NextIInv
<1> QED BY <1>1, <1>2, PTL DEF Spec

(* The finished transaction executes and pays every account what the        *)
(* accepted calls were to pay it.                                           *)
THEOREM TransactionsExecuteAsPromised ==
  Spec => []ExecutesAsPromised
<1>1. IInv => ExecutesAsPromised
  BY SettledExecutes DEF IInv, ExecutesAsPromised
<1> QED BY <1>1, TransfersInvariant, PTL

(* A transaction of GaslessTransfer calls only hands no coin to anyone,     *)
(* leaves none of the supplied coins and does not touch the gas coin.       *)
THEOREM GaslessTransactionsWriteNoObject ==
  Spec => []GaslessLeavesNoObject
<1>1. ASSUME IInv, \A i \in DOMAIN calls : calls[i].method = "GaslessTransfer"
      PROVE  LET pt == Finish(b)
                 end == Execute(pt)
             IN /\ \A a \in Addresses : end.got[<<a, "coin">>] = 0
                /\ Survivors(pt, end) = {}
                /\ end.at[GasCoin] = GasBalance
  <2> DEFINE pt == Finish(b)
             end == Execute(pt)
  <2>1. end = Run(b)
    BY <1>1, SettledExecutes DEF IInv
  <2>2. Gasless
    BY <1>1 DEF Gasless
  <2>3. /\ DOMAIN Run(b).at = {GasCoin} /\ gas = GasBalance /\ Run(b).got = promised
        /\ \A a \in Addresses : promised[<<a, "coin">>] = 0
    BY <1>1, <2>2 DEF IInv
  <2>4. Run(b).at[GasCoin] = GasBalance
    <3>1. GasBalance # Spent
      BY TransferAssumptions DEF Spent
    <3> QED BY <1>1, <2>3, <3>1 DEF IInv, Settled
  <2>5. \A i : InputArg(i) # GasCoin
    BY DEF InputArg, GasCoin
  <2> HIDE DEF pt, end
  <2>6. Survivors(pt, end) = {}
    BY <2>1, <2>3, <2>5 DEF Survivors
  <2>7. (\A a \in Addresses : end.got[<<a, "coin">>] = 0) /\ end.at[GasCoin] = GasBalance
    BY <2>1, <2>3, <2>4
  <2> QED BY <2>6, <2>7 DEF pt, end
<1>2. IInv => GaslessLeavesNoObject
  BY <1>1 DEF GaslessLeavesNoObject
<1> QED BY <1>2, TransfersInvariant, PTL

(* A call with the history of a rejected one. *)
LEMMA OtherMethods ==
  ASSUME IInv, NEW method, method \notin {"WithdrawalTransfer", "GaslessTransfer"}, NEW r, NEW dues, Make(method, r, dues)
  PROVE  calls'[Len(calls')].method \notin {"WithdrawalTransfer", "GaslessTransfer"}
<1> DEFINE e == [method |-> method, err |-> r.err]
<1>1. calls'[Len(calls')] = e
  BY CallsMade DEF IInv
<1>2. e.method = method
  OBVIOUS
<1> HIDE DEF e
<1> QED BY <1>1, <1>2

(* A rejected call that leaves the builder, in the history. *)
LEMMA Rejecting ==
  ASSUME IInv, NEW method, NEW r, NEW dues, Make(method, r, dues), r.err # "none" => r.b = b
  PROVE  calls'[Len(calls')].err # "none" => b' = b
<1> DEFINE e == [method |-> method, err |-> r.err]
<1>1. calls'[Len(calls')] = e /\ b' = r.b
  BY CallsMade DEF IInv, Make
<1>2. e.err = r.err
  OBVIOUS
<1> HIDE DEF e
<1> QED BY <1>1, <1>2

(* A WithdrawalTransfer or GaslessTransfer that returns an error has        *)
(* registered no input and added no command.                                *)
THEOREM RejectedTransfersLeaveTheBuilder ==
  Spec => RejectionLeavesBuilder
<1> DEFINE Rejected == /\ Len(calls') > Len(calls)
                       /\ calls'[Len(calls')].method \in {"WithdrawalTransfer", "GaslessTransfer"}
                       /\ calls'[Len(calls')].err # "none"
<1>1. ASSUME IInv, Next, Rejected
      PROVE  b' = b
  <2>0. calls'[Len(calls')].method \in {"WithdrawalTransfer", "GaslessTransfer"} /\ calls'[Len(calls')].err # "none"
    BY <1>1
  <2>1. ~ \E recipient \in Addresses, coins \in CoinLists : CallTransferObject(recipient, coins)
    BY <1>1, <2>0, OtherMethods DEF CallTransferObject
  <2>2. ~ \E coins \in CoinLists : CallDeposit(coins)
    BY <1>1, <2>0, OtherMethods DEF CallDeposit
  <2>3. ~ \E coins \in CoinLists : CallDepositList(coins)
    BY Zenon, <1>1, <2>0, OtherMethods DEF CallDepositList
  <2>4. ~ \E recipient \in Addresses : CallPayAllSui(recipient)
    BY <1>1, <2>0, OtherMethods DEF CallPayAllSui
  <2>5. ~ \E recipient \in Addresses, amount \in Amounts \cup {NoAmount} : CallTransferSui(recipient, amount)
    BY <1>1, <2>0, OtherMethods DEF CallTransferSui
  <2>6. ~ \E payment \in Payments : CallPaySui(payment)
    BY <1>1, <2>0, OtherMethods DEF CallPaySui
  <2>7. ~ \E coins \in CoinLists, payment \in Payments : CallPay(coins, payment)
    BY <1>1, <2>0, OtherMethods DEF CallPay
  <2>8. CASE \E recipient \in Addresses, coins \in CoinLists, amount, withdrawal \in Amounts :
               CallWithdrawalTransfer(recipient, coins, amount, withdrawal)
    <3>1. PICK recipient \in Addresses, coins \in CoinLists, amount \in Amounts, withdrawal \in Amounts :
                 CallWithdrawalTransfer(recipient, coins, amount, withdrawal)
      BY <2>8
    <3> DEFINE r == WithdrawalTransfer(b, recipient, coins, amount, withdrawal)
               dues == <<<<<<recipient, "coin">>, amount>>>>
    <3>2. Make("WithdrawalTransfer", r, dues)
      BY <3>1 DEF CallWithdrawalTransfer
    <3>3. Unused(b, coins) /\ Sound(b)
      BY <1>1, ListsUnused, IInvShape
    <3>4. amount \in Nat /\ withdrawal \in Nat
      BY TransferAssumptions
    <3>5. r.err # "none" => r.b = b
      BY <3>3, <3>4, WithdrawalRejected
    <3> HIDE DEF r, dues
    <3> QED BY <1>1, <2>0, <3>2, <3>5, Rejecting
  <2>9. CASE \E recipient \in Addresses, coins \in CoinLists, total, withdrawal \in Amounts :
               CallGaslessTransfer(recipient, coins, total, withdrawal)
    <3>1. PICK recipient \in Addresses, coins \in CoinLists, total \in Amounts, withdrawal \in Amounts :
                 CallGaslessTransfer(recipient, coins, total, withdrawal)
      BY <2>9
    <3> DEFINE r == GaslessTransfer(b, Sender, recipient, coins, total, withdrawal)
               dues == <<<<<<recipient, "balance">>, total>>,
                         <<<<Sender, "balance">>, Worth(coins) + withdrawal - total>>>>
    <3>2. Make("GaslessTransfer", r, dues)
      BY <3>1 DEF CallGaslessTransfer
    <3>3. Unused(b, coins) /\ Sound(b)
      BY <1>1, ListsUnused, IInvShape
    <3>4. total \in Nat /\ withdrawal \in Nat /\ Sender \in Addresses
      BY TransferAssumptions
    <3>5. r.err # "none" => r.b = b
      BY <3>3, <3>4, GaslessRejected
    <3> HIDE DEF r, dues
    <3> QED BY <1>1, <2>0, <3>2, <3>5, Rejecting
  <2>10. ~ New
    <3>1. SUFFICES ASSUME New PROVE FALSE
      OBVIOUS
    <3>2. calls' = <<>> /\ Len(calls) \in Nat
      BY <1>1, <3>1 DEF New, IInv, IsSeq
    <3> QED BY <1>1, <3>2
  <2> QED BY <1>1, <2>1, <2>2, <2>3, <2>4, <2>5, <2>6, <2>7, <2>8, <2>9, <2>10 DEF Next
<1>2. IInv /\ [Next]_vars => [Rejected => b' = b]_vars
  BY <1>1
<1> HIDE DEF Rejected
<1>3. Spec => [][Rejected => b' = b]_vars
  BY <1>2, TransfersInvariant, PTL DEF Spec
<1> QED BY <1>3 DEF RejectionLeavesBuilder, Rejected

(***************************************************************************)
(* Rendering: the types of the pure inputs.                                *)
(***************************************************************************)
TypeFor(t, c, arg) ==
  CASE c.name = "TransferObjects" /\ c.arg = arg -> "address"
    [] c.name = "SplitCoins" /\ Contains(c.args, arg) -> "u64"
    [] OTHER -> t
OneTyped(types, c, p) == [i \in DOMAIN types |-> TypeFor(types[i], c, InputArg(i - 1))]
FTyp == INSTANCE SeqFolds WITH op <- OneTyped

(* Induction, the hypothesis of FTyp. *)
LEMMA FTypInduction == FTyp!Induction
BY SetInduction DEF FTyp!Induction

Untyped(B) == [i \in DOMAIN B.order |-> "null"]
(* After the first k commands. *)
Typed(B, k) == FTyp!Fold(Untyped(B), 0, SubSeq(B.commands, 1, k))

(* PureValueTypes is a fold. *)
LEMMA TypesFold ==
  ASSUME NEW base, NEW s
  PROVE  FoldLeft(LAMBDA types, c :
                    [i \in DOMAIN types |->
                       CASE c.name = "TransferObjects" /\ c.arg = InputArg(i - 1) -> "address"
                         [] c.name = "SplitCoins" /\ Contains(c.args, InputArg(i - 1)) -> "u64"
                         [] OTHER -> types[i]], base, s) = FTyp!Fold(base, 0, s)
BY DEF FTyp!Fold, OneTyped, TypeFor, FTyp!MapThenFoldSet, FTyp!Max, FoldLeft, MapThenFoldSet, Max

(* The inputs and the commands of a finished transaction. *)
LEMMA FinishFacts ==
  ASSUME NEW B, Sound(B)
  PROVE  /\ Finish(B).commands = B.commands /\ DOMAIN Finish(B).inputs = DOMAIN B.order
         /\ \A i \in DOMAIN B.order : Finish(B).inputs[i] = B.inputs[B.order[i]]
BY DEF Finish

(* The types are those after the last command. *)
LEMMA TypesAre ==
  ASSUME NEW B, Sound(B)
  PROVE  PureValueTypes(Finish(B)) = Typed(B, Len(B.commands))
<1>1. Finish(B).commands = B.commands /\ DOMAIN Finish(B).inputs = DOMAIN B.order
  BY FinishFacts
<1>2. SubSeq(B.commands, 1, Len(B.commands)) = B.commands
  BY DEF Sound, IsSeq
<1>3. PureValueTypes(Finish(B)) = FTyp!Fold([i \in DOMAIN Finish(B).inputs |-> "null"], 0, Finish(B).commands)
  BY Zenon, TypesFold DEF PureValueTypes
<1> QED BY <1>1, <1>2, <1>3 DEF Typed, Untyped

(* The types before the first command, and after one more. *)
LEMMA TypedSteps ==
  ASSUME NEW B, Sound(B)
  PROVE  /\ Typed(B, 0) = Untyped(B)
         /\ \A k \in 0..(Len(B.commands) - 1) : Typed(B, k + 1) = OneTyped(Typed(B, k), B.commands[k + 1], 0)
<1>1. IsSeq(B.commands) /\ Len(B.commands) \in Nat
  BY SoundFacts DEF Sound
<1>2. SubSeq(B.commands, 1, 0) = <<>>
  BY <1>1 DEF IsSeq
<1>3. Typed(B, 0) = Untyped(B)
  BY <1>2, FTypInduction, FTyp!FoldEmpty DEF Typed
<1>4. ASSUME NEW k \in 0..(Len(B.commands) - 1)
      PROVE  Typed(B, k + 1) = OneTyped(Typed(B, k), B.commands[k + 1], 0)
  <2>1. k \in Nat /\ k + 1 <= Len(B.commands)
    BY <1>1
  <2> QED BY <1>1, <2>1, FTypInduction, FTyp!FoldPrefix DEF Typed, IsSeq
<1> QED BY <1>3, <1>4

(* A command that uses arg as a recipient or as an amount. *)
Addressed(c, arg) == c.name = "TransferObjects" /\ c.arg = arg
Counted(c, arg) == c.name = "SplitCoins" /\ Contains(c.args, arg)

(* What one command says of one input. *)
LEMMA TypeForIs ==
  ASSUME NEW t, NEW c, NEW arg
  PROVE  /\ Addressed(c, arg) => TypeFor(t, c, arg) = "address"
         /\ Counted(c, arg) => TypeFor(t, c, arg) = "u64"
         /\ ~ Addressed(c, arg) /\ ~ Counted(c, arg) => TypeFor(t, c, arg) = t
BY DEF TypeFor, Addressed, Counted

(* A recipient is no amount. *)
LEMMA AddressNotCounted ==
  ASSUME NEW B, Sound(B), CmdsOK(B), NEW x \in Addresses, PureKey(x) \in DOMAIN B.inputs, NEW j \in 1..Len(B.commands)
  PROVE  ~ Counted(B.commands[j], Slot(B, PureKey(x)))
<1> SUFFICES ASSUME Counted(B.commands[j], Slot(B, PureKey(x))) PROVE FALSE
  OBVIOUS
<1> DEFINE c == B.commands[j]
<1>1. CmdOK(B, j - 1, c) /\ c.name = "SplitCoins"
  BY DEF CmdsOK, Counted
<1>2. PICK i \in 1..Len(c.args) : c.args[i] = Slot(B, PureKey(x))
  BY DEF Counted, Contains
<1> HIDE DEF c
<1>3. i \in DOMAIN c.args
  BY <1>1, <1>2 DEF CmdOK
<1>4. PureSlot(B, c.args[i], Nat)
  BY <1>1, <1>3 DEF CmdOK
<1>5. PICK y \in Nat : PureKey(y) \in DOMAIN B.inputs /\ c.args[i] = Slot(B, PureKey(y))
  BY <1>4 DEF PureSlot
<1>6. PureKey(x) = PureKey(y)
  BY <1>2, <1>5, SlotsDiffer
<1>7. x = y
  BY <1>6 DEF PureKey
<1> QED BY <1>7, TransferAssumptions

(* An amount is no recipient. *)
LEMMA AmountNotAddressed ==
  ASSUME NEW B, Sound(B), CmdsOK(B), NEW x \in Nat, PureKey(x) \in DOMAIN B.inputs, NEW j \in 1..Len(B.commands)
  PROVE  ~ Addressed(B.commands[j], Slot(B, PureKey(x)))
<1> SUFFICES ASSUME Addressed(B.commands[j], Slot(B, PureKey(x))) PROVE FALSE
  OBVIOUS
<1> DEFINE c == B.commands[j]
<1>1. CmdOK(B, j - 1, c) /\ c.name = "TransferObjects" /\ c.arg = Slot(B, PureKey(x))
  BY DEF CmdsOK, Addressed
<1> HIDE DEF c
<1>2. PureSlot(B, c.arg, Addresses)
  BY <1>1 DEF CmdOK
<1>3. PICK y \in Addresses : PureKey(y) \in DOMAIN B.inputs /\ c.arg = Slot(B, PureKey(y))
  BY <1>2 DEF PureSlot
<1>4. PureKey(x) = PureKey(y)
  BY <1>1, <1>3, SlotsDiffer
<1>5. x = y
  BY <1>4 DEF PureKey
<1> QED BY <1>5, TransferAssumptions

(* What has been used by the first k commands has its type. *)
TypesTell(B, k) ==
  /\ DOMAIN Typed(B, k) = DOMAIN B.order
  /\ \A i \in DOMAIN B.order, j \in 1..k :
       /\ B.order[i] \in {PureKey(x) : x \in Addresses} /\ Addressed(B.commands[j], InputArg(i - 1)) =>
            Typed(B, k)[i] = "address"
       /\ B.order[i] \in {PureKey(x) : x \in Nat} /\ Counted(B.commands[j], InputArg(i - 1)) =>
            Typed(B, k)[i] = "u64"

(* One more command keeps the types telling. *)
LEMMA TypesTellNext ==
  ASSUME NEW B, Sound(B), CmdsOK(B), NEW k \in 0..(Len(B.commands) - 1), TypesTell(B, k)
  PROVE  TypesTell(B, k + 1)
<1> DEFINE T == Typed(B, k)
           U == Typed(B, k + 1)
           c == B.commands[k + 1]
<1>1. U = OneTyped(T, c, 0) /\ DOMAIN T = DOMAIN B.order
  BY TypedSteps DEF TypesTell
<1>2. k \in Nat /\ k + 1 \in 1..Len(B.commands) /\ 1..(k + 1) = 1..k \cup {k + 1}
  BY SoundFacts
<1>3. DOMAIN B.order = 1..Len(B.order)
  BY SoundFacts
<1> HIDE DEF T, U
<1>4. DOMAIN U = DOMAIN B.order /\ \A i \in DOMAIN B.order : U[i] = TypeFor(T[i], c, InputArg(i - 1))
  BY <1>1 DEF OneTyped
<1>5. ASSUME NEW i \in DOMAIN B.order, NEW j \in 1..(k + 1), NEW x \in Addresses, B.order[i] = PureKey(x),
             Addressed(B.commands[j], InputArg(i - 1))
      PROVE  U[i] = "address"
  <2>1. Slot(B, PureKey(x)) = InputArg(i - 1) /\ PureKey(x) \in DOMAIN B.inputs
    BY <1>3, <1>5, SlotIs, SoundFacts
  <2>2. ~ Counted(c, InputArg(i - 1))
    BY <1>2, <2>1, AddressNotCounted
  <2>3. CASE Addressed(c, InputArg(i - 1))
    BY <1>4, <2>3, TypeForIs
  <2>4. CASE ~ Addressed(c, InputArg(i - 1))
    <3>1. j \in 1..k
      BY <1>2, <1>5, <2>4
    <3>2. T[i] = "address"
      BY <1>5, <3>1 DEF TypesTell, T
    <3> QED BY <1>4, <2>2, <2>4, <3>2, TypeForIs
  <2> QED BY <2>3, <2>4
<1>6. ASSUME NEW i \in DOMAIN B.order, NEW j \in 1..(k + 1), NEW x \in Nat, B.order[i] = PureKey(x),
             Counted(B.commands[j], InputArg(i - 1))
      PROVE  U[i] = "u64"
  <2>1. Slot(B, PureKey(x)) = InputArg(i - 1) /\ PureKey(x) \in DOMAIN B.inputs
    BY <1>3, <1>6, SlotIs, SoundFacts
  <2>2. ~ Addressed(c, InputArg(i - 1))
    BY <1>2, <2>1, AmountNotAddressed
  <2>3. CASE Counted(c, InputArg(i - 1))
    BY <1>4, <2>3, TypeForIs
  <2>4. CASE ~ Counted(c, InputArg(i - 1))
    <3>1. j \in 1..k
      BY <1>2, <1>6, <2>4
    <3>2. T[i] = "u64"
      BY <1>6, <3>1 DEF TypesTell, T
    <3> QED BY <1>4, <2>2, <2>4, <3>2, TypeForIs
  <2> QED BY <2>3, <2>4
<1> QED BY <1>4, <1>5, <1>6 DEF TypesTell, U

(* After the last command every recipient and every amount has its type. *)
LEMMA AllTypesTell ==
  ASSUME NEW B, Sound(B), CmdsOK(B)
  PROVE  TypesTell(B, Len(B.commands))
<1> DEFINE K == {k \in Nat : k <= Len(B.commands) => TypesTell(B, k)}
<1>1. 0 \in K
  <2>1. DOMAIN Typed(B, 0) = DOMAIN B.order
    BY TypedSteps DEF Untyped
  <2> QED BY <2>1 DEF TypesTell
<1>2. ASSUME NEW k \in Nat, k \in K PROVE k + 1 \in K
  <2>1. SUFFICES ASSUME k + 1 <= Len(B.commands) PROVE TypesTell(B, k + 1)
    OBVIOUS
  <2>2. Len(B.commands) \in Nat
    BY SoundFacts
  <2>3. k \in 0..(Len(B.commands) - 1) /\ TypesTell(B, k)
    BY <1>2, <2>1, <2>2
  <2> QED BY <2>3, TypesTellNext
<1> HIDE DEF K
<1>3. Nat \subseteq K
  BY <1>1, <1>2, SetInduction
<1>4. Len(B.commands) \in Nat
  BY SoundFacts
<1> QED BY <1>3, <1>4 DEF K

(***************************************************************************)
(* Rendering: what is shown is read back.                                  *)
(***************************************************************************)
LEMMA ReadArgumentBack ==
  ASSUME NEW B, NEW n, NEW arg \in Args(B, n)
  PROVE  ReadArgument(ArgumentJSON(arg)) = arg
<1>1. CASE arg = GasCoin
  <2>1. ArgumentJSON(arg) = [GasCoin |-> "GasCoin"]
    BY <1>1 DEF ArgumentJSON, GasCoin
  <2> QED BY <1>1, <2>1 DEF ReadArgument
<1>2. ASSUME NEW i, arg = InputArg(i) PROVE ReadArgument(ArgumentJSON(arg)) = arg
  <2>1. ArgumentJSON(arg) = [Input |-> i]
    BY <1>2 DEF ArgumentJSON, InputArg
  <2> QED BY <1>2, <2>1 DEF ReadArgument
<1>3. ASSUME NEW i, arg = ResultArg(i) PROVE ReadArgument(ArgumentJSON(arg)) = arg
  <2>1. ArgumentJSON(arg) = [Result |-> i]
    BY <1>3 DEF ArgumentJSON, ResultArg
  <2> QED BY <1>3, <2>1 DEF ReadArgument
<1>4. ASSUME NEW i, NEW j, arg = NestedResultArg(i, j) PROVE ReadArgument(ArgumentJSON(arg)) = arg
  <2>1. ArgumentJSON(arg) = [NestedResult |-> <<i, j>>]
    BY <1>4 DEF ArgumentJSON, NestedResultArg
  <2> QED BY <1>4, <2>1 DEF ReadArgument
<1> QED BY <1>1, <1>2, <1>3, <1>4 DEF Args, Slot

(* A list of Arguments is read back as it is. *)
LEMMA ReadArgumentsBack ==
  ASSUME NEW B, NEW n, NEW args \in Seq(Args(B, n))
  PROVE  ReadArguments(ArgumentsJSON(args)) = args
<1>1. DOMAIN ArgumentsJSON(args) = DOMAIN args /\ \A i \in DOMAIN args : ArgumentsJSON(args)[i] = ArgumentJSON(args[i])
  BY DEF ArgumentsJSON
<1>2. \A i \in DOMAIN args : ReadArgument(ArgumentJSON(args[i])) = args[i]
  BY ReadArgumentBack
<1>3. args = [i \in DOMAIN args |-> args[i]]
  OBVIOUS
<1> QED BY <1>1, <1>2, <1>3 DEF ReadArguments

(* A command is read back as it is, of whichever kind. *)
LEMMA ReadCommandBack ==
  ASSUME NEW B, NEW n, NEW cmd, CmdOK(B, n, cmd)
  PROVE  ReadCommand(CommandJSON(cmd)) = cmd
<1> DEFINE args == cmd.args
           arg == cmd.arg
           js == ArgumentsJSON(args)
           j == ArgumentJSON(arg)
<1>1. ReadArguments(js) = args
  BY ReadArgumentsBack DEF CmdOK
<1>2. cmd = [name |-> cmd.name, arg |-> arg, args |-> args] /\ cmd.name \in Names
  BY DEF CmdOK
<1>3. cmd.name \in {"TransferObjects", "SplitCoins", "MergeCoins"} => ReadArgument(j) = arg
  <2>1. cmd.name = "TransferObjects" => arg \in Args(B, n)
    BY DEF CmdOK, PureSlot, Args
  <2>2. cmd.name \in {"SplitCoins", "MergeCoins"} => arg \in Args(B, n)
    BY DEF CmdOK
  <2> QED BY <2>1, <2>2, ReadArgumentBack
<1>4. cmd.name \notin {"TransferObjects", "SplitCoins", "MergeCoins"} => arg = NoArg
  BY DEF CmdOK
<1> HIDE DEF args, arg, js, j
<1> DEFINE name == cmd.name
<1>5. CASE name = "TransferObjects"
  <2>1. CommandJSON(cmd) = [TransferObjects |-> <<js, j>>]
    BY <1>5 DEF CommandJSON, js, j, args, arg
  <2>2. ReadCommand([TransferObjects |-> <<js, j>>]) = TransferObjects(args, arg)
    BY <1>1, <1>3, <1>5 DEF ReadCommand
  <2> QED BY <1>2, <1>5, <2>1, <2>2 DEF TransferObjects
<1>6. CASE name = "SplitCoins"
  <2>1. CommandJSON(cmd) = [SplitCoins |-> <<j, js>>]
    BY <1>6 DEF CommandJSON, js, j, args, arg
  <2>2. ReadCommand([SplitCoins |-> <<j, js>>]) = SplitCoins(arg, args)
    BY <1>1, <1>3, <1>6 DEF ReadCommand
  <2> QED BY <1>2, <1>6, <2>1, <2>2 DEF SplitCoins
<1>7. CASE name = "MergeCoins"
  <2>1. CommandJSON(cmd) = [MergeCoins |-> <<j, js>>]
    BY <1>7 DEF CommandJSON, js, j, args, arg
  <2>2. ReadCommand([MergeCoins |-> <<j, js>>]) = MergeCoins(arg, args)
    BY <1>1, <1>3, <1>7 DEF ReadCommand
  <2> QED BY <1>2, <1>7, <2>1, <2>2 DEF MergeCoins
<1>8. CASE name = "MakeMoveVec"
  <2>1. CommandJSON(cmd) = [MakeMoveVec |-> <<Printed("type"), js>>]
    BY <1>8 DEF CommandJSON, js, args
  <2>2. ReadCommand([MakeMoveVec |-> <<Printed("type"), js>>]) = MakeMoveVec(args)
    BY <1>1 DEF ReadCommand
  <2> QED BY <1>2, <1>4, <1>8, <2>1, <2>2 DEF MakeMoveVec
<1>9. CASE name \notin {"TransferObjects", "SplitCoins", "MergeCoins", "MakeMoveVec"}
  <2>1. CommandJSON(cmd) = [MoveCall |-> [function |-> name, arguments |-> js]]
    <3>1. name \notin {"Publish", "Upgrade"}
      BY <1>2 DEF Names, Delivering, Making
    <3> QED BY <1>9, <3>1 DEF CommandJSON, js, args
  <2>2. ReadCommand([MoveCall |-> [function |-> name, arguments |-> js]]) = MoveCallCommand(name, args)
    BY <1>1 DEF ReadCommand
  <2> QED BY <1>2, <1>4, <1>9, <2>1, <2>2 DEF MoveCallCommand
<1> QED BY <1>5, <1>6, <1>7, <1>8, <1>9

(* An input as it is shown, and read back. *)
LEMMA ShownPure ==
  ASSUME NEW x \in PureValues, NEW t, NEW j, j = CallArgJSON(PureArg(x), t)
  PROVE  /\ ReadInput(j) = PureArg(x) /\ j.type = "pure"
         /\ x \in Addresses /\ t = "address" => j.valueType = "address"
         /\ x \in Nat /\ t = "u64" => j.valueType = "u64"
         /\ j.valueType # "null" => (j.valueType = "address" <=> x \in Addresses)
<1>1. j = PureJSON(x, t)
  BY DEF CallArgJSON, PureArg
<1>2. (x \in Addresses => ByteLength(x) = 32) /\ (x \notin Addresses => ByteLength(x) = 8)
  BY DEF ByteLength
<1>3. x \in Nat => x \notin Addresses
  BY TransferAssumptions
<1> DEFINE fits == <<t, ByteLength(x)>> \in {<<"u64", 8>>, <<"address", 32>>}
<1>4. fits <=> (t = "u64" /\ x \notin Addresses) \/ (t = "address" /\ x \in Addresses)
  BY <1>2
<1>5. j = IF fits THEN [type |-> "pure", valueType |-> t, value |-> <<"text", x>>]
          ELSE [type |-> "pure", valueType |-> "null", value |-> <<"bytes", x>>]
  BY <1>1 DEF PureJSON, Printed
<1> HIDE DEF fits
<1>6. j.type = "pure" /\ j.value[2] = x /\ j.valueType = IF fits THEN t ELSE "null"
  BY <1>5
<1>7. ReadInput(j) = PureArg(x)
  BY <1>6 DEF ReadInput
<1> QED BY <1>3, <1>4, <1>6, <1>7

(* An owned object is read back as it is, and is not shown as pure. *)
LEMMA ShownObject ==
  ASSUME NEW id, NEW t, NEW j, j = CallArgJSON(ObjectCallArg(OwnedObject(id)), t)
  PROVE  ReadInput(j) = ObjectCallArg(OwnedObject(id)) /\ j.type # "pure"
<1> DEFINE arg == ObjectCallArg(OwnedObject(id))
<1>1. arg.kind = "Object" /\ arg.val.kind = "ImmOrOwned" /\ arg.val.id = id
  BY DEF ObjectCallArg, OwnedObject
<1> HIDE DEF arg
<1>2. CallArgJSON(arg, t) = [type |-> "object", objectType |-> "immOrOwnedObject", objectId |-> <<"text", id>>]
  BY <1>1 DEF CallArgJSON, Printed
<1>3. j.type = "object" /\ j.objectId[2] = id
  BY <1>2 DEF arg
<1> QED BY <1>3 DEF ReadInput

(* A withdrawal is read back as it is, and is not shown as pure. *)
LEMMA ShownWithdrawal ==
  ASSUME NEW w, NEW t, NEW j, j = CallArgJSON(WithdrawalArg(w), t)
  PROVE  ReadInput(j) = WithdrawalArg(w) /\ j.type # "pure"
<1>1. j = [type |-> "fundsWithdrawal", maxAmountU64 |-> <<"text", w>>, withdrawFrom |-> "sender"]
  BY DEF CallArgJSON, WithdrawalArg, FundsWithdrawalJSON, Printed
<1>2. j.type = "fundsWithdrawal" /\ j.maxAmountU64[2] = w
  BY <1>1
<1> QED BY <1>2 DEF ReadInput

(* Transaction data as it is shown. *)
Data(pt, sender, payment, owner, expiration) ==
  [kind |-> [ProgrammableTransaction |-> pt], sender |-> sender, expiration |-> expiration,
   gas |-> [payment |-> payment, owner |-> owner, price |-> 1, budget |-> 9]]

(* Data as it is rendered, field by field. *)
LEMMA ShownData ==
  ASSUME NEW pt, NEW sender, NEW payment, NEW owner, NEW expiration
  PROVE  TransactionBlockData(Data(pt, sender, payment, owner, expiration)) =
           [transaction |-> ProgrammableTransactionBlock(pt), sender |-> sender,
            gasData |-> [payment |-> payment, owner |-> owner, price |-> Printed(1), budget |-> Printed(9)],
            txSignatures |-> [i \in DOMAIN <<>> |-> Printed(<<>>[i])]]
<1> DEFINE data == Data(pt, sender, payment, owner, expiration)
           gasRec == [payment |-> payment, owner |-> owner, price |-> 1, budget |-> 9]
<1>1. data.kind.ProgrammableTransaction = pt /\ data.sender = sender /\ data.gas = gasRec
  BY DEF Data
<1>2. [gasRec EXCEPT !.price = Printed(@), !.budget = Printed(@)] =
        [payment |-> payment, owner |-> owner, price |-> Printed(1), budget |-> Printed(9)]
  <2> DEFINE u == Printed(1)
             v == Printed(9)
  <2>1. gasRec.price = 1 /\ gasRec.budget = 9
    OBVIOUS
  <2> HIDE DEF u, v
  <2>2. [gasRec EXCEPT !.price = u] = [payment |-> payment, owner |-> owner, price |-> u, budget |-> 9]
    OBVIOUS
  <2>3. [[payment |-> payment, owner |-> owner, price |-> u, budget |-> 9] EXCEPT !.budget = v]
          = [payment |-> payment, owner |-> owner, price |-> u, budget |-> v]
    OBVIOUS
  <2> HIDE DEF gasRec
  <2> QED BY <2>1, <2>2, <2>3 DEF u, v
<1> HIDE DEF data, gasRec
<1>3. TransactionBlockData(data) =
        [transaction |-> ProgrammableTransactionBlock(pt), sender |-> sender,
         gasData |-> [gasRec EXCEPT !.price = Printed(@), !.budget = Printed(@)],
         txSignatures |-> [i \in DOMAIN <<>> |-> Printed(<<>>[i])]]
  BY <1>1 DEF TransactionBlockData, ToInternalTransactionBlock
<1> QED BY <1>2, <1>3 DEF data

(* Data of the three constructors. *)
LEMMA BuiltData ==
  ASSUME NEW pt, NEW sender, NEW payment, NEW owner, NEW expiration
  PROVE  /\ NewProgrammableAllowSponsor(sender, payment, pt, 9, 1, owner) = Data(pt, sender, payment, owner, <<"None">>)
         /\ NewProgrammable(sender, payment, pt, 9, 1) = Data(pt, sender, payment, sender, <<"None">>)
         /\ NewProgrammableWithExpiration(sender, payment, pt, 9, 1, expiration) =
              Data(pt, sender, payment, sender, expiration)
<1>1. \A o : NewProgrammableAllowSponsor(sender, payment, pt, 9, 1, o) = Data(pt, sender, payment, o, <<"None">>)
  BY DEF NewProgrammableAllowSponsor, NewWithGasCoinsAllowSponsor, Data
<1>2. NewProgrammable(sender, payment, pt, 9, 1) = Data(pt, sender, payment, sender, <<"None">>)
  BY <1>1 DEF NewProgrammable
<1>3. NewProgrammableWithExpiration(sender, payment, pt, 9, 1, expiration) = Data(pt, sender, payment, sender, expiration)
  BY <1>2 DEF NewProgrammableWithExpiration, Data
<1> QED BY <1>1, <1>2, <1>3

(* Who pays, and with what, is all that differs. *)
View(pt, sender, payment, owner) ==
  [transaction |-> ProgrammableTransactionBlock(pt), sender |-> sender,
   gasData |-> [payment |-> payment, owner |-> owner, price |-> Printed(1), budget |-> Printed(9)],
   txSignatures |-> [i \in DOMAIN <<>> |-> Printed(<<>>[i])]]

(* A transaction that its sender pays for. *)
LEMMA OwnView ==
  ASSUME NEW pt, NEW sender, NEW payment
  PROVE  TransactionBlockData(NewProgrammable(sender, payment, pt, 9, 1)) = View(pt, sender, payment, sender)
<1>1. NewProgrammable(sender, payment, pt, 9, 1) = Data(pt, sender, payment, sender, <<"None">>)
  BY BuiltData
<1>2. TransactionBlockData(Data(pt, sender, payment, sender, <<"None">>)) = View(pt, sender, payment, sender)
  BY ShownData DEF View
<1> QED BY <1>1, <1>2

(* A transaction that a sponsor pays for. *)
LEMMA SponsoredView ==
  ASSUME NEW pt, NEW sender, NEW payment, NEW owner
  PROVE  TransactionBlockData(NewProgrammableAllowSponsor(sender, payment, pt, 9, 1, owner)) = View(pt, sender, payment, owner)
<1>1. NewProgrammableAllowSponsor(sender, payment, pt, 9, 1, owner) = Data(pt, sender, payment, owner, <<"None">>)
  BY BuiltData
<1>2. TransactionBlockData(Data(pt, sender, payment, owner, <<"None">>)) = View(pt, sender, payment, owner)
  BY ShownData DEF View
<1> QED BY <1>1, <1>2

(* A transaction that expires. *)
LEMMA ExpiringView ==
  ASSUME NEW pt, NEW sender, NEW payment, NEW expiration
  PROVE  TransactionBlockData(NewProgrammableWithExpiration(sender, payment, pt, 9, 1, expiration))
           = View(pt, sender, payment, sender)
<1>1. NewProgrammableWithExpiration(sender, payment, pt, 9, 1, expiration) = Data(pt, sender, payment, sender, expiration)
  BY BuiltData
<1>2. TransactionBlockData(Data(pt, sender, payment, sender, expiration)) = View(pt, sender, payment, sender)
  BY ShownData DEF View
<1> QED BY <1>1, <1>2

WithOwner(view, owner) == [view EXCEPT !.gasData.owner = owner]
WithPayment(view, payment) == [view EXCEPT !.gasData.payment = payment]

(* The transaction in a view, and a view with another owner or payment. *)
LEMMA ViewParts ==
  ASSUME NEW pt, NEW sender, NEW payment, NEW owner
  PROVE  /\ View(pt, sender, payment, owner).transaction = ProgrammableTransactionBlock(pt)
         /\ \A o : WithOwner(View(pt, sender, payment, owner), o) = View(pt, sender, payment, o)
         /\ \A p : WithPayment(View(pt, sender, payment, owner), p) = View(pt, sender, p, owner)
<1> DEFINE T == ProgrammableTransactionBlock(pt)
           signed == [i \in DOMAIN <<>> |-> Printed(<<>>[i])]
           price == Printed(1)
           budget == Printed(9)
           V(p, o) ==
             [transaction |-> T, sender |-> sender,
              gasData |-> [payment |-> p, owner |-> o, price |-> price, budget |-> budget],
              txSignatures |-> signed]
<1>1. \A p, o : View(pt, sender, p, o) = V(p, o)
  BY DEF View
<1> HIDE DEF T, signed, price, budget
<1>2. \A o : WithOwner(V(payment, owner), o) = V(payment, o)
  BY DEF WithOwner
<1>3. \A p : WithPayment(V(payment, owner), p) = V(p, owner)
  BY DEF WithPayment
<1>4. V(payment, owner).transaction = T
  OBVIOUS
<1> HIDE DEF V
<1> QED BY <1>1, <1>2, <1>3, <1>4 DEF T

-----------------------------------------------------------------------------
(* The inputs and the commands of a builder, shown and read back. *)
ShownInput(B, i) == CallArgJSON(Finish(B).inputs[i], PureValueTypes(Finish(B))[i])

(* Every input of a builder is read back as it is, and shown with its own   *)
(* type only.                                                               *)
LEMMA InputShown ==
  ASSUME NEW B, Sound(B), NEW i \in DOMAIN B.order
  PROVE  /\ ReadInput(ShownInput(B, i)) = Finish(B).inputs[i]
         /\ ShownInput(B, i).type = "pure" /\ ShownInput(B, i).valueType # "null" =>
              (ShownInput(B, i).valueType = "address" <=> Finish(B).inputs[i].val \in Addresses)
<1> DEFINE arg == Finish(B).inputs[i]
           t == PureValueTypes(Finish(B))[i]
           k == B.order[i]
<1>1. k \in DOMAIN B.inputs /\ arg = B.inputs[k]
  BY FinishFacts, SoundFacts
<1>2. KeyHolds(k, arg, Len(B.order))
  BY <1>1 DEF Sound
<1> DEFINE j == CallArgJSON(arg, t)
<1>3. j = ShownInput(B, i)
  BY DEF ShownInput
<1> HIDE DEF arg, t, k, j
<1>4. /\ ReadInput(j) = arg
      /\ j.type = "pure" /\ j.valueType # "null" => (j.valueType = "address" <=> arg.val \in Addresses)
  <2>1. CASE \E id \in DOMAIN CoinBalance : arg = ObjectCallArg(OwnedObject(id))
    BY <2>1, ShownObject DEF j
  <2>2. CASE \E w \in Nat : arg = WithdrawalArg(w)
    BY <2>2, ShownWithdrawal DEF j
  <2>3. CASE \E x \in PureValues : arg = PureArg(x)
    <3>1. PICK x \in PureValues : arg = PureArg(x)
      BY <2>3
    <3>2. arg.val = x
      BY <3>1 DEF PureArg
    <3> QED BY <3>1, <3>2, ShownPure DEF j
  <2> QED BY <1>2, <2>1, <2>2, <2>3 DEF KeyHolds
<1> QED BY <1>3, <1>4 DEF arg

(* Recipients are shown as addresses and amounts as numbers. *)
LEMMA ValueShown ==
  ASSUME NEW B, Sound(B), CmdsOK(B), NEW x \in PureValues, PureKey(x) \in DOMAIN B.inputs,
         NEW arg, arg = Slot(B, PureKey(x)), NEW j \in 1..Len(B.commands)
  PROVE  /\ x \in Addresses /\ Addressed(B.commands[j], arg) => ShownInput(B, arg[2] + 1).valueType = "address"
         /\ x \in Nat /\ Counted(B.commands[j], arg) => ShownInput(B, arg[2] + 1).valueType = "u64"
         /\ arg[2] + 1 \in DOMAIN B.order
<1>1. PICK i \in 1..Len(B.order) : B.order[i] = PureKey(x) /\ arg = InputArg(i - 1)
  BY SlotAt
<1>2. i \in DOMAIN B.order /\ arg[2] + 1 = i
  <2>1. i \in DOMAIN B.order /\ i \in Int
    BY SoundFacts
  <2>2. arg[2] = i - 1
    BY <1>1 DEF InputArg
  <2> QED BY <2>1, <2>2
<1>3. Finish(B).inputs[i] = PureArg(x)
  BY <1>1, <1>2, FinishFacts, PureAt
<1> DEFINE t == PureValueTypes(Finish(B))[i]
<1>4. t = Typed(B, Len(B.commands))[i]
  BY TypesAre
<1> HIDE DEF t
<1>5. /\ x \in Addresses /\ Addressed(B.commands[j], arg) => t = "address"
      /\ x \in Nat /\ Counted(B.commands[j], arg) => t = "u64"
  BY <1>1, <1>2, <1>4, AllTypesTell DEF TypesTell
<1>6. ShownInput(B, i) = CallArgJSON(PureArg(x), t)
  BY <1>3 DEF ShownInput, t
<1> QED BY <1>2, <1>5, <1>6, ShownPure

(* What RenderingTells says of the builder's transaction. *)
LEMMA BuilderShown ==
  ASSUME NEW B, Sound(B), CmdsOK(B), NEW pt, pt = Finish(B), NEW shown, shown = ProgrammableTransactionBlock(pt)
  PROVE  /\ [i \in DOMAIN shown.inputs |-> ReadInput(shown.inputs[i])] = pt.inputs
         /\ [i \in DOMAIN shown.commands |-> ReadCommand(shown.commands[i])] = pt.commands
         /\ \A i \in DOMAIN pt.commands :
              LET c == pt.commands[i]
              IN /\ c.name = "TransferObjects" => shown.inputs[c.arg[2] + 1].valueType = "address"
                 /\ c.name = "SplitCoins" => \A a \in ToSet(c.args) : shown.inputs[a[2] + 1].valueType = "u64"
         /\ \A i \in DOMAIN pt.inputs :
              shown.inputs[i].type = "pure" /\ shown.inputs[i].valueType # "null" =>
                (shown.inputs[i].valueType = "address" <=> pt.inputs[i].val \in Addresses)
<1>1. /\ shown.inputs = [i \in DOMAIN pt.inputs |-> ShownInput(B, i)]
      /\ shown.commands = [i \in DOMAIN pt.commands |-> CommandJSON(pt.commands[i])]
  BY DEF ProgrammableTransactionBlock, ShownInput
<1>2. pt.commands = B.commands /\ DOMAIN pt.inputs = DOMAIN B.order /\ DOMAIN pt.commands = 1..Len(B.commands)
  BY FinishFacts, SoundFacts
<1>3. pt.inputs = [i \in DOMAIN pt.inputs |-> pt.inputs[i]]
  BY DEF Finish
<1>4. pt.commands = [i \in DOMAIN pt.commands |-> pt.commands[i]]
  BY <1>2 DEF Sound, IsSeq
<1>5. \A i \in DOMAIN pt.inputs : /\ ReadInput(ShownInput(B, i)) = pt.inputs[i]
                                  /\ ShownInput(B, i).type = "pure" /\ ShownInput(B, i).valueType # "null" =>
                                       (ShownInput(B, i).valueType = "address" <=> pt.inputs[i].val \in Addresses)
  BY <1>2, InputShown
<1>6. \A i \in DOMAIN pt.commands : CmdOK(B, i - 1, pt.commands[i])
  BY <1>2 DEF CmdsOK
<1>7. [i \in DOMAIN shown.inputs |-> ReadInput(shown.inputs[i])] = pt.inputs
  <2> DEFINE f == shown.inputs
  <2>1. DOMAIN f = DOMAIN pt.inputs /\ \A i \in DOMAIN pt.inputs : f[i] = ShownInput(B, i)
    BY <1>1
  <2> HIDE DEF f
  <2>2. \A i \in DOMAIN pt.inputs : ReadInput(f[i]) = pt.inputs[i]
    BY <1>5, <2>1
  <2>3. [i \in DOMAIN f |-> ReadInput(f[i])] = pt.inputs
    BY <1>3, <2>1, <2>2
  <2> QED BY <2>3 DEF f
<1>8. [i \in DOMAIN shown.commands |-> ReadCommand(shown.commands[i])] = pt.commands
  <2>1. \A i \in DOMAIN pt.commands : ReadCommand(CommandJSON(pt.commands[i])) = pt.commands[i]
    BY <1>6, ReadCommandBack
  <2> QED BY <1>1, <1>4, <2>1
<1>9. ASSUME NEW i \in DOMAIN pt.commands, pt.commands[i].name = "TransferObjects"
      PROVE  shown.inputs[pt.commands[i].arg[2] + 1].valueType = "address"
  <2> DEFINE arg == pt.commands[i].arg
  <2>1. PureSlot(B, arg, Addresses)
    BY <1>6, <1>9 DEF CmdOK
  <2>2. PICK x \in Addresses : PureKey(x) \in DOMAIN B.inputs /\ arg = Slot(B, PureKey(x))
    BY <2>1 DEF PureSlot
  <2>3. i \in 1..Len(B.commands) /\ Addressed(B.commands[i], arg) /\ x \in PureValues
    BY <1>2, <1>9 DEF Addressed, PureValues
  <2> HIDE DEF arg
  <2>4. ShownInput(B, arg[2] + 1).valueType = "address" /\ arg[2] + 1 \in DOMAIN B.order
    BY <2>2, <2>3, ValueShown
  <2> QED BY <1>1, <1>2, <2>4 DEF arg
<1>10. ASSUME NEW i \in DOMAIN pt.commands, pt.commands[i].name = "SplitCoins", NEW a \in ToSet(pt.commands[i].args)
       PROVE  shown.inputs[a[2] + 1].valueType = "u64"
  <2> DEFINE c == pt.commands[i]
  <2>1. CmdOK(B, i - 1, c) /\ c = B.commands[i] /\ i \in 1..Len(B.commands) /\ c.name = "SplitCoins"
    BY <1>2, <1>6, <1>10
  <2>2. PICK l \in DOMAIN c.args : a = c.args[l]
    BY DEF ToSet
  <2> HIDE DEF c
  <2>3. PureSlot(B, a, Nat)
    BY <2>1, <2>2 DEF CmdOK
  <2>4. PICK x \in Nat : PureKey(x) \in DOMAIN B.inputs /\ a = Slot(B, PureKey(x))
    BY <2>3 DEF PureSlot
  <2>5. Counted(B.commands[i], a)
    <3>1. IsSeq(c.args)
      BY <2>1 DEF CmdOK, IsSeq
    <3>2. l \in 1..Len(c.args)
      BY <2>2, <3>1 DEF IsSeq
    <3> QED BY <2>1, <2>2, <3>2 DEF Counted, Contains
  <2>6. x \in PureValues
    BY DEF PureValues
  <2>7. ShownInput(B, a[2] + 1).valueType = "u64" /\ a[2] + 1 \in DOMAIN B.order
    BY <2>1, <2>4, <2>5, <2>6, ValueShown
  <2> QED BY <1>1, <1>2, <2>7
<1>11. \A i \in DOMAIN pt.inputs :
         shown.inputs[i].type = "pure" /\ shown.inputs[i].valueType # "null" =>
           (shown.inputs[i].valueType = "address" <=> pt.inputs[i].val \in Addresses)
  BY <1>1, <1>5
<1> QED BY <1>7, <1>8, <1>9, <1>10, <1>11

(* What ToInternalTransactionBlock shows of a finished transaction can be   *)
(* read back as the transaction, with the types of its recipients and       *)
(* amounts, whoever pays for it.                                            *)
THEOREM RenderingTellsTheTransaction ==
  Spec => []RenderingTells
<1>1. ASSUME Sound(b), CmdsOK(b)
      PROVE  RenderingTells
  <2> DEFINE pt == Finish(b)
             own == TransactionBlockData(NewProgrammable(Sender, <<"gas">>, pt, 9, 1))
             expiring == TransactionBlockData(
                           NewProgrammableWithExpiration(Sender, <<>>, pt, 9, 1, <<"ValidDuring">>))
             shown == own.transaction
  <2>1. /\ shown = ProgrammableTransactionBlock(pt)
        /\ \A sponsor \in Addresses :
             TransactionBlockData(NewProgrammableAllowSponsor(Sender, <<"gas">>, pt, 9, 1, sponsor))
               = [own EXCEPT !.gasData.owner = sponsor]
        /\ expiring = [own EXCEPT !.gasData.payment = <<>>]
    <3> HIDE DEF pt
    <3>1. own = View(pt, Sender, <<"gas">>, Sender)
      BY OwnView
    <3>2. expiring = View(pt, Sender, <<>>, Sender)
      BY ExpiringView
    <3>3. \A sponsor \in Addresses :
            TransactionBlockData(NewProgrammableAllowSponsor(Sender, <<"gas">>, pt, 9, 1, sponsor))
              = View(pt, Sender, <<"gas">>, sponsor)
      BY SponsoredView
    <3> HIDE DEF own, expiring
    <3>4. shown = ProgrammableTransactionBlock(pt)
      BY <3>1, ViewParts
    <3>5. \A sponsor \in Addresses : WithOwner(own, sponsor) = View(pt, Sender, <<"gas">>, sponsor)
      BY <3>1, ViewParts
    <3>6. WithPayment(own, <<>>) = View(pt, Sender, <<>>, Sender)
      BY <3>1, ViewParts
    <3> QED BY <3>2, <3>3, <3>4, <3>5, <3>6 DEF WithOwner, WithPayment
  <2> HIDE DEF pt, own, expiring
  <2>2. pt = Finish(b)
    BY DEF pt
  <2>3. /\ [i \in DOMAIN shown.inputs |-> ReadInput(shown.inputs[i])] = pt.inputs
        /\ [i \in DOMAIN shown.commands |-> ReadCommand(shown.commands[i])] = pt.commands
        /\ \A i \in DOMAIN pt.commands :
             LET c == pt.commands[i]
             IN /\ c.name = "TransferObjects" => shown.inputs[c.arg[2] + 1].valueType = "address"
                /\ c.name = "SplitCoins" => \A a \in ToSet(c.args) : shown.inputs[a[2] + 1].valueType = "u64"
        /\ \A i \in DOMAIN pt.inputs :
             shown.inputs[i].type = "pure" /\ shown.inputs[i].valueType # "null" =>
               (shown.inputs[i].valueType = "address" <=> pt.inputs[i].val \in Addresses)
    <3> HIDE DEF shown
    <3> QED BY <1>1, <2>1, <2>2, BuilderShown
  <2> QED BY <2>1, <2>3 DEF RenderingTells, pt, own, expiring
<1>2. IInv => RenderingTells
  BY <1>1, IInvShape DEF Live
<1> QED BY <1>2, TransfersInvariant, PTL
=============================================================================
