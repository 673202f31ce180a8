-------------------------- MODULE PTBuilder_proofs --------------------------
(***************************************************************************)
(* Proofs about PTBuilder: for any values, any number of calls within the  *)
(* width of the index, and any order of them.                              *)
(***************************************************************************)
EXTENDS PTBuilder, FiniteSetTheorems, TLAPS

(* A builder whose map and key order agree. *)
Consistent(B) ==
  /\ B = [inputs |-> B.inputs, order |-> B.order, commands |-> B.commands]
  /\ B.order \in Seq(DOMAIN B.inputs)
  /\ IsFiniteSet(DOMAIN B.inputs)
  /\ Cardinality(DOMAIN B.inputs) = Len(B.order)
  /\ \A i, j \in DOMAIN B.order : B.order[i] = B.order[j] => i = j
  /\ \A k \in DOMAIN B.inputs : \E i \in DOMAIN B.order : B.order[i] = k

(* The form of a registered object. *)
ObjectForm(o) ==
  /\ o = [kind |-> o.kind, id |-> o.id, version |-> o.version, mutable |-> o.mutable]
  /\ o.kind \in {"ImmOrOwned", "Receiving", "Shared"}
  /\ o.mutable \in {"yes", "no"}

(* A key k and the value v it holds in a builder with len inputs: each kind *)
(* of key has its own kind of value, and the names of separate inputs are   *)
(* used up in order.                                                        *)
KeyHolds(k, v, len) ==
  \/ /\ k = ObjectKey(k[2])
     /\ v = ObjectCallArg(v.val)
     /\ ObjectForm(v.val)
     /\ v.val.id = k[2]
  \/ /\ k = PureKey(k[2])
     /\ v = PureArg(k[2])
  \/ /\ k = ForcedKey(k[2])
     /\ k[2] \in 0..(len - 1)
     /\ v.kind \in {"Pure", "FundsWithdrawal"}

KeysHold(B) == \A k \in DOMAIN B.inputs : KeyHolds(k, B.inputs[k], Len(B.order))

(* What an entry h of the history and the builder have to do with each      *)
(* other.                                                                   *)
HandleHolds(B, h) ==
  /\ h.index + 1 \in DOMAIN B.order
  /\ Serves(B.inputs[B.order[h.index + 1]], h.value)
  /\ h.separate = "yes" <=> B.order[h.index + 1][1] = "ForcedNonUniquePure"

HandlesHold == \A n \in DOMAIN issued : HandleHolds(b, issued[n])

IInv ==
  /\ TypeOK
  /\ Consistent(b)
  /\ KeysHold(b)
  /\ HandlesHold
  /\ SeparateInputs
  /\ NoEscalation

(* The outcome r of registering value under key in B. *)
Inserted(r, B, key, value) ==
  /\ Consistent(r.b)
  /\ r.err = "none"
  /\ r.arg[2] \in 0..(U16 - 1)
  /\ r.arg[2] + 1 \in DOMAIN r.b.order
  /\ r.b.order[r.arg[2] + 1] = key
  /\ DOMAIN r.b.inputs = DOMAIN B.inputs \cup {key}
  /\ r.b.inputs[key] = value
  /\ \A k \in DOMAIN B.inputs : k # key => r.b.inputs[k] = B.inputs[k]
  /\ \A i \in DOMAIN B.order : i \in DOMAIN r.b.order /\ r.b.order[i] = B.order[i]
  /\ Len(B.order) <= Len(r.b.order) /\ Len(r.b.order) <= Len(B.order) + 1
  /\ key \notin DOMAIN B.inputs => Len(r.b.order) = Len(B.order) + 1
  /\ r.b.commands = B.commands

-----------------------------------------------------------------------------
(* An index within the width of uint16 is not changed by it. *)
LEMMA FitsU16 ==
  ASSUME NEW n \in Nat, NEW m \in Nat, n < m
  PROVE  n % m = n
  BY Z3

(* insertFull keeps map and order in agreement, returns the position of the *)
(* key and moves no other key.                                              *)
LEMMA InsertFullFacts ==
  ASSUME NEW B, Consistent(B), Len(B.order) < U16, NEW key, NEW value
  PROVE  Inserted(InsertFull(B, key, value), B, key, value)
<1> USE U16Assumption
<1> DEFINE r == InsertFull(B, key, value)
           keys == DOMAIN B.inputs
<1>1. /\ B.order \in Seq(keys) /\ IsFiniteSet(keys) /\ Cardinality(keys) = Len(B.order)
      /\ \A i, j \in DOMAIN B.order : B.order[i] = B.order[j] => i = j
      /\ \A k \in keys : \E i \in DOMAIN B.order : B.order[i] = k
      /\ DOMAIN B.order = 1..Len(B.order) /\ Len(B.order) \in Nat
  BY DEF Consistent
<1>2. /\ DOMAIN r.b.inputs = keys \cup {key}
      /\ r.b.inputs[key] = value
      /\ \A k \in keys : k # key => r.b.inputs[k] = B.inputs[k]
      /\ r.b.commands = B.commands
      /\ r.err = "none"
      /\ r.b = [inputs |-> r.b.inputs, order |-> r.b.order, commands |-> r.b.commands]
  BY DEF InsertFull, Outcome
<1>2a. key \notin keys => r.b.order = Append(B.order, key) /\ r.arg[2] = Len(B.order) % U16
  BY DEF InsertFull, Outcome, InputArg
<1>2b. key \in keys => r.b.order = B.order /\ r.arg[2] = PositionOf(B.order, key) % U16
  BY DEF InsertFull, Outcome, InputArg
<1> SUFFICES Inserted(r, B, key, value)
  BY DEF r
<1> HIDE DEF r
<1>3. CASE key \notin keys
  <2>1. r.b.order = Append(B.order, key) /\ r.arg[2] = Len(B.order) % U16
    BY <1>3, <1>2a
  <2>2. r.arg[2] = Len(B.order)
    BY <1>1, <2>1, FitsU16
  <2>3. /\ r.b.order \in Seq(keys \cup {key})
        /\ Len(r.b.order) = Len(B.order) + 1
        /\ DOMAIN r.b.order = 1..(Len(B.order) + 1)
        /\ r.b.order[Len(B.order) + 1] = key
        /\ \A i \in 1..Len(B.order) : r.b.order[i] = B.order[i]
    <3>1. B.order \in Seq(keys \cup {key})
      BY <1>1
    <3> QED
      BY <1>1, <2>1, <3>1
  <2>4. /\ IsFiniteSet(keys \cup {key})
        /\ Cardinality(keys \cup {key}) = Cardinality(keys) + 1
    BY <1>1, <1>3, FS_AddElement
  <2>5. \A i \in 1..Len(B.order) : B.order[i] \in keys
    BY <1>1
  <2>6. \A i, j \in DOMAIN r.b.order : r.b.order[i] = r.b.order[j] => i = j
    <3> SUFFICES ASSUME NEW i \in 1..(Len(B.order) + 1), NEW j \in 1..(Len(B.order) + 1),
                        r.b.order[i] = r.b.order[j]
                 PROVE  i = j
      BY <2>3
    <3>1. CASE i <= Len(B.order) /\ j <= Len(B.order)
      <4>1. i \in DOMAIN B.order /\ j \in DOMAIN B.order /\ B.order[i] = B.order[j]
        BY <1>1, <2>3, <3>1
      <4> QED
        BY <1>1, <4>1
    <3>2. CASE i <= Len(B.order) /\ j = Len(B.order) + 1
      <4>1. i \in 1..Len(B.order)
        BY <1>1, <3>2
      <4>2. r.b.order[i] \in keys
        BY <2>3, <2>5, <4>1
      <4>3. r.b.order[j] = key
        BY <2>3, <3>2
      <4> QED
        BY <1>3, <4>2, <4>3
    <3>3. CASE i = Len(B.order) + 1 /\ j <= Len(B.order)
      <4>1. j \in 1..Len(B.order)
        BY <1>1, <3>3
      <4>2. r.b.order[j] \in keys
        BY <2>3, <2>5, <4>1
      <4>3. r.b.order[i] = key
        BY <2>3, <3>3
      <4> QED
        BY <1>3, <4>2, <4>3
    <3> QED
      BY <1>1, <3>1, <3>2, <3>3
  <2>7. \A k \in keys \cup {key} : \E i \in DOMAIN r.b.order : r.b.order[i] = k
    <3>1. ASSUME NEW k \in keys PROVE \E i \in DOMAIN r.b.order : r.b.order[i] = k
      <4>1. PICK i \in DOMAIN B.order : B.order[i] = k
        BY <1>1
      <4>2. i \in DOMAIN r.b.order /\ r.b.order[i] = k
        BY <1>1, <2>3, <4>1
      <4> QED
        BY <4>2
    <3>2. Len(B.order) + 1 \in DOMAIN r.b.order
      BY <1>1, <2>3
    <3> QED
      BY <2>3, <3>1, <3>2
  <2>8. Consistent(r.b)
    BY <1>1, <1>2, <2>3, <2>4, <2>6, <2>7 DEF Consistent
  <2> QED
    <3>1. r.arg[2] \in 0..(U16 - 1) /\ r.arg[2] + 1 \in DOMAIN r.b.order
      BY <1>1, <2>2, <2>3
    <3>2. r.b.order[r.arg[2] + 1] = key
      BY <2>2, <2>3
    <3>3. \A i \in DOMAIN B.order : i \in DOMAIN r.b.order /\ r.b.order[i] = B.order[i]
      BY <1>1, <2>3
    <3>4. Len(B.order) <= Len(r.b.order) /\ Len(r.b.order) <= Len(B.order) + 1
      BY <1>1, <2>3
    <3> QED
      BY <1>2, <2>3, <2>8, <3>1, <3>2, <3>3, <3>4 DEF Inserted
<1>4. CASE key \in keys
  <2>1. r.b.order = B.order /\ r.arg[2] = PositionOf(B.order, key) % U16
    BY <1>4, <1>2b
  <2>2. PICK i \in DOMAIN B.order : B.order[i] = key
    BY <1>1, <1>4
  <2>3. PositionOf(B.order, key) = i - 1
    <3> DEFINE first(x) == /\ B.order[x] = key
                           /\ \A j \in DOMAIN B.order : B.order[j] = key => x <= j
               c == CHOOSE x \in DOMAIN B.order : first(x)
    <3>1. first(i)
      BY <1>1, <2>2
    <3>2. c \in DOMAIN B.order /\ first(c)
      BY <2>2, <3>1
    <3>3. c = i
      BY <1>1, <2>2, <3>2
    <3>4. PositionOf(B.order, key) = c - 1
      BY DEF PositionOf
    <3> QED
      BY <3>3, <3>4
  <2>4. r.arg[2] = i - 1
    <3>1. i - 1 \in Nat /\ U16 \in Nat /\ i - 1 < U16
      BY <1>1, <2>2
    <3> QED
      BY <2>1, <2>3, <3>1, FitsU16
  <2>5. keys \cup {key} = keys
    BY <1>4
  <2>6. Consistent(r.b)
    <3>1. DOMAIN r.b.inputs = keys /\ r.b.order = B.order
      BY <1>2, <2>1, <2>5
    <3>2. r.b = [inputs |-> r.b.inputs, order |-> r.b.order, commands |-> r.b.commands]
      BY <1>2
    <3> HIDE DEF keys
    <3> QED
      BY <1>1, <3>1, <3>2 DEF Consistent
  <2> QED
    <3>1. r.arg[2] \in 0..(U16 - 1) /\ r.arg[2] + 1 \in DOMAIN r.b.order
      BY <1>1, <2>1, <2>2, <2>4
    <3>2. r.b.order[r.arg[2] + 1] = key
      BY <1>1, <2>1, <2>2, <2>4
    <3>3. Len(B.order) <= Len(r.b.order) /\ Len(r.b.order) <= Len(B.order) + 1
      BY <1>1, <2>1
    <3> QED
      BY <1>2, <1>4, <2>1, <2>6, <3>1, <3>2, <3>3 DEF Inserted
<1> QED
  BY <1>3, <1>4

-----------------------------------------------------------------------------
(* A step in which a call fails, or only the commands grow, keeps the       *)
(* inductive invariant.                                                     *)
LEMMA SameInputs ==
  ASSUME IInv, b'.inputs = b.inputs, b'.order = b.order, UNCHANGED issued,
         b' = [inputs |-> b'.inputs, order |-> b'.order, commands |-> b'.commands]
  PROVE  IInv'
  BY DEF IInv, TypeOK, Consistent, KeysHold, HandlesHold, HandleHolds,
         SeparateInputs, NoEscalation

(* A call that registers value under key, where value serves what the       *)
(* caller wants and everyone who was given that key before, keeps the       *)
(* inductive invariant.                                                     *)
LEMMA RegisterPreserves ==
  ASSUME IInv, NEW r, NEW key, NEW value, NEW want \in CallArgs,
         NEW separate \in {"yes", "no"},
         Inserted(r, b, key, value),
         Register(r, want, separate),
         KeyHolds(key, value, Len(r.b.order)),
         Serves(value, want),
         separate = "yes" <=> key[1] = "ForcedNonUniquePure",
         separate = "yes" => key \notin DOMAIN b.inputs,
         \A w : key \in DOMAIN b.inputs /\ Serves(b.inputs[key], w) => Serves(value, w),
         value.kind = "Object" /\ value.val.mutable = "yes" =>
           \/ /\ want.kind = "Object" /\ want.val.id = value.val.id
              /\ want.val.mutable = "yes"
           \/ /\ key \in DOMAIN b.inputs /\ b.inputs[key].kind = "Object"
              /\ b.inputs[key].val.id = value.val.id
              /\ b.inputs[key].val.mutable = "yes"
  PROVE  IInv'
<1> USE U16Assumption, BuilderBounds
<1> DEFINE h == [index |-> r.arg[2], value |-> want, separate |-> separate]
<1>1. b' = r.b /\ issued' = Append(issued, h) /\ Len(issued) < MaxCalls
  BY DEF Register, Inserted
<1>2. /\ h \in Handles
      /\ h.index = r.arg[2] /\ h.value = want /\ h.separate = separate
  BY DEF Handles, Inserted
<1> HIDE DEF h
<1>3. /\ issued \in Seq(Handles)
      /\ Len(issued) \in Nat
      /\ DOMAIN issued = 1..Len(issued)
  BY DEF IInv, TypeOK
<1>4. /\ issued' \in Seq(Handles)
      /\ Len(issued') = Len(issued) + 1
      /\ DOMAIN issued' = 1..(Len(issued) + 1)
      /\ issued'[Len(issued) + 1] = h
      /\ \A n \in DOMAIN issued : n \in DOMAIN issued' /\ issued'[n] = issued[n]
      /\ \A n \in DOMAIN issued' : n # Len(issued) + 1 => n \in DOMAIN issued
  BY <1>1, <1>2, <1>3
<1>5. Consistent(b) /\ Consistent(b') /\ Len(b.order) \in Nat /\ Len(b'.order) \in Nat
  <2>1. Consistent(b) /\ Consistent(b')
    BY <1>1 DEF IInv, Inserted
  <2>2. b.order \in Seq(DOMAIN b.inputs) /\ b'.order \in Seq(DOMAIN b'.inputs)
    BY <2>1 DEF Consistent
  <2> QED
    BY <2>1, <2>2
<1>6. TypeOK'
  <2>1. Len(b'.order) <= Len(issued')
    BY <1>1, <1>4, <1>5 DEF IInv, TypeOK, Inserted
  <2>2. Len(issued') <= MaxCalls
    BY <1>1, <1>3, <1>4
  <2> QED
    BY <1>4, <1>5, <2>1, <2>2 DEF TypeOK, Consistent, Handles, CallArgs
<1>7. KeysHold(b')
  <2> SUFFICES ASSUME NEW k \in DOMAIN b'.inputs
               PROVE  KeyHolds(k, b'.inputs[k], Len(b'.order))
    BY DEF KeysHold
  <2>1. CASE k = key
    BY <1>1, <2>1 DEF Inserted
  <2>2. CASE k # key
    <3>1. k \in DOMAIN b.inputs /\ b'.inputs[k] = b.inputs[k]
      BY <1>1, <2>2 DEF Inserted
    <3>2. KeyHolds(k, b.inputs[k], Len(b.order)) /\ Len(b.order) <= Len(b'.order)
      BY <1>1, <3>1 DEF IInv, KeysHold, Inserted
    <3> QED
      BY <1>5, <3>1, <3>2 DEF KeyHolds
  <2> QED
    BY <2>1, <2>2
<1>8. ASSUME NEW n \in DOMAIN issued PROVE HandleHolds(b', issued[n])
  <2> DEFINE i == issued[n].index + 1
             k == b.order[i]
  <2>1. /\ i \in DOMAIN b.order
        /\ Serves(b.inputs[k], issued[n].value)
        /\ issued[n].separate = "yes" <=> k[1] = "ForcedNonUniquePure"
    BY DEF IInv, HandlesHold, HandleHolds
  <2>2. k \in DOMAIN b.inputs
    BY <1>5, <2>1 DEF Consistent
  <2>3. i \in DOMAIN b'.order /\ b'.order[i] = k
    BY <1>1, <2>1 DEF Inserted
  <2>4. Serves(b'.inputs[k], issued[n].value)
    <3>1. CASE k = key
      BY <1>1, <2>1, <2>2, <3>1 DEF Inserted
    <3>2. CASE k # key
      BY <1>1, <2>1, <2>2, <3>2 DEF Inserted
    <3> QED
      BY <3>1, <3>2
  <2> QED
    BY <2>1, <2>3, <2>4 DEF HandleHolds
<1>9. HandleHolds(b', h)
  BY <1>1, <1>2 DEF HandleHolds, Inserted
<1>10. HandlesHold'
  <2> SUFFICES ASSUME NEW n \in DOMAIN issued' PROVE HandleHolds(b', issued'[n])
    BY DEF HandlesHold
  <2>1. CASE n = Len(issued) + 1
    BY <1>4, <1>9, <2>1
  <2>2. CASE n # Len(issued) + 1
    BY <1>4, <1>8, <2>2
  <2> QED
    BY <2>1, <2>2
<1>11. ASSUME NEW n \in DOMAIN issued, issued[n].index = h.index
       PROVE  separate # "yes" /\ issued[n].separate # "yes"
  <2>1. /\ issued[n].index + 1 \in DOMAIN b.order
        /\ b'.order[issued[n].index + 1] = b.order[issued[n].index + 1]
        /\ issued[n].separate = "yes" <=>
             b.order[issued[n].index + 1][1] = "ForcedNonUniquePure"
    BY <1>1 DEF IInv, HandlesHold, HandleHolds, Inserted
  <2>2. b.order[issued[n].index + 1] = key
    BY <1>1, <1>2, <1>11, <2>1 DEF Inserted
  <2>3. key \in DOMAIN b.inputs
    BY <1>5, <2>1, <2>2 DEF Consistent
  <2> QED
    BY <2>1, <2>2, <2>3
<1>12. SeparateInputs'
  <2> SUFFICES ASSUME NEW m \in DOMAIN issued', NEW n \in DOMAIN issued',
                      issued'[m].separate = "yes",
                      issued'[m].index = issued'[n].index
               PROVE  m = n
    BY DEF SeparateInputs
  <2>1. CASE m = Len(issued) + 1 /\ n # Len(issued) + 1
    BY <1>2, <1>4, <1>11, <2>1
  <2>2. CASE m # Len(issued) + 1 /\ n = Len(issued) + 1
    BY <1>2, <1>4, <1>11, <2>2
  <2>3. CASE m # Len(issued) + 1 /\ n # Len(issued) + 1
    BY <1>4, <2>3 DEF IInv, SeparateInputs
  <2> QED
    BY <2>1, <2>2, <2>3
<1>13. NoEscalation'
  <2> SUFFICES ASSUME NEW k \in DOMAIN b'.inputs,
                      b'.inputs[k].kind = "Object", b'.inputs[k].val.mutable = "yes"
               PROVE  \E n \in DOMAIN issued' :
                        /\ issued'[n].value.kind = "Object"
                        /\ issued'[n].value.val.id = b'.inputs[k].val.id
                        /\ issued'[n].value.val.mutable = "yes"
    BY DEF NoEscalation
  <2>1. ASSUME NEW q \in DOMAIN b.inputs,
               b.inputs[q].kind = "Object", b.inputs[q].val.mutable = "yes",
               b.inputs[q].val.id = b'.inputs[k].val.id
        PROVE  \E n \in DOMAIN issued' :
                 /\ issued'[n].value.kind = "Object"
                 /\ issued'[n].value.val.id = b'.inputs[k].val.id
                 /\ issued'[n].value.val.mutable = "yes"
    <3>1. PICK n \in DOMAIN issued :
            /\ issued[n].value.kind = "Object"
            /\ issued[n].value.val.id = b.inputs[q].val.id
            /\ issued[n].value.val.mutable = "yes"
      BY <2>1 DEF IInv, NoEscalation
    <3>2. n \in DOMAIN issued' /\ issued'[n] = issued[n]
      BY <1>4
    <3> QED
      BY <2>1, <3>1, <3>2
  <2>2. CASE k # key
    BY <1>1, <2>1, <2>2 DEF Inserted
  <2>3. CASE k = key
    <3>1. b'.inputs[k] = value
      BY <1>1, <2>3 DEF Inserted
    <3>2. CASE want.kind = "Object" /\ want.val.id = value.val.id /\ want.val.mutable = "yes"
      <4>1. Len(issued) + 1 \in DOMAIN issued'
        BY <1>3, <1>4
      <4> QED
        BY <1>2, <1>4, <3>1, <3>2, <4>1
    <3>3. CASE /\ key \in DOMAIN b.inputs /\ b.inputs[key].kind = "Object"
               /\ b.inputs[key].val.id = value.val.id
               /\ b.inputs[key].val.mutable = "yes"
      BY <2>1, <3>1, <3>3
    <3> QED
      BY <3>1, <3>2, <3>3
  <2> QED
    BY <2>2, <2>3
<1> QED
  BY <1>1, <1>5, <1>6, <1>7, <1>10, <1>12, <1>13 DEF IInv

-----------------------------------------------------------------------------
(* The room that the bound on calls leaves. *)
LEMMA RoomForInput ==
  ASSUME IInv, Len(issued) < MaxCalls
  PROVE  Consistent(b) /\ Len(b.order) < U16
<1>1. Consistent(b) /\ b.order \in Seq(DOMAIN b.inputs) /\ issued \in Seq(Handles)
  BY DEF IInv, TypeOK
<1>2. Len(b.order) \in Nat /\ Len(issued) \in Nat /\ Len(b.order) <= Len(issued)
  BY <1>1 DEF IInv, TypeOK
<1> QED
  BY <1>1, <1>2, U16Assumption, BuilderBounds

(* Pure keeps the inductive invariant: equal values share an input. *)
LEMMA PureStep ==
  ASSUME IInv, NEW v, PureArg(v) \in CallArgs, CallPure(v)
  PROVE  IInv'
<1> DEFINE r == Pure(b, v)
<1>1. Register(r, PureArg(v), "no") /\ Len(issued) < MaxCalls
  BY DEF CallPure, Register
<1>2. Inserted(r, b, PureKey(v), PureArg(v))
  BY <1>1, RoomForInput, InsertFullFacts DEF Pure, PureBytes
<1> HIDE DEF r
<1>3. KeyHolds(PureKey(v), PureArg(v), Len(r.b.order)) /\ Serves(PureArg(v), PureArg(v))
  BY DEF KeyHolds, PureKey, Serves
<1>4. ASSUME PureKey(v) \in DOMAIN b.inputs PROVE b.inputs[PureKey(v)] = PureArg(v)
  BY <1>4 DEF IInv, KeysHold, KeyHolds, PureKey, ObjectKey, ForcedKey
<1>5. PureKey(v)[1] # "ForcedNonUniquePure" /\ PureArg(v).kind # "Object"
  BY DEF PureKey, PureArg
<1> QED
  BY <1>1, <1>2, <1>3, <1>4, <1>5, RegisterPreserves

(* A separate input is always a new one: its name, the number of inputs,    *)
(* has not been used.                                                       *)
LEMMA FreshName ==
  ASSUME IInv
  PROVE  /\ ForcedKey(InputCount(b)) \notin DOMAIN b.inputs
         /\ InputCount(b) = Len(b.order)
<1>1. InputCount(b) = Len(b.order) /\ b.order \in Seq(DOMAIN b.inputs)
  BY DEF IInv, Consistent, InputCount
<1>2. Len(b.order) \in Nat
  BY <1>1
<1> QED
  BY <1>1, <1>2 DEF IInv, KeysHold, KeyHolds, PureKey, ObjectKey, ForcedKey

(* ForceSeparatePure and CreateFundsWithdrawalArgument keep the inductive   *)
(* invariant.                                                               *)
LEMMA SeparateStep ==
  ASSUME IInv, NEW value \in CallArgs, value.kind \in {"Pure", "FundsWithdrawal"},
         Register(InsertFull(b, ForcedKey(InputCount(b)), value), value, "yes")
  PROVE  IInv'
<1> DEFINE key == ForcedKey(InputCount(b))
           r == InsertFull(b, key, value)
<1>1. Register(r, value, "yes") /\ Len(issued) < MaxCalls
  BY DEF Register
<1>2. Inserted(r, b, key, value)
  BY <1>1, RoomForInput, InsertFullFacts
<1> HIDE DEF r
<1>3. key \notin DOMAIN b.inputs /\ InputCount(b) = Len(b.order) /\ Len(b.order) \in Nat
  <2>1. b.order \in Seq(DOMAIN b.inputs)
    BY DEF IInv, TypeOK
  <2> QED
    BY <2>1, FreshName
<1>4. Len(r.b.order) = Len(b.order) + 1
  BY <1>2, <1>3 DEF Inserted
<1>5. KeyHolds(key, value, Len(r.b.order)) /\ Serves(value, value)
  BY <1>3, <1>4 DEF KeyHolds, ForcedKey, Serves
<1>6. key[1] = "ForcedNonUniquePure"
  BY DEF ForcedKey
<1> QED
  BY <1>1, <1>2, <1>3, <1>5, <1>6, RegisterPreserves

(* Obj keeps the inductive invariant: a repeated request for a shared       *)
(* object serves the earlier ones as well.                                  *)
LEMMA ObjStep ==
  ASSUME IInv, NEW o \in ObjectArgs, Register(Obj(b, o), ObjectCallArg(o), "no")
  PROVE  IInv'
<1> DEFINE key == ObjectKey(o.id)
           want == ObjectCallArg(o)
           old == b.inputs[key]
<1>1. Len(issued) < MaxCalls /\ Consistent(b) /\ Len(b.order) < U16
  BY RoomForInput DEF Register
<1>2. ObjectForm(o) /\ want \in CallArgs
  BY ObjectArgsAssumption DEF ObjectForm, CallArgs
<1>3. key[1] # "ForcedNonUniquePure" /\ key[2] = o.id
  BY DEF ObjectKey
<1>4. CASE key \notin DOMAIN b.inputs
  <2> DEFINE r == InsertFull(b, key, want)
  <2>1. Register(r, want, "no")
    BY <1>4 DEF Obj
  <2>2. Inserted(r, b, key, want)
    BY <1>1, InsertFullFacts
  <2> HIDE DEF r
  <2>3. KeyHolds(key, want, Len(r.b.order)) /\ Serves(want, want)
    BY <1>2 DEF KeyHolds, Serves, ObjectKey, ObjectCallArg
  <2>4. want.kind = "Object" /\ want.val = o
    BY DEF ObjectCallArg
  <2> QED
    BY <1>2, <1>3, <1>4, <2>1, <2>2, <2>3, <2>4, RegisterPreserves
<1>5. CASE key \in DOMAIN b.inputs /\ Obj(b, o) = Outcome(b, NoArg, Obj(b, o).err)
           /\ Obj(b, o).err # "none"
  <2>1. b' = b /\ UNCHANGED issued
    BY <1>5 DEF Register, Outcome
  <2>2. b = [inputs |-> b.inputs, order |-> b.order, commands |-> b.commands]
    BY <1>1 DEF Consistent
  <2> QED
    BY <2>1, <2>2, SameInputs
<1>6. CASE /\ key \in DOMAIN b.inputs
           /\ old.kind = "Object" /\ old.val.kind = "Shared" /\ o.kind = "Shared"
           /\ old.val.version = o.version
  <2> DEFINE merged == MergeShared(old.val, o)
             value == ObjectCallArg(merged)
             r == InsertFull(b, key, value)
  <2>1. Register(r, want, "no")
    BY <1>6 DEF Obj
  <2>2. Inserted(r, b, key, value)
    BY <1>1, InsertFullFacts
  <2> HIDE DEF r
  <2>3. old = ObjectCallArg(old.val) /\ ObjectForm(old.val) /\ old.val.id = o.id
    BY <1>6 DEF IInv, KeysHold, KeyHolds, ObjectKey, PureKey, ForcedKey
  <2>4. /\ merged = [kind |-> "Shared", id |-> o.id, version |-> o.version,
                     mutable |-> merged.mutable]
        /\ merged.kind = "Shared" /\ merged.id = o.id /\ merged.version = o.version
        /\ merged.mutable \in {"yes", "no"}
        /\ merged.mutable = "yes" <=> (old.val.mutable = "yes" \/ o.mutable = "yes")
        /\ value.kind = "Object" /\ value.val = merged
    BY DEF MergeShared, SharedObject, ObjectCallArg
  <2>5. ObjectForm(merged)
    BY <2>4 DEF ObjectForm
  <2> HIDE DEF merged
  <2>6. KeyHolds(key, value, Len(r.b.order))
    BY <2>4, <2>5 DEF KeyHolds, ObjectKey, ObjectCallArg
  <2>7. want.kind = "Object" /\ want.val = o
    BY DEF ObjectCallArg
  <2> HIDE DEF value
  <2>8. Serves(value, want)
    BY <1>6, <2>4, <2>7 DEF Serves
  <2>9. \A w : Serves(old, w) => Serves(value, w)
    BY <1>6, <2>3, <2>4 DEF Serves
  <2> HIDE DEF want, key
  <2> QED
    BY <1>2, <1>3, <1>6, <2>1, <2>2, <2>3, <2>4, <2>6, <2>7, <2>8, <2>9,
       RegisterPreserves
<1> QED
  BY <1>4, <1>5, <1>6 DEF Obj, Outcome

-----------------------------------------------------------------------------
(* A new builder satisfies the inductive invariant. *)
LEMMA NewBuilderIInv ==
  ASSUME b = NewBuilder, issued = <<>>
  PROVE  IInv
<1>1. /\ b = [inputs |-> b.inputs, order |-> b.order, commands |-> b.commands]
      /\ b.order = <<>> /\ DOMAIN b.inputs = {}
  BY DEF NewBuilder
<1>2. IsFiniteSet({}) /\ Cardinality({}) = 0
  BY FS_EmptySet
<1>3. b.order \in Seq(DOMAIN b.inputs) /\ Len(b.order) = 0 /\ DOMAIN b.order = {}
  BY <1>1
<1>4. Consistent(b)
  BY <1>1, <1>2, <1>3 DEF Consistent
<1>5. issued \in Seq(Handles) /\ Len(issued) = 0 /\ DOMAIN issued = {}
  OBVIOUS
<1>6. TypeOK
  BY <1>1, <1>3, <1>5, BuilderBounds DEF TypeOK
<1> QED
  BY <1>1, <1>4, <1>5, <1>6
  DEF IInv, KeysHold, HandlesHold, SeparateInputs, NoEscalation

(* Every call of the builder preserves the inductive invariant. *)
LEMMA NextIInv == IInv /\ [Next]_vars => IInv'
<1> SUFFICES ASSUME IInv, [Next]_vars PROVE IInv'
  OBVIOUS
<1>1. b = [inputs |-> b.inputs, order |-> b.order, commands |-> b.commands]
  BY DEF IInv, TypeOK
<1>2. ASSUME NEW v \in PureValues, CallPure(v) PROVE IInv'
  BY <1>2, PureStep DEF CallArgs
<1>3. ASSUME NEW v \in PureValues, CallForceSeparatePure(v) PROVE IInv'
  <2>1. Register(InsertFull(b, ForcedKey(InputCount(b)), PureArg(v)), PureArg(v), "yes")
    BY <1>3 DEF CallForceSeparatePure, ForceSeparatePure, PureBytes
  <2>2. PureArg(v) \in CallArgs /\ PureArg(v).kind = "Pure"
    BY DEF CallArgs, PureArg
  <2> QED
    BY <2>1, <2>2, SeparateStep
<1>4. ASSUME NEW o \in ObjectArgs, CallObj(o) PROVE IInv'
  BY <1>4, ObjStep DEF CallObj
<1>5. ASSUME NEW w \in Withdrawals,
             Register(CreateFundsWithdrawalArgument(b, w), WithdrawalArg(w), "yes")
      PROVE  IInv'
  <2>1. WithdrawalArg(w) \in CallArgs /\ WithdrawalArg(w).kind = "FundsWithdrawal"
    BY DEF CallArgs, WithdrawalArg
  <2> QED
    BY <1>5, <2>1, SeparateStep DEF CreateFundsWithdrawalArgument
<1>6. ASSUME NEW callArg \in CallArgs, CallInput(callArg) PROVE IInv'
  <2>1. ASSUME NEW v \in PureValues, callArg = PureArg(v) PROVE IInv'
    <3>1. callArg.kind = "Pure" /\ callArg.val = v
      BY <2>1 DEF PureArg
    <3>2. Input(b, callArg) = Pure(b, v)
      BY <3>1 DEF Input, Pure
    <3>3. CallPure(v)
      BY <1>6, <2>1, <3>1, <3>2 DEF CallInput, CallPure
    <3> QED
      BY <1>2, <3>3
  <2>2. ASSUME NEW o \in ObjectArgs, callArg = ObjectCallArg(o) PROVE IInv'
    <3>1. callArg.kind = "Object" /\ callArg.val = o
      BY <2>2 DEF ObjectCallArg
    <3>2. Input(b, callArg) = Obj(b, o)
      BY <3>1 DEF Input
    <3>3. CallObj(o)
      BY <1>6, <2>2, <3>1, <3>2 DEF CallInput, CallObj
    <3> QED
      BY <1>4, <3>3
  <2>3. ASSUME NEW w \in Withdrawals, callArg = WithdrawalArg(w) PROVE IInv'
    <3>1. callArg.kind = "FundsWithdrawal" /\ callArg.val = w
      BY <2>3 DEF WithdrawalArg
    <3>2. Input(b, callArg) = CreateFundsWithdrawalArgument(b, w)
      BY <3>1 DEF Input
    <3>3. Register(CreateFundsWithdrawalArgument(b, w), WithdrawalArg(w), "yes")
      BY <1>6, <2>3, <3>1, <3>2 DEF CallInput
    <3> QED
      BY <1>5, <3>3
  <2>4. CASE callArg.kind = "nil"
    <3>1. Input(b, callArg) = Outcome(b, NoArg, "NilCallArg")
      BY <2>4 DEF Input
    <3>2. Input(b, callArg).b = b /\ Input(b, callArg).err = "NilCallArg"
      BY <3>1 DEF Outcome
    <3>3. b' = b /\ UNCHANGED issued
      BY <1>6, <3>2 DEF CallInput, Register
    <3> QED
      BY <1>1, <3>3, SameInputs
  <2> QED
    BY <1>6, <2>1, <2>2, <2>3, <2>4 DEF CallArgs
<1>7. ASSUME NEW arg \in Arguments, CallCommand(arg) PROVE IInv'
  <2>1. /\ b'.inputs = b.inputs /\ b'.order = b.order
        /\ b' = [inputs |-> b'.inputs, order |-> b'.order, commands |-> b'.commands]
        /\ UNCHANGED issued
    BY <1>7 DEF CallCommand, Command, Outcome
  <2> QED
    BY <2>1, SameInputs
<1>8. CASE New
  <2>1. b' = NewBuilder /\ issued' = <<>>
    BY <1>8 DEF New
  <2>2. (b = NewBuilder /\ issued = <<>> => IInv)'
    BY NewBuilderIInv, PTL
  <2> QED
    BY <2>1, <2>2 DEF NewBuilder, PureArg
<1>9. CASE UNCHANGED vars
  BY <1>1, <1>9, SameInputs DEF vars
<1> QED
  BY <1>2, <1>3, <1>4, <1>5, <1>6, <1>7, <1>8, <1>9 DEF Next, CallWithdrawal

(* The inductive invariant holds in every reachable state. *)
THEOREM Invariance == Spec => []IInv
<1>1. Init => IInv
  BY NewBuilderIInv DEF Init
<1>2. IInv /\ [Next]_vars => IInv'
  BY NextIInv
<1> QED
  BY <1>1, <1>2, PTL DEF Spec

(* Type correctness of the builder and of the handles it issued. *)
THEOREM TypeCorrect == Spec => []TypeOK
<1>1. IInv => TypeOK
  BY DEF IInv
<1> QED
  BY <1>1, Invariance, PTL

(* Inputs and InputsKeyOrder always agree. *)
THEOREM OrderAgrees == Spec => []OrderIsBijection
<1>1. IInv => OrderIsBijection
  <2> SUFFICES ASSUME Consistent(b) PROVE OrderIsBijection
    BY DEF IInv
  <2>1. DOMAIN b.inputs = {b.order[i] : i \in DOMAIN b.order}
    BY DEF Consistent
  <2> QED
    BY <2>1 DEF Consistent, OrderIsBijection
<1> QED
  BY <1>1, Invariance, PTL

(* Every Argument the builder returned denotes, in the transaction that     *)
(* Finish would give now, what its caller registered.                       *)
THEOREM HandlesKeepDenoting == Spec => []HandlesDenote
<1>1. IInv => HandlesDenote
  <2> SUFFICES ASSUME IInv, NEW n \in DOMAIN issued
               PROVE  /\ issued[n].index + 1 \in DOMAIN Finish(b).inputs
                      /\ Serves(Finish(b).inputs[issued[n].index + 1], issued[n].value)
    BY DEF HandlesDenote
  <2>1. HandleHolds(b, issued[n])
    BY DEF IInv, HandlesHold
  <2>2. /\ DOMAIN Finish(b).inputs = DOMAIN b.order
        /\ \A i \in DOMAIN b.order : Finish(b).inputs[i] = b.inputs[b.order[i]]
    BY DEF Finish
  <2> QED
    BY <2>1, <2>2 DEF HandleHolds
<1> QED
  BY <1>1, Invariance, PTL

(* A forced or withdrawal input is shared with no other call. *)
THEOREM SeparateInputsStaySeparate == Spec => []SeparateInputs
<1>1. IInv => SeparateInputs
  BY DEF IInv
<1> QED
  BY <1>1, Invariance, PTL

(* Nothing becomes mutable that nobody asked to be. *)
THEOREM MutabilityIsAskedFor == Spec => []NoEscalation
<1>1. IInv => NoEscalation
  BY DEF IInv
<1> QED
  BY <1>1, Invariance, PTL
=============================================================================
