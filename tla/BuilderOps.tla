----------------------------- MODULE BuilderOps -----------------------------
(***************************************************************************)
(* The primitives of ProgrammableTransactionBuilder                        *)
(* (sui_types/programmable_transaction_builder.go) as operators on a       *)
(* builder value b = [inputs, order, commands]:                            *)
(*   b.inputs    Inputs, the map from key to CallArg                       *)
(*   b.order     InputsKeyOrder                                            *)
(*   b.commands  Commands                                                  *)
(* Every other method of the builder is written with these.  A method's    *)
(* outcome is a record [b, arg, err]: the builder it leaves, the Argument  *)
(* it returns and the error, with "panic" for a nil dereference.           *)
(*                                                                         *)
(* hashstructure, which turns a BuilderArg into the key of Inputs, is      *)
(* external and taken to be injective, so a key is the BuilderArg itself.  *)
(* BCS encoding is external and injective too: a pure value stands for its *)
(* bytes and marshalling does not fail on the values callers pass.         *)
(***************************************************************************)
EXTENDS Integers, Sequences, FiniteSets

CONSTANT U16     \* the number of uint16 values, 2^16 in the code

ASSUME U16Assumption == U16 \in Nat \ {0}

(* BuilderArg: one of three pointers is set. *)
ObjectKey(id) == <<"Object", id>>
PureKey(bytes) == <<"Pure", bytes>>
ForcedKey(n) == <<"ForcedNonUniquePure", n>>

(* CallArg *)
PureArg(bytes) == [kind |-> "Pure", val |-> bytes]
ObjectCallArg(o) == [kind |-> "Object", val |-> o]
WithdrawalArg(w) == [kind |-> "FundsWithdrawal", val |-> w]

(* ObjectArg; version and mutable matter for a shared object only. *)
OwnedObject(id) == [kind |-> "ImmOrOwned", id |-> id, version |-> 0, mutable |-> "no"]
SharedObject(id, version, mutable) ==
  [kind |-> "Shared", id |-> id, version |-> version, mutable |-> mutable]

(* Argument *)
GasCoin == <<"GasCoin">>
InputArg(i) == <<"Input", i>>
ResultArg(i) == <<"Result", i>>
NestedResultArg(i, j) == <<"NestedResult", i, j>>
NoArg == <<"None">>

NewBuilder == [inputs |-> [k \in {} |-> PureArg(0)], order |-> <<>>, commands |-> <<>>]

Outcome(b, arg, err) == [b |-> b, arg |-> arg, err |-> err]

(* The first position of key, counted from 0. *)
PositionOf(order, key) ==
  (CHOOSE i \in DOMAIN order :
     /\ order[i] = key
     /\ \A j \in DOMAIN order : order[j] = key => i <= j) - 1

(* Mutants: a new key is ordered but its value is not stored; a known key is *)
(* ordered again; a known key is answered with the last index.              *)
InsertFull_unstored(b, key, value) ==
  IF key \in DOMAIN b.inputs
    THEN Outcome(b, InputArg(PositionOf(b.order, key) % U16), "none")
    ELSE Outcome([inputs |-> b.inputs, order |-> Append(b.order, key), commands |-> b.commands],
                 InputArg(Len(b.order) % U16), "none")

InsertFull_reordered(b, key, value) ==
  Outcome([inputs   |-> [k \in DOMAIN b.inputs \cup {key} |->
                           IF k = key THEN value ELSE b.inputs[k]],
           order    |-> Append(b.order, key),
           commands |-> b.commands],
          InputArg(Len(b.order) % U16), "none")

InsertFull_last(b, key, value) ==
  LET new == key \notin DOMAIN b.inputs
      index == IF new THEN Len(b.order) ELSE Len(b.order) - 1
  IN Outcome([inputs   |-> [k \in DOMAIN b.inputs \cup {key} |->
                              IF k = key THEN value ELSE b.inputs[k]],
              order    |-> IF new THEN Append(b.order, key) ELSE b.order,
              commands |-> b.commands],
             InputArg(index % U16), "none")

(* The value is overwritten when the key is known; only a new key is added  *)
(* to the order.                                                            *)
InsertFull(b, key, value) ==
  LET new == key \notin DOMAIN b.inputs
      index == IF new THEN Len(b.order) ELSE PositionOf(b.order, key)
  IN Outcome([inputs   |-> [k \in DOMAIN b.inputs \cup {key} |->
                              IF k = key THEN value ELSE b.inputs[k]],
              order    |-> IF new THEN Append(b.order, key) ELSE b.order,
              commands |-> b.commands],
             InputArg(index % U16), "none")

(* len(p.Inputs) *)
InputCount(b) == Cardinality(DOMAIN b.inputs)

(* Mutant: forceSeparate is ignored. *)
PureBytes_shared(b, bytes, forceSeparate) == InsertFull(b, PureKey(bytes), PureArg(bytes))

PureBytes(b, bytes, forceSeparate) ==
  InsertFull(b, IF forceSeparate THEN ForcedKey(InputCount(b)) ELSE PureKey(bytes),
             PureArg(bytes))

Pure(b, value) == PureBytes(b, value, FALSE)

ForceSeparatePure(b, value) == PureBytes(b, value, TRUE)

CreateFundsWithdrawalArgument(b, w) ==
  InsertFull(b, ForcedKey(InputCount(b)), WithdrawalArg(w))

(* Mutant: an object used twice is taken as mutable. *)
MergeShared_mutable(old, o) == SharedObject(o.id, o.version, "yes")

(* Two requests for the same shared object are one input, mutable if either *)
(* asks for it.                                                             *)
MergeShared(old, o) ==
  SharedObject(o.id, o.version,
               IF old.mutable = "yes" \/ o.mutable = "yes" THEN "yes" ELSE "no")

(* The comparison of versions goes through SharedObject of both, which is   *)
(* nil for an owned or a receiving object.  Where the versions differ so do *)
(* the pointers, and the test of the default branch finds a mismatch.       *)
Obj(b, o) ==
  LET key == ObjectKey(o.id)
      old == b.inputs[key]
  IN IF key \notin DOMAIN b.inputs
       THEN InsertFull(b, key, ObjectCallArg(o))
     ELSE IF old.kind = "Pure"
       THEN Outcome(b, NoArg, "InvariantViolation")
     ELSE IF old.kind # "Object" \/ old.val.kind # "Shared" \/ o.kind # "Shared"
       THEN Outcome(b, NoArg, "panic")
     ELSE IF old.val.version # o.version
       THEN Outcome(b, NoArg, "MismatchedKind")
     ELSE InsertFull(b, key, ObjectCallArg(MergeShared(old.val, o)))

(* "nil" stands for a CallArg with no pointer set. *)
Input(b, callArg) ==
  CASE callArg.kind = "Pure" -> PureBytes(b, callArg.val, FALSE)
    [] callArg.kind = "Object" -> Obj(b, callArg.val)
    [] callArg.kind = "FundsWithdrawal" -> CreateFundsWithdrawalArgument(b, callArg.val)
    [] callArg.kind = "nil" -> Outcome(b, NoArg, "NilCallArg")

(* The index is uint16(len(p.Commands)) - 1. *)
Command(b, c) ==
  Outcome([inputs |-> b.inputs, order |-> b.order, commands |-> Append(b.commands, c)],
          ResultArg(Len(b.commands) % U16), "none")

(* ProgrammableTransaction: the inputs in the order of their keys. *)
Finish(b) ==
  [inputs |-> [i \in DOMAIN b.order |-> b.inputs[b.order[i]]], commands |-> b.commands]
=============================================================================
