---------------------------- MODULE ResponseOps -----------------------------
(***************************************************************************)
(* The options of a read become a read mask (convert_readmask.go), the     *)
(* node fills in the fields of the mask, and                               *)
(* ExecutedTransaction.ToInternalType and the conversions it calls         *)
(* (executed_transaction_convert.go, effects_convert.go,                   *)
(* effects_objectchange_convert.go, owner_convert.go, event_convert.go,    *)
(* balance_change_convert.go) build the response, here as operators.       *)
(*                                                                         *)
(* A field that is nil is Unset.  Digests, types, gas figures and the      *)
(* contents of events are left out; an address is well formed or not.      *)
(***************************************************************************)
EXTENDS Integers, Sequences, FiniteSets, SequencesExt

CONSTANT Unset         \* nil

-----------------------------------------------------------------------------
(***************************************************************************)
(* Read masks.                                                             *)
(***************************************************************************)
(* Mutant: no signatures are asked for. *)
ResponseReadMaskPaths_unsigned(options) ==
  {"digest", "checkpoint", "timestamp"}
    \cup (IF options \cap {"Input", "RawInput", "ObjectChanges"} # {} THEN {"transaction.bcs"} ELSE {})
    \cup (IF options \cap {"Effects", "ObjectChanges"} # {} THEN {"effects"} ELSE {})
    \cup (IF "Events" \in options THEN {"events"} ELSE {})
    \cup (IF "BalanceChanges" \in options THEN {"balance_changes"} ELSE {})

ResponseReadMaskPaths(options) ==
  {"digest", "checkpoint", "timestamp"}
    \cup (IF options \cap {"Input", "RawInput"} # {} THEN {"transaction.bcs", "signatures"}
          ELSE IF "ObjectChanges" \in options THEN {"transaction.bcs"}
          ELSE {})
    \cup (IF options \cap {"Effects", "ObjectChanges"} # {} THEN {"effects"} ELSE {})
    \cup (IF "Events" \in options THEN {"events"} ELSE {})
    \cup (IF "BalanceChanges" \in options THEN {"balance_changes"} ELSE {})

(* EXTERNAL: the fields of a transaction a mask can name; the node fills in *)
(* the masked ones.                                                         *)
Fields ==
  {"digest", "checkpoint", "timestamp", "transaction.bcs", "signatures", "effects", "events",
   "balance_changes"}

Masked(t, paths) == [p \in paths |-> t[p]]

Get(x, path) == IF path \in DOMAIN x THEN x[path] ELSE Unset

-----------------------------------------------------------------------------
(***************************************************************************)
(* Effects.  A changed_objects entry is                                    *)
(*   [id, input, output, op, version, inputVersion, owner, write].         *)
(***************************************************************************)
(* The owner enum of effects; an unknown kind is the zero value. *)
ToInternalOwner(owner) ==
  CASE owner \in {"ADDRESS", "CONSENSUS_ADDRESS"} -> "AddressOwner"
    [] owner = "OBJECT" -> "ObjectOwner"
    [] owner = "SHARED" -> "Shared"
    [] owner = "IMMUTABLE" -> "Immutable"
    [] owner = "BAD_ADDRESS" -> "error"
    [] OTHER -> "zero"

(* The owner union of object changes; an unknown kind is an error. *)
ToInternalObjectOwner(owner) ==
  IF ToInternalOwner(owner) = "zero" THEN "error" ELSE ToInternalOwner(owner)

OwnedObjectRef(e) ==
  [id |-> e.id, version |-> e.version, owner |-> ToInternalOwner(e.owner)]

MarkerObjectRef(e, lamportVersion) == [id |-> e.id, version |-> lamportVersion]

AccumulatorEvent(e) ==
  [id |-> e.id, operation |-> e.write.operation, value |-> e.write.value]

Buckets ==
  {"GasObject", "Created", "Mutated", "Unwrapped", "Deleted", "UnwrappedThenDeleted",
   "Wrapped", "AccumulatorEvents"}

(* Mutant: an object that is wrapped is not told. *)
BucketOf_nowrap(e) ==
  LET written == e.output \in {"OBJECT_WRITE", "PACKAGE_WRITE"}
      existed == e.input = "EXISTS"
  IN CASE e.output = "ACCUMULATOR_WRITE" -> "AccumulatorEvents"
       [] e.output # "ACCUMULATOR_WRITE" /\ e.op = "CREATED" /\ written -> "Created"
       [] e.output # "ACCUMULATOR_WRITE" /\ e.op = "DELETED" ->
            IF existed THEN "Deleted" ELSE "UnwrappedThenDeleted"
       [] e.op = "NONE" /\ written -> IF existed THEN "Mutated" ELSE "Unwrapped"
       [] OTHER -> "none"

(* The bucket of an entry, or "none". *)
BucketOf(e) ==
  LET written == e.output \in {"OBJECT_WRITE", "PACKAGE_WRITE"}
      existed == e.input = "EXISTS"
  IN CASE e.output = "ACCUMULATOR_WRITE" -> "AccumulatorEvents"
       [] e.output # "ACCUMULATOR_WRITE" /\ e.op = "CREATED" /\ written -> "Created"
       [] e.output # "ACCUMULATOR_WRITE" /\ e.op = "DELETED" ->
            IF existed THEN "Deleted" ELSE "UnwrappedThenDeleted"
       [] e.op = "NONE" /\ written -> IF existed THEN "Mutated" ELSE "Unwrapped"
       [] e.op = "NONE" /\ existed /\ e.output = "DOES_NOT_EXIST" -> "Wrapped"
       [] OTHER -> "none"

(* out is [effects, errs]; an entry whose owner does not parse is dropped   *)
(* and reported.                                                            *)
ApplyToInternalEffects(out, e, lamportVersion) ==
  LET bucket == BucketOf(e)
      ref == CASE bucket \in {"Created", "Mutated", "Unwrapped"} -> OwnedObjectRef(e)
               [] bucket = "AccumulatorEvents" -> AccumulatorEvent(e)
               [] OTHER -> MarkerObjectRef(e, lamportVersion)
  IN IF bucket = "none" THEN out
     ELSE IF bucket \in {"Created", "Mutated", "Unwrapped"} /\ ref.owner = "error"
       THEN [out EXCEPT !.errs = @ \cup {<<"effects", e.id>>}]
       ELSE [out EXCEPT !.effects[bucket] = Append(@, ref)]

(* A failure keeps the node's description only, which may be empty. *)
ToInternalStatus(status) ==
  IF status.success = "yes" THEN [status |-> "success", error |-> ""]
  ELSE [status |-> "failure", error |-> status.description]

EffectsToInternalType(effects) ==
  LET gas == effects.gasObject
      none == [effects |-> [k \in Buckets \cup {"Status"} |->
                              IF k = "Status" THEN ToInternalStatus(effects.status) ELSE <<>>],
               errs |-> {}]
      start == CASE gas = Unset -> none
                 [] gas # Unset /\ OwnedObjectRef(gas).owner = "error" ->
                      [none EXCEPT !.errs = {<<"gas", gas.id>>}]
                 [] gas # Unset /\ OwnedObjectRef(gas).owner # "error" ->
                      [none EXCEPT !.effects["GasObject"] = <<OwnedObjectRef(gas)>>]
  IN IF effects = Unset THEN [effects |-> Unset, errs |-> {}]
     ELSE FoldLeft(LAMBDA out, e : ApplyToInternalEffects(out, e, effects.lamport),
                   start, effects.changed)

-----------------------------------------------------------------------------
(***************************************************************************)
(* Object changes.                                                         *)
(***************************************************************************)
(* Which variant an entry becomes, or "none". *)
ChangeKind(e) ==
  CASE e.output = "PACKAGE_WRITE" /\ e.op = "CREATED" -> "Published"
    [] e.output = "OBJECT_WRITE" /\ e.op = "CREATED" -> "Created"
    [] e.output = "OBJECT_WRITE" /\ e.op = "NONE" /\ e.input = "EXISTS" -> "Mutated"
    [] OTHER -> "none"

(* Effects keep an id as it is written, object changes parse it. *)
ParsesAsAddress(id) == id \notin {"bad object", "bad package"}

ToInternalObjectChange(e, sender) ==
  CASE ChangeKind(e) = "Published" -> [kind |-> "Published", id |-> e.id, version |-> e.version]
    [] ChangeKind(e) = "Created" ->
         [kind |-> "Created", id |-> e.id, version |-> e.version,
          owner |-> ToInternalObjectOwner(e.owner), sender |-> sender]
    [] ChangeKind(e) = "Mutated" ->
         [kind |-> "Mutated", id |-> e.id, version |-> e.version,
          previousVersion |-> e.inputVersion,
          owner |-> ToInternalObjectOwner(e.owner), sender |-> sender]

(* Mutant: only the owner is looked at. *)
Unrendered_owner(e) ==
  ChangeKind(e) \in {"Created", "Mutated"} /\ ToInternalObjectOwner(e.owner) = "error"

(* The id does not parse, or the owner of an object that was written. *)
Unrendered(e) ==
  /\ ChangeKind(e) # "none"
  /\ \/ ~ ParsesAsAddress(e.id)
     \/ ChangeKind(e) \in {"Created", "Mutated"} /\ ToInternalObjectOwner(e.owner) = "error"

(* out is [changes, errs]; a change that cannot be rendered is dropped and  *)
(* reported.                                                                *)
AppendObjectChange(out, e, sender) ==
  CASE ChangeKind(e) = "none" -> out
    [] Unrendered(e) -> [out EXCEPT !.errs = @ \cup {<<"change", e.id>>}]
    [] OTHER -> [out EXCEPT !.changes = Append(@, ToInternalObjectChange(e, sender))]

(* The list is nil if and only if it is empty: nil is <<>> here. *)
NoObjectChanges == [changes |-> <<>>, errs |-> {}]

ToInternalObjectChanges(effects, sender) ==
  IF effects = Unset THEN NoObjectChanges
  ELSE FoldLeft(LAMBDA out, e : AppendObjectChange(out, e, sender), NoObjectChanges, effects.changed)

-----------------------------------------------------------------------------
(***************************************************************************)
(* Events and balance changes, each with its index from 0; an entry with   *)
(* an address that does not parse is dropped and reported.                 *)
(***************************************************************************)
Indexed(list) == [i \in DOMAIN list |-> [seq |-> i - 1, entry |-> list[i]]]
AppendParsed(out, x) == IF x.entry = "ok" THEN Append(out, x) ELSE out
Parsed(list) == FoldLeft(AppendParsed, <<>>, Indexed(list))
Reported(what, list) == {<<what, i - 1>> : i \in {i \in DOMAIN list : list[i] # "ok"}}

EventsToInternalType(events) ==
  IF events = Unset THEN [out |-> Unset, errs |-> {}]
  ELSE [out |-> Parsed(events), errs |-> Reported("event", events)]

(* An empty list is nil. *)
BalanceChangesToInternal(changes) ==
  IF changes \in {Unset, <<>>} THEN [out |-> Unset, errs |-> {}]
  ELSE [out |-> Parsed(changes), errs |-> Reported("balance", changes)]

(* ExecutedTransaction.ToInternalType.  The BCS of a system transaction     *)
(* does not decode; the sender of its object changes is the zero address.   *)
ToInternalType(x, options) ==
  LET bcs == Get(x, "transaction.bcs")
      decoded == bcs # Unset /\ options \cap {"Input", "ObjectChanges"} # {} /\ bcs # "system"
      signed == <<bcs, Get(x, "signatures")>>
      noEffects == [effects |-> Unset, errs |-> {}]
      effects == IF "Effects" \in options
                   THEN EffectsToInternalType(Get(x, "effects")) ELSE noEffects
      changes == IF "ObjectChanges" \in options
                   THEN ToInternalObjectChanges(Get(x, "effects"),
                                                IF decoded THEN bcs ELSE "zero")
                   ELSE NoObjectChanges
      events == EventsToInternalType(Get(x, "events"))
      balances == BalanceChangesToInternal(Get(x, "balance_changes"))
      undecodable == IF "Input" \in options /\ bcs # Unset /\ ~ decoded
                       THEN {<<"decode", 0>>} ELSE {}
  IN [digest |-> Get(x, "digest"), checkpoint |-> Get(x, "checkpoint"),
      timestamp |-> Get(x, "timestamp"),
      rawTransaction |-> IF "RawInput" \in options /\ bcs # Unset THEN signed ELSE Unset,
      transaction |-> IF "Input" \in options /\ decoded THEN signed ELSE Unset,
      effects |-> effects.effects, objectChanges |-> changes.changes,
      events |-> events.out, balanceChanges |-> balances.out,
      errors |-> undecodable \cup effects.errs \cup changes.errs
                   \cup events.errs \cup balances.errs]
=============================================================================
