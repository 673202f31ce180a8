----------------------------- MODULE ObjectView -----------------------------
(***************************************************************************)
(* What a caller is shown of an object: SuiObjectDataOptions become a read *)
(* mask (ObjectReadMaskPaths), the node fills in the masked fields, and    *)
(* Object.ToInternalType or ToInternalCoin (object_convert.go) picks them  *)
(* up; checkpoints (checkpoint_convert.go) and the metadata of coins       *)
(* (state_service_convert.go) likewise.  A message is a function from the  *)
(* paths of its fields to values, <<>> if it is nil; an outcome is a       *)
(* record [err, data].                                                     *)
(***************************************************************************)
EXTENDS ResponseOps

Malformed == 0     \* an address that does not parse

Options == {"Type", "Content", "Bcs", "Owner", "PreviousTransaction", "StorageRebate", "Display"}

ObjectFields ==
  {"object_id", "version", "digest", "object_type", "has_public_transfer", "json", "contents",
   "owner", "previous_transaction", "storage_rebate", "display", "balance"}

(* The paths an option adds. *)
PathsOf(option) ==
  CASE option = "Type" -> {"object_type"}
    [] option = "Content" -> {"object_type", "json", "has_public_transfer"}
    [] option = "Bcs" -> {"object_type", "contents", "has_public_transfer"}
    [] option = "Owner" -> {"owner"}
    [] option = "PreviousTransaction" -> {"previous_transaction"}
    [] option = "StorageRebate" -> {"storage_rebate"}
    [] option = "Display" -> {"display"}

(* Mutant: the type is asked for with the type only. *)
ObjectReadMaskPaths_untyped(options) ==
  {"object_id", "version", "digest"}
    \cup UNION {PathsOf(o) \ {"object_type"} : o \in options}
    \cup (IF "Type" \in options THEN {"object_type"} ELSE {})

(* Nil options are no options. *)
ObjectReadMaskPaths(options) ==
  {"object_id", "version", "digest"} \cup UNION {PathsOf(o) : o \in options}

CheckpointReadMaskPaths ==
  {"sequence_number", "digest", "summary", "signature", "transactions.digest"}

CoinReadMaskPaths ==
  {"object_id", "version", "digest", "object_type", "balance", "previous_transaction"}

-----------------------------------------------------------------------------
(* The content of a package is empty, its bytes are not offered. *)
ToInternalParsedData(x) ==
  IF Get(x, "object_type") = "package" THEN [variant |-> "Package"]
  ELSE [variant |-> "MoveObject", type |-> Get(x, "object_type"),
        hasPublicTransfer |-> Get(x, "has_public_transfer"), fields |-> Get(x, "json")]

ToInternalRawData(x) ==
  IF Get(x, "object_type") = "package" THEN Unset
  ELSE [variant |-> "MoveObject", type |-> Get(x, "object_type"),
        hasPublicTransfer |-> Get(x, "has_public_transfer"), version |-> Get(x, "version"),
        bcsBytes |-> Get(x, "contents")]

ObjectError(why) == [err |-> why, data |-> Unset]

(* Object.ToInternalType *)
ObjectToInternalType(x, options) ==
  LET owner == IF "Owner" \in options THEN Get(x, "owner") ELSE Unset
      shown(option, value) == IF option \in options THEN value ELSE Unset
  IN IF x = Unset THEN ObjectError("no object in response")
     ELSE IF Get(x, "object_id") = Malformed THEN ObjectError("address")
     ELSE IF owner # Unset /\ ToInternalObjectOwner(owner) = "error" THEN ObjectError("owner")
     ELSE [err |-> "none",
           data |->
             [objectId |-> Get(x, "object_id"), version |-> Get(x, "version"),
              digest |-> Get(x, "digest"),
              type |-> shown("Type", Get(x, "object_type")),
              content |-> shown("Content", ToInternalParsedData(x)),
              bcs |-> shown("Bcs", ToInternalRawData(x)),
              owner |-> IF owner = Unset THEN Unset ELSE ToInternalObjectOwner(owner),
              previousTransaction |-> shown("PreviousTransaction", Get(x, "previous_transaction")),
              storageRebate |-> shown("StorageRebate", Get(x, "storage_rebate")),
              display |-> shown("Display", Get(x, "display"))]]

(* What stands between the brackets of the object's type, if it has any. *)
CoinTypeFromObjectType(type) ==
  CASE type = "Coin<SUI>" -> "SUI"
    [] OTHER -> Unset

(* Object.ToInternalCoin *)
ToInternalCoin(x) ==
  IF Get(x, "object_id") = Malformed THEN ObjectError("address")
  ELSE IF CoinTypeFromObjectType(Get(x, "object_type")) = Unset THEN ObjectError("type")
  ELSE [err |-> "none",
        data |-> [coinType |-> CoinTypeFromObjectType(Get(x, "object_type")), coinObjectId |-> Get(x, "object_id"),
                  version |-> Get(x, "version"), digest |-> Get(x, "digest"),
                  balance |-> Get(x, "balance"),
                  previousTransaction |-> Get(x, "previous_transaction")]]

(* Checkpoint.ToInternalType.  Unset is the zero value of a field that is   *)
(* not there, and nothing in a nil checkpoint is.                           *)
CheckpointToInternalType(x) ==
  LET summary == IF Get(x, "summary") = Unset THEN <<>> ELSE x["summary"]
  IN [sequenceNumber |-> Get(x, "sequence_number"), digest |-> Get(x, "digest"),
      epoch |-> Get(summary, "epoch"),
      networkTotalTransactions |-> Get(summary, "total_network_transactions"),
      epochRollingGasCostSummary |-> Get(summary, "epoch_rolling_gas_cost_summary"),
      timestampMs |-> Get(summary, "timestamp"),
      previousDigest |-> Get(summary, "previous_digest"),
      transactions |-> Get(x, "transactions.digest"),
      validatorSignature |-> Get(x, "signature")]

(* GetCoinInfoResponse.ToInternalType: a coin type without metadata is an   *)
(* error, metadata without an object (id Unset) is not.                     *)
CoinInfoToInternalType(metadata) ==
  IF metadata = Unset THEN ObjectError("no metadata")
  ELSE IF metadata.id = Malformed THEN ObjectError("address")
  ELSE [err |-> "none",
        data |-> [decimals |-> metadata.decimals % 256, symbol |-> metadata.symbol, id |-> metadata.id]]
=============================================================================
