---------------------------- MODULE MCBatchReads ----------------------------
EXTENDS BatchReads

CONSTANTS d1, d2, d3

(* Less than a chunk, a chunk, more than two, and one digest twice. *)
MCDigestLists == {<<>>, <<d1>>, <<d1, d2>>, <<d3, d1, d3, d2, d1>>}
MCContents == <<d1, d2, d3>>
MCObjectLists == {<<>>, <<3, 1, 3>>}

(* Coins of SUI; one is owned by a kind of owner the client does not know. *)
MCItemObject ==
  [k \in Items |->
     [f \in ObjectFields |->
        CASE f = "object_id" -> k
          [] f = "object_type" -> "Coin<SUI>"
          [] f = "owner" -> IF k = 2 THEN "UNKNOWN" ELSE "ADDRESS"
          [] OTHER -> <<f, k>>]]

(* The first checkpoint, which has no previous one, and a later one. *)
MCSummary(k) ==
  [f \in {"epoch", "total_network_transactions", "epoch_rolling_gas_cost_summary", "timestamp"}
          \cup (IF k = 0 THEN {} ELSE {"previous_digest"}) |-> <<f, k>>]
MCCheckpoints ==
  {[f \in CheckpointReadMaskPaths \cup {"contents"} |-> IF f = "summary" THEN MCSummary(k) ELSE <<f, k>>] : k \in 0..1}

(* Metadata with an object, without one, and none. *)
MCCoinInfo ==
  << [decimals |-> 9, symbol |-> "SUI", id |-> 1], [decimals |-> 6, symbol |-> "USDC", id |-> Unset], Unset >>

MCOptionSets == {{}, Options, {"Content"}, {"Bcs"}, {"Type", "PreviousTransaction", "Display"}, {"Owner", "StorageRebate"}}

(* No limit, one, one more than a uint32 holds, and one that truncates to 1. *)
MCLimits == {0, 1, U32, U32 + 1}
=============================================================================
