-------------------------- MODULE MCCheckpointScan --------------------------
(***************************************************************************)
(* Small instances of CheckpointScan for TLC.                              *)
(***************************************************************************)
EXTENDS CheckpointScan

(* From genesis, from inside the ledger, and from the last uint64, where    *)
(* startSeqNum + limit wraps.                                               *)
MCStarts == {0, 2, U64 - 1}
MCLimits == {-1, 1, 3}
MCMasks == {{}, {"digest"}, {"sequence_number", "digest"}}

AnyNode == {"fail", "gap", "silent", "early"}
StallingNode == AnyNode \cup {"stall"}
WorkingNode == {"silent", "early", "stall"}
=============================================================================
