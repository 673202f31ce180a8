--------------------------- MODULE CheckpointScan ---------------------------
(***************************************************************************)
(* GetCheckpoints of client/checkpoints.go: a scan of a range of           *)
(* checkpoints that is asked for in rounds, each a server stream, and that *)
(* is resumed by sequence number while the ledger it reads keeps moving:   *)
(* the node executes new checkpoints at one end (tip) and prunes old ones  *)
(* at the other (lowest).  A scan that stays short is classified by a      *)
(* further request, GetServiceInfo.                                        *)
(*                                                                         *)
(* The node is external.  A frame is delivered at the moment it is sent: a *)
(* delay in between commutes with every step of the client, which sends    *)
(* nothing while it reads a stream.  Frames that carry a watermark only    *)
(* change nothing in the client and are left out.  A checkpoint is its     *)
(* sequence number.                                                        *)
(***************************************************************************)
EXTENDS Integers, Sequences

CONSTANTS
  U64,        \* the number of uint64 values, 2^64 in the code
  PageLimit,  \* checkpointsPageLimit
  NodeMax,    \* the node's own maximum of items for one request
  MaxTip,     \* bound: the highest checkpoint that is ever executed
  Starts,     \* values of startSeqNum that callers pass
  Limits,     \* values of limit that callers pass
  Masks,      \* read masks that callers pass, each a set of field paths
  NodeMay     \* what the node may do besides answering in full, see Behaviours

(***************************************************************************)
(* What a node may do:                                                     *)
(*   "fail"     fail a request or break a stream, with any code            *)
(*   "gap"      send a checkpoint out of sequence                          *)
(*   "silent"   end a stream at a pruned checkpoint instead of refusing it *)
(*   "early"    stop a round that has delivered something on a budget of   *)
(*              its own, or without a terminal frame                       *)
(*   "stall"    the same with a round that has delivered nothing           *)
(***************************************************************************)
Behaviours == {"fail", "gap", "silent", "early", "stall"}

SequenceNumber == "sequence_number"

ASSUME ScanConstants ==
  /\ MaxTip \in Nat
  /\ U64 \in Nat /\ MaxTip + 1 < U64
  /\ PageLimit \in Nat \ {0}
  /\ NodeMax \in Nat \ {0}
  /\ Starts \subseteq 0..(U64 - 1)
  /\ Limits \subseteq Int
  /\ \A s \in Starts, l \in Limits : s <= MaxTip => s + l < U64
  /\ NodeMay \subseteq Behaviours

VARIABLES
  tip,        \* node: the checkpoint executed last
  lowest,     \* node: the lowest checkpoint it still has
  pc,         \* where the call is
  start,      \* argument startSeqNum
  limit,      \* argument limit
  mask,       \* the read mask that is sent
  collected,  \* local collected
  next,       \* local next
  before,     \* local before
  endReason,  \* the reason of the last QueryEnd of the round, from which the
              \* local resumable is computed
  req,        \* the request of the open stream
  sent,       \* node: items delivered on the open stream
  code,       \* code of the error that prunedBelowRetention looks at
  result,     \* what the last call returned
  tipAtCall   \* history: tip when the call was made

nodeVars == <<tip, lowest>>
argVars == <<start, limit, mask, tipAtCall>>
scanVars == <<collected, next, before, endReason>>
streamVars == <<req, sent>>
vars == <<nodeVars, pc, argVars, scanVars, streamVars, code, result>>

NoRequest == [start |-> 0, end |-> 0, limit |-> 0]

(* The reasons of a terminal frame that the client can tell apart. *)
Reasons == {"ITEM_LIMIT", "SCAN_LIMIT", "CHECKPOINT_BOUND", "CURSOR_BOUND",
            "LEDGER_TIP", "UNKNOWN"}

NoEnd == "NO_END"

Codes == {"OutOfRange", "Other"}

(***************************************************************************)
(* Results.  Every error path returns a nil slice.                         *)
(***************************************************************************)
NoResult == [kind |-> "none", items |-> <<>>, missing |-> 0]
Ok(cs) == [kind |-> "ok", items |-> cs, missing |-> 0]
Failed(kind, n) == [kind |-> kind, items |-> <<>>, missing |-> n]

ResultKinds == {"none", "ok", "pruned", "gap", "node", "info"}

Lesser(a, b) == IF a <= b THEN a ELSE b
Succ64(n) == (n + 1) % U64

-----------------------------------------------------------------------------
(***************************************************************************)
(* The pieces of the client.                                               *)
(***************************************************************************)

(* Mutant: the caller's mask is sent as it is. *)
CheckpointScanMask_asgiven(m) == IF m = {} THEN {SequenceNumber} ELSE m

(* An empty mask stands for CheckpointReadMaskPaths, which has the field. *)
CheckpointScanMask(m) ==
  IF m = {} THEN {SequenceNumber} ELSE m \cup {SequenceNumber}

(* GetSequenceNumber on a frame: a field that was not asked for reads as 0. *)
ReadSeqNum(seq) == IF SequenceNumber \in mask THEN seq ELSE 0

(* Mutant: a round that used up the node's scan budget ends the scan. *)
ScanMayContinue_scanlimit(reason) ==
  reason \notin {"CHECKPOINT_BOUND", "CURSOR_BOUND", "LEDGER_TIP", "SCAN_LIMIT"}

ScanMayContinue(reason) ==
  reason \notin {"CHECKPOINT_BOUND", "CURSOR_BOUND", "LEDGER_TIP"}

(* Without a terminal frame the round may be resumed. *)
Resumable == ScanMayContinue(endReason)

(* Mutant: the limit of a request is not capped. *)
ListRequest_uncapped ==
  [start |-> next, end |-> (start + limit) % U64, limit |-> limit - Len(collected)]

ListRequest ==
  [start |-> next,
   end   |-> (start + limit) % U64,
   limit |-> Lesser(limit - Len(collected), PageLimit)]

(* A call that ends here leaves nothing open. *)
Return(r) ==
  /\ pc' = "done"
  /\ result' = r

-----------------------------------------------------------------------------
(***************************************************************************)
(* The node.                                                               *)
(***************************************************************************)

(* The next checkpoint of the open stream. *)
Position == req.start + sent

Ended == endReason # NoEnd
InRange == Position < req.end
ItemBudget == Lesser(req.limit, NodeMax)
Pruned(n) == n < lowest
HasItem ==
  /\ ~Ended
  /\ InRange
  /\ ~Pruned(Position)
  /\ Position <= tip
  /\ sent < ItemBudget

(* The reasons with which the node may end the open stream on a frame that *)
(* has no checkpoint.                                                       *)
EndReasons ==
  {r \in Reasons :
     \/ r = "CHECKPOINT_BOUND" /\ ~InRange
     \/ r = "LEDGER_TIP" /\ InRange /\ Position > tip
     \/ r \in {"CHECKPOINT_BOUND", "LEDGER_TIP"} /\ "silent" \in NodeMay
          /\ InRange /\ Pruned(Position)
     \/ r \in {"SCAN_LIMIT", "UNKNOWN"}
          /\ \/ "early" \in NodeMay /\ sent > 0
             \/ "stall" \in NodeMay /\ sent = 0}

MayBreakOff ==
  \/ Ended
  \/ "early" \in NodeMay /\ sent > 0
  \/ "stall" \in NodeMay /\ sent = 0

(* The codes with which the node may refuse the checkpoint n. *)
Refusals(n) ==
  {c \in Codes :
     \/ c = "OutOfRange" /\ Pruned(n)
     \/ "fail" \in NodeMay}

-----------------------------------------------------------------------------
Init ==
  /\ tip \in 0..MaxTip
  /\ lowest \in 0..tip
  /\ pc = "idle"
  /\ start = 0 /\ limit = 0 /\ mask = {} /\ tipAtCall = tip
  /\ collected = <<>> /\ next = 0 /\ before = 0 /\ endReason = NoEnd
  /\ req = NoRequest /\ sent = 0
  /\ code = "Other"
  /\ result = NoResult

(***************************************************************************)
(* The ledger moves at any time.                                           *)
(***************************************************************************)
Execute ==
  /\ tip < MaxTip
  /\ tip' = tip + 1
  /\ UNCHANGED <<lowest, pc, argVars, scanVars, streamVars, code, result>>

Prune ==
  /\ lowest < tip
  /\ lowest' = lowest + 1
  /\ UNCHANGED <<tip, pc, argVars, scanVars, streamVars, code, result>>

(***************************************************************************)
(* Entry of GetCheckpoints, up to the loop.                                *)
(***************************************************************************)
Call(s, l, m) ==
  /\ pc \in {"idle", "done"}
  /\ start' = s /\ limit' = l /\ mask' = CheckpointScanMask(m)
  /\ tipAtCall' = tip
  /\ collected' = <<>> /\ next' = s /\ before' = 0 /\ endReason' = NoEnd
  /\ req' = NoRequest /\ sent' = 0
  /\ code' = "Other"
  /\ IF l <= 0
       THEN Return(Ok(<<>>))
       ELSE pc' = "open" /\ result' = NoResult
  /\ UNCHANGED nodeVars

(* Head of the loop: ListCheckpoints is accepted or fails at once. *)
OpenRound ==
  /\ pc = "open"
  /\ pc' = "recv"
  /\ before' = Len(collected)
  /\ endReason' = NoEnd
  /\ req' = ListRequest
  /\ sent' = 0
  /\ UNCHANGED <<nodeVars, argVars, collected, next, code, result>>

OpenFails ==
  /\ pc = "open"
  /\ code' \in Refusals(next)
  /\ pc' = "refused"
  /\ before' = Len(collected)
  /\ UNCHANGED <<nodeVars, argVars, collected, next, endReason, streamVars, result>>

(* Mutant: the sequence number of a frame is not compared. *)
ReceiveItem_unchecked(seq, last) ==
  /\ sent' = sent + 1
  /\ collected' = Append(collected, seq)
  /\ next' = Succ64(next)
  /\ endReason' = IF last THEN "ITEM_LIMIT" ELSE endReason
  /\ UNCHANGED <<pc, result, before, nodeVars, argVars, req, code>>

(* A frame with checkpoint seq, and with QueryEnd when last is set. *)
ReceiveItem(seq, last) ==
  /\ sent' = sent + 1
  /\ IF ReadSeqNum(seq) # next
       THEN /\ Return(Failed("gap", next))
            /\ UNCHANGED scanVars
       ELSE /\ collected' = Append(collected, seq)
            /\ next' = Succ64(next)
            /\ endReason' = IF last THEN "ITEM_LIMIT" ELSE endReason
            /\ UNCHANGED <<pc, result, before>>
  /\ UNCHANGED <<nodeVars, argVars, req, code>>

(* The item the node owes; the one that exhausts the budget is the last. *)
RecvItem ==
  /\ pc = "recv" /\ HasItem
  /\ ReceiveItem(Position, sent + 1 = ItemBudget)

RecvGap(seq) ==
  /\ pc = "recv" /\ HasItem
  /\ "gap" \in NodeMay
  /\ seq # Position
  /\ ReceiveItem(seq, FALSE)

RecvEnd(reason) ==
  /\ pc = "recv" /\ ~Ended
  /\ reason \in EndReasons
  /\ endReason' = reason
  /\ UNCHANGED <<nodeVars, pc, argVars, collected, next, before, req, sent, code, result>>

RecvError ==
  /\ pc = "recv" /\ ~Ended
  /\ code' \in Refusals(Position)
  /\ pc' = "refused"
  /\ UNCHANGED <<nodeVars, argVars, scanVars, streamVars, result>>

(* Mutant: a round that brought nothing is resumed as well. *)
RecvEOF_nostall ==
  /\ pc = "recv" /\ MayBreakOff
  /\ \/ /\ Len(collected) >= limit
        /\ Return(Ok(collected))
     \/ /\ Len(collected) < limit
        /\ pc' = IF ~Resumable THEN "classify" ELSE "open"
        /\ UNCHANGED result
  /\ UNCHANGED <<nodeVars, argVars, scanVars, streamVars, code>>

(* EOF: the tests that end the round, then the loop, then the function. *)
RecvEOF ==
  /\ pc = "recv" /\ MayBreakOff
  /\ \/ /\ Len(collected) >= limit
        /\ Return(Ok(collected))
     \/ /\ Len(collected) < limit
        /\ pc' = IF ~Resumable \/ Len(collected) = before THEN "classify" ELSE "open"
        /\ UNCHANGED result
  /\ UNCHANGED <<nodeVars, argVars, scanVars, streamVars, code>>

(* Mutant: the lowest available checkpoint counts as pruned. *)
PrunedBelowRetention_lowest ==
  /\ pc = "refused"
  /\ IF code = "OutOfRange" /\ next <= lowest
       THEN Return(Failed("pruned", next))
       ELSE Return(Failed("node", next))
  /\ UNCHANGED <<nodeVars, argVars, scanVars, streamVars, code>>

(* prunedBelowRetention: GetServiceInfo only after an OutOfRange. *)
PrunedBelowRetention ==
  /\ pc = "refused"
  /\ \/ /\ code = "OutOfRange" /\ next < lowest
        /\ Return(Failed("pruned", next))
     \/ /\ code # "OutOfRange" \/ next >= lowest \/ "fail" \in NodeMay
        /\ Return(Failed("node", next))
  /\ UNCHANGED <<nodeVars, argVars, scanVars, streamVars, code>>

(* Mutant: a scan that has something is not classified. *)
Classify_empty ==
  /\ pc = "classify"
  /\ Return(IF collected = <<>> /\ next < lowest THEN Failed("pruned", next) ELSE Ok(collected))
  /\ UNCHANGED <<nodeVars, argVars, scanVars, streamVars, code>>

(* The short range after the loop: past the tip, or pruned. *)
Classify ==
  /\ pc = "classify"
  /\ \/ Return(IF next < lowest THEN Failed("pruned", next) ELSE Ok(collected))
     \/ "fail" \in NodeMay /\ Return(Failed("info", next))
  /\ UNCHANGED <<nodeVars, argVars, scanVars, streamVars, code>>

-----------------------------------------------------------------------------
ClientStep ==
  \/ OpenRound
  \/ OpenFails
  \/ RecvItem
  \/ \E seq \in 0..MaxTip : RecvGap(seq)
  \/ \E reason \in Reasons : RecvEnd(reason)
  \/ RecvError
  \/ RecvEOF
  \/ PrunedBelowRetention
  \/ Classify

Next ==
  \/ Execute
  \/ Prune
  \/ \E s \in Starts, l \in Limits, m \in Masks : Call(s, l, m)
  \/ ClientStep

Spec == Init /\ [][Next]_vars

(***************************************************************************)
(* A call that is under way goes on: every request is answered and every   *)
(* stream delivers or ends.  gRPC gives this with a context that expires,  *)
(* which reaches the client as a failed request ("fail").  Nothing forces  *)
(* the ledger to move.                                                     *)
(***************************************************************************)
FairSpec == Spec /\ WF_vars(ClientStep)

-----------------------------------------------------------------------------
(* The types of the ledger, the scan and its result; no request asks for    *)
(* more than checkpointsPageLimit checkpoints.                              *)
TypeOK ==
  /\ tip \in 0..MaxTip /\ lowest \in 0..tip
  /\ pc \in {"idle", "open", "recv", "refused", "classify", "done"}
  /\ start \in 0..(U64 - 1) /\ limit \in Int
  /\ tipAtCall \in 0..tip
  /\ collected \in Seq(0..MaxTip)
  /\ next \in 0..(U64 - 1) /\ before \in Nat
  /\ endReason \in Reasons \cup {NoEnd}
  /\ req \in [start : 0..(U64 - 1), end : 0..(U64 - 1), limit : 0..PageLimit]
  /\ sent \in Nat
  /\ code \in Codes
  /\ result \in [kind : ResultKinds, items : Seq(0..MaxTip), missing : 0..(U64 - 1)]

(* The scan holds exactly the checkpoints from startSeqNum up to the one it *)
(* owes, in order and without a hole, over every round and resumption, and  *)
(* never more of them than the caller asked for.                            *)
ScanContiguous ==
  pc \in {"open", "recv", "refused", "classify"} =>
    /\ next = start + Len(collected)
    /\ \A i \in DOMAIN collected : collected[i] = start + i - 1
    /\ Len(collected) <= limit

(* A call that succeeds has every checkpoint of the range that existed when *)
(* it was made: what it leaves out lies past the tip.  ("ending early at    *)
(* the tip of the chain")                                                   *)
CompleteToTip ==
  result.kind = "ok" =>
    Len(result.items) >= Lesser(limit, tipAtCall - start + 1)

(* A checkpoint is reported pruned only when it is: it is the first one the *)
(* caller misses, the node had it once and does not have it any more.       *)
PrunedJustified ==
  result.kind = "pruned" =>
    /\ result.missing = start + Len(collected)
    /\ result.missing < lowest
    /\ result.missing < start + limit

(* A call fails for a reason: the client blames the node for a gap only     *)
(* when the node sent one, and passes an error on only when a request       *)
(* failed.  In particular neither the resumed position nor a read mask      *)
(* makes a good stream look broken, and the refusal of a pruned checkpoint  *)
(* is always recognised as one.                                             *)
NoSpuriousError ==
  /\ result.kind = "gap" => "gap" \in NodeMay
  /\ result.kind \in {"node", "info"} => "fail" \in NodeMay

(***************************************************************************)
(* The scan as a single step of CheckpointRange, taken when it returns.    *)
(***************************************************************************)
Promise == INSTANCE CheckpointRange WITH called <- pc \notin {"idle", "done"}

(* GetCheckpoints, with its rounds, resumptions and the request that        *)
(* classifies a short scan, behaves as one atomic read of the range: the    *)
(* result is right for the ledger as it is at the instant of the return,    *)
(* whatever was executed or pruned while the scan was under way.            *)
ScanIsAtomic == Promise!Spec

(* Every call returns: a round that brings nothing ends the loop, whichever *)
(* way the node stopped it, and a round that brings something shortens it.  *)
CallReturns == pc = "open" ~> pc = "done"
=============================================================================
