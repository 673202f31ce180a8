----------------------- MODULE CheckpointScan_proofs ------------------------
(***************************************************************************)
(* Proofs about CheckpointScan for every ledger, every start and limit and *)
(* every page size.                                                        *)
(***************************************************************************)
EXTENDS CheckpointScan, TLAPS

Active == pc \in {"open", "recv", "refused", "classify"}

(* Why nothing of the range that existed at the call is missing. *)
Exhausted ==
  \/ Len(collected) >= limit
  \/ next > tipAtCall
  \/ next < lowest

(* The scan between two steps: arguments, position and what is collected. *)
ScanPosition ==
  Active =>
    /\ start \in Starts /\ limit \in Limits /\ limit >= 1
    /\ SequenceNumber \in mask
    /\ next = start + Len(collected)
    /\ \A i \in DOMAIN collected : collected[i] = start + i - 1
    /\ Len(collected) <= limit
    /\ Len(collected) > 0 => next - 1 <= tip
    /\ pc # "recv" => Len(collected) < limit
    /\ result.kind = "none"

(* The open stream and the scan stand at the same checkpoint. *)
StreamPosition ==
  pc = "recv" =>
    /\ Position = next
    /\ before + sent = Len(collected)
    /\ req.end = (start + limit) % U64
    /\ req.limit <= limit - before
    /\ req.limit >= 1
    /\ sent <= req.limit
    /\ ~Ended => sent < req.limit /\ sent < NodeMax

(* A refusal that is being looked at was one, unless the node may fail. *)
RefusalSound ==
  pc = "refused" => \/ "fail" \in NodeMay
                    \/ code = "OutOfRange" /\ next < lowest

(* A stream that stops the scan has left nothing behind. *)
StopSound ==
  "stall" \notin NodeMay =>
    /\ pc = "recv" /\ Ended /\ (~Resumable \/ sent = 0) => Exhausted
    /\ pc = "classify" => Exhausted

(* What the last call returned is what the properties ask for. *)
ResultSound ==
  /\ "stall" \notin NodeMay => CompleteToTip
  /\ PrunedJustified
  /\ NoSpuriousError

IInv ==
  /\ TypeOK
  /\ ScanPosition
  /\ StreamPosition
  /\ RefusalSound
  /\ StopSound
  /\ ResultSound

-----------------------------------------------------------------------------
(* No uint64 computation of the scan wraps while there is a ledger to scan. *)
LEMMA NoWrap ==
  ASSUME NEW n \in Nat, NEW m \in Nat, n < m
  PROVE  n % m = n
  BY Z3

(* The initial states satisfy the inductive invariant. *)
LEMMA InitIInv == Init => IInv
<1> SUFFICES ASSUME Init PROVE IInv
  OBVIOUS
<1> USE ScanConstants DEF Init
<1>1. TypeOK
  BY DEF TypeOK, NoResult, NoRequest, NoEnd, Codes, ResultKinds
<1>2. ScanPosition /\ StreamPosition /\ RefusalSound
  BY DEF ScanPosition, StreamPosition, RefusalSound, Active
<1>3. StopSound /\ ResultSound
  BY DEF StopSound, ResultSound, CompleteToTip, PrunedJustified,
         NoSpuriousError, NoResult
<1> QED
  BY <1>1, <1>2, <1>3 DEF IInv

(* Every step of the ledger, of a caller or of the scan preserves the       *)
(* inductive invariant.                                                     *)
LEMMA NextIInv == IInv /\ [Next]_vars => IInv'
<1> SUFFICES ASSUME IInv, [Next]_vars PROVE IInv'
  OBVIOUS
<1> USE ScanConstants
<1> USE DEF IInv, nodeVars, argVars, scanVars, streamVars
<1>1. CASE Execute
  <2> USE <1>1 DEF Execute
  <2>1. TypeOK'
    BY DEF TypeOK
  <2>2. ScanPosition' /\ StreamPosition' /\ RefusalSound'
    BY DEF TypeOK, ScanPosition, StreamPosition, RefusalSound, Active, Position,
           Ended
  <2>3. StopSound' /\ ResultSound'
    BY DEF TypeOK, ScanPosition, StreamPosition, RefusalSound, StopSound,
           ResultSound, CompleteToTip, PrunedJustified, NoSpuriousError, Active,
           Exhausted, Ended, Resumable, Position
  <2> QED
    BY <2>1, <2>2, <2>3
<1>2. CASE Prune
  <2> USE <1>2 DEF Prune
  <2>1. TypeOK'
    BY DEF TypeOK
  <2>2. ScanPosition' /\ StreamPosition' /\ RefusalSound'
    BY DEF TypeOK, ScanPosition, StreamPosition, RefusalSound, Active, Position,
           Ended
  <2>3. StopSound' /\ ResultSound'
    BY DEF TypeOK, ScanPosition, StreamPosition, RefusalSound, StopSound,
           ResultSound, CompleteToTip, PrunedJustified, NoSpuriousError, Active,
           Exhausted, Ended, Resumable, Position
  <2> QED
    BY <2>1, <2>2, <2>3
<1>3. ASSUME NEW s \in Starts, NEW l \in Limits, NEW m \in Masks, Call(s, l, m)
      PROVE  IInv'
  <2> USE <1>3 DEF Call, Return
  <2>1. TypeOK'
    <3>1. start' \in 0..(U64 - 1) /\ limit' \in Int /\ next' \in 0..(U64 - 1)
      OBVIOUS
    <3>2. /\ pc' \in {"open", "done"}
          /\ result' = Ok(<<>>) \/ result' = NoResult
      OBVIOUS
    <3>3. result' \in [kind : ResultKinds, items : Seq(0..MaxTip), missing : 0..(U64 - 1)]
      <4>1. CASE result' = Ok(<<>>)
        BY <4>1 DEF Ok, ResultKinds
      <4>2. CASE result' = NoResult
        BY <4>2 DEF NoResult, ResultKinds
      <4> QED
        BY <3>2, <4>1, <4>2
    <3>4. req' \in [start : 0..(U64 - 1), end : 0..(U64 - 1), limit : 0..PageLimit]
      BY DEF NoRequest
    <3> QED
      BY <3>1, <3>2, <3>3, <3>4 DEF TypeOK, NoEnd, Codes
  <2>2. ScanPosition' /\ StreamPosition' /\ RefusalSound'
    BY DEF TypeOK, ScanPosition, StreamPosition, RefusalSound, Active, Position,
           Ended, CheckpointScanMask, NoResult
  <2>3. StopSound' /\ ResultSound'
    BY DEF TypeOK, ScanPosition, StreamPosition, RefusalSound, StopSound,
           ResultSound, CompleteToTip, PrunedJustified, NoSpuriousError, Active,
           Exhausted, Ended, Resumable, Position, Ok, NoResult, Lesser
  <2> QED
    BY <2>1, <2>2, <2>3
<1>4. CASE OpenRound
  <2> USE <1>4 DEF OpenRound
  <2>1. TypeOK'
    BY SMTT(30) DEF TypeOK, ListRequest, Lesser, NoEnd, ScanPosition, Active
  <2>2. ScanPosition' /\ StreamPosition' /\ RefusalSound'
    BY SMTT(30) DEF TypeOK, ScanPosition, StreamPosition, RefusalSound, Active, Position,
           Ended, ListRequest, Lesser, NoEnd
  <2>3. StopSound' /\ ResultSound'
    BY DEF TypeOK, ScanPosition, StreamPosition, RefusalSound, StopSound,
           ResultSound, CompleteToTip, PrunedJustified, NoSpuriousError, Active,
           Exhausted, Ended, Resumable, Position, NoEnd
  <2> QED
    BY <2>1, <2>2, <2>3
<1>5. CASE OpenFails
  <2> USE <1>5 DEF OpenFails
  <2>1. TypeOK'
    BY DEF TypeOK, Refusals
  <2>2. ScanPosition' /\ StreamPosition' /\ RefusalSound'
    BY DEF TypeOK, ScanPosition, StreamPosition, RefusalSound, Active, Position,
           Ended, Refusals, Pruned
  <2>3. StopSound' /\ ResultSound'
    BY DEF TypeOK, ScanPosition, StreamPosition, RefusalSound, StopSound,
           ResultSound, CompleteToTip, PrunedJustified, NoSpuriousError, Active,
           Exhausted, Ended, Resumable, Position
  <2> QED
    BY <2>1, <2>2, <2>3
<1>6. CASE RecvItem
  <2> USE <1>6 DEF RecvItem
  <2>1. Position = next /\ next <= tip /\ next \in 0..MaxTip
    BY DEF HasItem, TypeOK, StreamPosition
  <2>2. Succ64(next) = next + 1
    <3>1. next + 1 \in Nat /\ U64 \in Nat /\ next + 1 < U64
      BY <2>1
    <3> QED
      BY <3>1, NoWrap DEF Succ64
  <2>3. ReadSeqNum(Position) = next
    BY <2>1 DEF ReadSeqNum, ScanPosition, Active
  <2>4. /\ collected' = Append(collected, next) /\ next' = next + 1
        /\ sent' = sent + 1
        /\ endReason' = IF sent + 1 = ItemBudget THEN "ITEM_LIMIT" ELSE endReason
        /\ UNCHANGED <<nodeVars, argVars, pc, result, before, req, code>>
    BY <2>1, <2>2, <2>3 DEF ReceiveItem
  <2>5. /\ Len(collected') = Len(collected) + 1
        /\ collected' \in Seq(0..MaxTip)
        /\ \A i \in DOMAIN collected' :
             collected'[i] = IF i = Len(collected) + 1 THEN next ELSE collected[i]
        /\ \A i \in DOMAIN collected' :
             i # Len(collected) + 1 => i \in DOMAIN collected
    BY <2>1, <2>4 DEF TypeOK
  <2>6. TypeOK'
    BY <2>1, <2>4, <2>5, SMTT(30) DEF TypeOK, Reasons
  <2>7. /\ ~Ended /\ sent < req.limit /\ sent < NodeMax
        /\ ~Ended' => sent + 1 < req.limit /\ sent + 1 < NodeMax
    BY <2>4 DEF HasItem, ItemBudget, Lesser, TypeOK, Ended, NoEnd
  <2>8. ScanPosition'
    <3>1. pc = "recv" /\ pc' = "recv" /\ Active
      BY <2>4 DEF Active
    <3>2. /\ next = start + Len(collected)
          /\ \A i \in DOMAIN collected : collected[i] = start + i - 1
          /\ Len(collected) < limit
      BY <2>7, <3>1, SMTT(30) DEF TypeOK, ScanPosition, StreamPosition
    <3>3. /\ next' = start' + Len(collected')
          /\ Len(collected') <= limit'
          /\ next' - 1 <= tip'
      BY <2>1, <2>4, <2>5, <3>2 DEF TypeOK
    <3>4. ASSUME NEW i \in DOMAIN collected' PROVE collected'[i] = start' + i - 1
      <4>1. CASE i = Len(collected) + 1
        BY <2>4, <2>5, <3>2, <4>1 DEF TypeOK
      <4>2. CASE i # Len(collected) + 1
        BY <2>4, <2>5, <3>2, <4>2 DEF TypeOK
      <4> QED
        BY <4>1, <4>2
    <3> QED
      BY <2>4, <3>1, <3>3, <3>4 DEF ScanPosition, Active
  <2>9. StreamPosition'
    <3>1. Position' = next' /\ before' + sent' = Len(collected')
      <4>1. /\ req.start \in Int /\ sent \in Int /\ before \in Int /\ next \in Int
            /\ Len(collected) \in Int
        BY DEF TypeOK
      <4>2. req.start + sent = next /\ before + sent = Len(collected)
        BY <1>6 DEF RecvItem, StreamPosition, Position
      <4>3. req'.start = req.start /\ before' = before
        BY <2>4
      <4>4. Position' = req.start + (sent + 1) /\ next' = next + 1
        BY <2>4, <4>3 DEF Position
      <4>5. before' + sent' = before + (sent + 1) /\ Len(collected') = Len(collected) + 1
        BY <2>4, <2>5, <4>3
      <4> QED
        BY <4>1, <4>2, <4>4, <4>5
    <3>2. /\ sent' <= req'.limit
          /\ ~Ended' => sent' < req'.limit /\ sent' < NodeMax
      BY <2>4, <2>7 DEF TypeOK
    <3> QED
      BY <2>4, <3>1, <3>2 DEF StreamPosition
  <2>10. StopSound'
    <3>1. pc' = "recv" /\ sent' # 0
      BY <2>4, <1>6 DEF TypeOK, RecvItem
    <3>2. Ended' => endReason' = "ITEM_LIMIT"
      BY <2>4, <2>7 DEF Ended
    <3>3. Ended' => Resumable'
      BY <3>2 DEF Resumable, ScanMayContinue
    <3> QED
      BY <3>1, <3>3 DEF StopSound
  <2>11. RefusalSound' /\ ResultSound'
    BY <2>4
    DEF ScanPosition, RefusalSound, ResultSound, CompleteToTip,
        PrunedJustified, NoSpuriousError, Active
  <2> QED
    BY <2>6, <2>8, <2>9, <2>10, <2>11
<1>7. ASSUME NEW seq \in 0..MaxTip, RecvGap(seq) PROVE IInv'
  <2>1. /\ Return(Failed("gap", next)) /\ "gap" \in NodeMay /\ pc = "recv"
        /\ sent' = sent + 1
        /\ UNCHANGED <<nodeVars, argVars, scanVars, req, code>>
    BY <1>7
    DEF RecvGap, ReceiveItem, ReadSeqNum, ScanPosition, StreamPosition, Active
  <2>2. TypeOK'
    BY <2>1 DEF TypeOK, Return, Failed, ResultKinds
  <2> QED
    BY <2>1, <2>2
    DEF Return, Failed, TypeOK, ScanPosition, StreamPosition, RefusalSound,
        StopSound, ResultSound, CompleteToTip, PrunedJustified,
        NoSpuriousError, Active
<1>8. ASSUME NEW reason \in Reasons, RecvEnd(reason) PROVE IInv'
  <2> USE <1>8 DEF RecvEnd
  <2>1. TypeOK' /\ ScanPosition' /\ StreamPosition' /\ RefusalSound' /\ ResultSound'
    BY DEF TypeOK, ScanPosition, StreamPosition, RefusalSound, ResultSound,
           CompleteToTip, PrunedJustified, NoSpuriousError, Active, Position,
           ScanMayContinue
  <2>2. ASSUME "stall" \notin NodeMay, ~Resumable' \/ sent = 0 PROVE Exhausted
    <3>1. CASE reason = "CHECKPOINT_BOUND" /\ ~InRange
      <4>1. CASE start <= MaxTip
        <5>1. req.end = start + limit
          <6>1. start + limit \in Nat /\ U64 \in Nat /\ start + limit < U64
            BY <4>1 DEF ScanPosition, Active, TypeOK
          <6> QED
            BY <6>1, NoWrap DEF StreamPosition
        <5> QED
          BY <3>1, <5>1
          DEF InRange, TypeOK, ScanPosition, StreamPosition, Exhausted, Active
      <4>2. CASE start > MaxTip
        BY <4>2 DEF TypeOK, ScanPosition, Exhausted, Active
      <4> QED
        BY <4>1, <4>2 DEF TypeOK
    <3>2. CASE reason = "LEDGER_TIP" /\ Position > tip
      BY <3>2 DEF TypeOK, StreamPosition, Exhausted
    <3>3. CASE Pruned(Position)
      BY <3>3 DEF TypeOK, StreamPosition, Exhausted, Pruned
    <3>4. CASE reason \in {"SCAN_LIMIT", "UNKNOWN"} /\ sent > 0
      BY <3>4, <2>2 DEF ScanMayContinue, Resumable, TypeOK
    <3> QED
      BY <2>2, <3>1, <3>2, <3>3, <3>4 DEF EndReasons, TypeOK
  <2>3. StopSound'
    BY <2>2 DEF StopSound, Exhausted, TypeOK
  <2> QED
    BY <2>1, <2>3
<1>9. CASE RecvError
  <2> USE <1>9 DEF RecvError
  <2>1. TypeOK'
    BY DEF TypeOK, Refusals
  <2>2. Position = next /\ Len(collected) < limit
    BY DEF TypeOK, StreamPosition
  <2>3. ScanPosition' /\ StreamPosition' /\ RefusalSound'
    BY <2>2 DEF ScanPosition, StreamPosition, RefusalSound, Active, Refusals, Pruned
  <2>4. StopSound' /\ ResultSound'
    BY DEF StopSound, ResultSound, CompleteToTip, PrunedJustified, NoSpuriousError
  <2> QED
    BY <2>1, <2>3, <2>4
<1>10. CASE RecvEOF
  <2>1. CASE Len(collected) >= limit /\ Return(Ok(collected))
    <3> USE <1>10, <2>1 DEF RecvEOF, Return, Ok
    <3>1. TypeOK'
      BY DEF TypeOK, ResultKinds
    <3>2. ResultSound'
      BY <3>1
      DEF TypeOK, ResultSound, CompleteToTip, PrunedJustified, NoSpuriousError,
          Lesser
    <3> QED
      BY <3>1, <3>2
      DEF ScanPosition, StreamPosition, RefusalSound, StopSound, Active
  <2>2. CASE /\ Len(collected) < limit
             /\ pc' = IF ~Resumable \/ Len(collected) = before THEN "classify" ELSE "open"
             /\ UNCHANGED result
    <3> USE <1>10, <2>2 DEF RecvEOF
    <3>1. TypeOK'
      BY DEF TypeOK
    <3>2. ScanPosition' /\ StreamPosition' /\ RefusalSound' /\ ResultSound'
      BY DEF TypeOK, ScanPosition, StreamPosition, RefusalSound, ResultSound,
             CompleteToTip, PrunedJustified, NoSpuriousError, Active
    <3>3. ASSUME "stall" \notin NodeMay, pc' = "classify" PROVE Exhausted
      <4>1. CASE Ended
        BY <3>3, <4>1
        DEF StopSound, StreamPosition, TypeOK
      <4>2. CASE ~Ended
        <5>1. sent > 0 /\ Resumable
          BY <3>3, <4>2
          DEF MayBreakOff, Ended, Resumable, ScanMayContinue, NoEnd, TypeOK
        <5> QED
          BY <3>3, <5>1 DEF StreamPosition, TypeOK
      <4> QED
        BY <4>1, <4>2
    <3>4. StopSound'
      BY <3>3 DEF StopSound, Exhausted, TypeOK
    <3> QED
      BY <3>1, <3>2, <3>4
  <2> QED
    BY <1>10, <2>1, <2>2 DEF RecvEOF
<1>11. CASE PrunedBelowRetention
  <2> USE <1>11 DEF PrunedBelowRetention
  <2>1. \/ next < lowest /\ Return(Failed("pruned", next))
        \/ "fail" \in NodeMay /\ Return(Failed("node", next))
    BY DEF RefusalSound, TypeOK
  <2>2. /\ pc' = "done"
        /\ result' = Failed("pruned", next) \/ result' = Failed("node", next)
    BY <2>1 DEF Return
  <2>3. TypeOK'
    <3>1. result' \in [kind : ResultKinds, items : Seq(0..MaxTip), missing : 0..(U64 - 1)]
      <4>1. CASE result' = Failed("pruned", next)
        BY <4>1 DEF TypeOK, Failed, ResultKinds
      <4>2. CASE result' = Failed("node", next)
        BY <4>2 DEF TypeOK, Failed, ResultKinds
      <4> QED
        BY <2>2, <4>1, <4>2
    <3> QED
      BY <2>2, <3>1 DEF TypeOK
  <2>4. ResultSound'
    <3>1. next = start + Len(collected) /\ Len(collected) < limit
      BY DEF ScanPosition, Active
    <3>2. CASE next < lowest /\ Return(Failed("pruned", next))
      BY <3>1, <3>2
      DEF Return, Failed, TypeOK, ResultSound, CompleteToTip, PrunedJustified,
          NoSpuriousError
    <3>3. CASE "fail" \in NodeMay /\ Return(Failed("node", next))
      BY <3>3
      DEF Return, Failed, ResultSound, CompleteToTip, PrunedJustified,
          NoSpuriousError
    <3> QED
      BY <2>1, <3>2, <3>3
  <2> QED
    BY <2>2, <2>3, <2>4
    DEF ScanPosition, StreamPosition, RefusalSound, StopSound, Active
<1>12. CASE Classify
  <2>1. /\ pc = "classify" /\ pc' = "done"
        /\ UNCHANGED <<tip, lowest, start, limit, mask, tipAtCall, collected, next,
                      before, endReason, req, sent, code>>
    BY <1>12 DEF Classify, Return, nodeVars, argVars, scanVars, streamVars
  <2>2. ~Active' /\ pc' \notin {"recv", "refused", "classify"}
    BY <2>1 DEF Active
  <2>3. ScanPosition' /\ StreamPosition' /\ RefusalSound' /\ StopSound'
    BY <2>2 DEF ScanPosition, StreamPosition, RefusalSound, StopSound
  <2>4. /\ next = start + Len(collected) /\ Len(collected) < limit
        /\ result.kind = "none"
        /\ "stall" \notin NodeMay => next > tipAtCall \/ next < lowest
    BY <2>1 DEF ScanPosition, StopSound, Exhausted, Active, TypeOK
  <2>5. CASE next < lowest /\ result' = Failed("pruned", next)
    <3>1. TypeOK'
      BY <2>1, <2>5 DEF TypeOK, Failed, ResultKinds
    <3>2. ResultSound'
      BY <2>1, <2>4, <2>5
      DEF Failed, TypeOK, ResultSound, CompleteToTip, PrunedJustified, NoSpuriousError
    <3> QED
      BY <2>3, <3>1, <3>2
  <2>6. CASE next >= lowest /\ result' = Ok(collected)
    <3>1. TypeOK'
      BY <2>1, <2>6 DEF TypeOK, Ok, ResultKinds
    <3>2. CompleteToTip' \/ "stall" \in NodeMay
      BY <2>1, <2>4, <2>6, SMTT(30) DEF Ok, TypeOK, CompleteToTip, Lesser
    <3>3. PrunedJustified' /\ NoSpuriousError'
      BY <2>6 DEF Ok, PrunedJustified, NoSpuriousError
    <3> QED
      BY <2>3, <3>1, <3>2, <3>3 DEF ResultSound
  <2>7. CASE "fail" \in NodeMay /\ result' = Failed("info", next)
    <3>1. TypeOK'
      BY <2>1, <2>7 DEF TypeOK, Failed, ResultKinds
    <3>2. ResultSound'
      BY <2>7
      DEF Failed, ResultSound, CompleteToTip, PrunedJustified, NoSpuriousError
    <3> QED
      BY <2>3, <3>1, <3>2
  <2> QED
    BY <1>12, <2>5, <2>6, <2>7 DEF Classify, Return, TypeOK
<1>13. CASE UNCHANGED vars
  <2> USE <1>13 DEF vars
  <2>1. TypeOK'
    BY DEF TypeOK
  <2>2. ScanPosition' /\ StreamPosition' /\ RefusalSound'
    BY DEF TypeOK, ScanPosition, StreamPosition, RefusalSound, Active, Position,
           Ended
  <2>3. StopSound' /\ ResultSound'
    BY DEF TypeOK, ScanPosition, StreamPosition, RefusalSound, StopSound,
           ResultSound, CompleteToTip, PrunedJustified, NoSpuriousError, Active,
           Exhausted, Ended, Resumable, Position
  <2> QED
    BY <2>1, <2>2, <2>3
<1> QED
  BY <1>1, <1>2, <1>3, <1>4, <1>5, <1>6, <1>7, <1>8, <1>9, <1>10, <1>11, <1>12,
     <1>13
  DEF Next, ClientStep

-----------------------------------------------------------------------------
(* The inductive invariant holds in every reachable state. *)
THEOREM Invariance == Spec => []IInv
<1>1. Init => IInv
  BY InitIInv
<1>2. IInv /\ [Next]_vars => IInv'
  BY NextIInv
<1> QED
  BY <1>1, <1>2, PTL DEF Spec

(* Type correctness of the scan. *)
THEOREM TypeCorrect == Spec => []TypeOK
<1>1. IInv => TypeOK
  BY DEF IInv
<1> QED
  BY <1>1, Invariance, PTL

(* Over any number of rounds GetCheckpoints holds a run of checkpoints      *)
(* without a hole that starts at startSeqNum and is at most limit long.     *)
THEOREM ScanIsContiguous == Spec => []ScanContiguous
<1>1. IInv => ScanContiguous
  BY DEF IInv, ScanPosition, ScanContiguous, Active
<1> QED
  BY <1>1, Invariance, PTL

(* GetCheckpoints calls a checkpoint pruned only when it is the one the     *)
(* caller misses and the node has dropped it.                               *)
THEOREM PrunedIsJustified == Spec => []PrunedJustified
<1>1. IInv => PrunedJustified
  BY DEF IInv, ResultSound
<1> QED
  BY <1>1, Invariance, PTL

(* GetCheckpoints fails only when the node failed or broke the sequence.    *)
THEOREM ErrorsAreJustified == Spec => []NoSpuriousError
<1>1. IInv => NoSpuriousError
  BY DEF IInv, ResultSound
<1> QED
  BY <1>1, Invariance, PTL

(* With a node that delivers something in every round that could, a call    *)
(* that succeeds is complete up to the tip it was made at.                  *)
THEOREM ScanReachesTip ==
  ASSUME "stall" \notin NodeMay
  PROVE  Spec => []CompleteToTip
<1>1. IInv => CompleteToTip
  BY DEF IInv, ResultSound
<1> QED
  BY <1>1, Invariance, PTL

-----------------------------------------------------------------------------
(* What the scan holds, as a function of its length. *)
LEMMA CollectedRun ==
  ASSUME IInv, Active
  PROVE  /\ Len(collected) \in 0..limit
         /\ collected = [i \in 1..Len(collected) |-> start + i - 1]
<1>1. /\ collected \in Seq(0..MaxTip)
      /\ Len(collected) <= limit
      /\ \A i \in DOMAIN collected : collected[i] = start + i - 1
  BY DEF IInv, TypeOK, ScanPosition
<1>2. Len(collected) \in Nat /\ DOMAIN collected = 1..Len(collected)
  BY <1>1
<1>3. collected = [i \in DOMAIN collected |-> collected[i]]
  BY <1>1
<1> QED
  BY <1>1, <1>2, <1>3 DEF IInv, TypeOK

(* Every step of the scan is a step of CheckpointRange or changes nothing   *)
(* that a caller sees.                                                      *)
LEMMA StepIsPromised ==
  ASSUME IInv, IInv', [Next]_vars, "stall" \notin NodeMay
  PROVE  [Promise!Next]_(Promise!vars)
<1> USE ScanConstants
<1> USE DEF Promise!vars, nodeVars, argVars, scanVars, streamVars
<1>1. CASE Execute
  BY <1>1 DEF Execute, Promise!Next, Promise!Execute
<1>2. CASE Prune
  BY <1>2 DEF Prune, Promise!Next, Promise!Prune
<1>3. ASSUME NEW s \in Starts, NEW l \in Limits, NEW m \in Masks, Call(s, l, m)
      PROVE  Promise!Next
  <2>1. Promise!Call(s, l)
    BY <1>3 DEF Call, Return, Ok, NoResult, Promise!Call, Promise!NoResult
  <2> QED
    BY <2>1 DEF Promise!Next
<1>4. ASSUME UNCHANGED <<nodeVars, argVars, result>>, Active, Active'
      PROVE  UNCHANGED Promise!vars
  BY <1>4 DEF Active
<1>5. CASE OpenRound \/ OpenFails
  BY <1>4, <1>5 DEF OpenRound, OpenFails, Active
<1>6. ASSUME NEW kind \in {"gap", "node", "info"}, Active,
             Return(Failed(kind, next)), UNCHANGED <<nodeVars, argVars>>
      PROVE  Promise!Next
  <2>1. next \in start..(start + limit)
    BY <1>6 DEF IInv, TypeOK, ScanPosition, Active
  <2>2. Promise!ReturnError(kind, next)
    BY <1>6 DEF Return, Failed, Active, Promise!ReturnError, Promise!Failure
  <2> QED
    BY <2>1, <2>2 DEF Promise!Next, Promise!Errors
<1>7. ASSUME Active, Len(collected) < limit, next < lowest,
             Return(Failed("pruned", next)), UNCHANGED <<nodeVars, argVars>>
      PROVE  Promise!Next
  <2>1. next \in start..(start + limit - 1)
    BY <1>7 DEF IInv, TypeOK, ScanPosition, Active
  <2>2. Promise!ReturnPruned(next)
    BY <1>7 DEF Return, Failed, Active, Promise!ReturnPruned, Promise!Failure
  <2> QED
    BY <2>1, <2>2 DEF Promise!Next
<1>8. ASSUME Active, Return(Ok(collected)), UNCHANGED <<nodeVars, argVars>>,
             Len(collected) < limit => next > tipAtCall /\ next >= lowest
      PROVE  Promise!Next
  <2> DEFINE n == Len(collected)
  <2>1. n \in 0..limit /\ collected = [i \in 1..n |-> start + i - 1]
    BY <1>8, CollectedRun
  <2>2. next = start + n /\ (n > 0 => next - 1 <= tip)
    BY <1>8 DEF IInv, ScanPosition
  <2>3. result' = Promise!Answer(n)
    BY <1>8, <2>1 DEF Return, Ok, Promise!Answer
  <2>4. /\ n > 0 => start + n - 1 <= tip
        /\ n < limit => start + n > tipAtCall /\ start + n >= lowest
    BY <1>8, <2>1, <2>2 DEF IInv, TypeOK
  <2>5. pc \notin {"idle", "done"} /\ (pc' \notin {"idle", "done"}) = FALSE
    BY <1>8 DEF Return, Active
  <2>6. Promise!ReturnRun(n)
    BY <1>8, <2>3, <2>4, <2>5 DEF Promise!ReturnRun
  <2> QED
    BY <2>1, <2>6 DEF Promise!Next
<1>9. ASSUME NEW seq \in 0..MaxTip, NEW last, pc = "recv", ReceiveItem(seq, last)
      PROVE  [Promise!Next]_(Promise!vars)
  <2>1. CASE ReadSeqNum(seq) # next
    BY <1>6, <1>9, <2>1 DEF ReceiveItem, Active
  <2>2. CASE ReadSeqNum(seq) = next
    BY <1>4, <1>9, <2>2 DEF ReceiveItem, Active
  <2> QED
    BY <2>1, <2>2
<1>10. CASE RecvItem
  <2>1. Position \in 0..MaxTip
    BY <1>10 DEF RecvItem, HasItem, IInv, TypeOK, StreamPosition
  <2> QED
    BY <1>9, <1>10, <2>1 DEF RecvItem
<1>11. ASSUME NEW seq \in 0..MaxTip, RecvGap(seq)
       PROVE  [Promise!Next]_(Promise!vars)
  BY <1>9, <1>11 DEF RecvGap
<1>12. ASSUME NEW reason \in Reasons, RecvEnd(reason)
       PROVE  UNCHANGED Promise!vars
  BY <1>4, <1>12 DEF RecvEnd, Active
<1>13. CASE RecvError
  BY <1>4, <1>13 DEF RecvError, Active
<1>14. CASE RecvEOF
  <2>1. CASE Len(collected) >= limit /\ Return(Ok(collected))
    BY <1>8, <1>14, <2>1 DEF RecvEOF, Active, IInv, TypeOK
  <2>2. CASE pc' \in {"classify", "open"} /\ UNCHANGED result
    BY <1>4, <1>14, <2>2 DEF RecvEOF, Active
  <2> QED
    BY <1>14, <2>1, <2>2 DEF RecvEOF
<1>15. CASE PrunedBelowRetention
  <2>1. Active /\ Len(collected) < limit
    BY <1>15 DEF PrunedBelowRetention, IInv, ScanPosition, Active
  <2> QED
    BY <1>6, <1>7, <1>15, <2>1 DEF PrunedBelowRetention
<1>16. CASE Classify
  <2>1. Active /\ Len(collected) < limit /\ (next > tipAtCall \/ next < lowest)
    BY <1>16 DEF Classify, IInv, TypeOK, ScanPosition, StopSound, Exhausted, Active
  <2>2. CASE next < lowest /\ Return(Failed("pruned", next))
    BY <1>7, <1>16, <2>1, <2>2 DEF Classify
  <2>3. CASE ~(next < lowest) /\ Return(Ok(collected))
    BY <1>8, <1>16, <2>1, <2>3 DEF Classify, IInv, TypeOK
  <2>4. CASE Return(Failed("info", next))
    BY <1>6, <1>16, <2>1, <2>4 DEF Classify
  <2> QED
    BY <1>16, <2>2, <2>3, <2>4 DEF Classify
<1>17. CASE UNCHANGED vars
  BY <1>17 DEF vars
<1> QED
  BY <1>1, <1>2, <1>3, <1>5, <1>10, <1>11, <1>12, <1>13, <1>14, <1>15, <1>16, <1>17
  DEF Next, ClientStep

(* GetCheckpoints implements the atomic read of CheckpointRange, for every  *)
(* interleaving with a ledger that grows and is pruned.                     *)
THEOREM ScanImplementsRange ==
  ASSUME "stall" \notin NodeMay
  PROVE  Spec => ScanIsAtomic
<1>1. Init => Promise!Init
  BY DEF Init, NoResult, Promise!Init, Promise!NoResult
<1>2. IInv /\ IInv' /\ [Next]_vars => [Promise!Next]_(Promise!vars)
  BY StepIsPromised
<1> QED
  BY <1>1, <1>2, Invariance, PTL DEF Spec, ScanIsAtomic, Promise!Spec
=============================================================================
