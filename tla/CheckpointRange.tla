--------------------------- MODULE CheckpointRange --------------------------
(***************************************************************************)
(* What GetCheckpoints promises its caller, without rounds, streams or     *)
(* resumption: a call on a moving ledger returns, at one instant, a run of *)
(* checkpoints that starts at startSeqNum and reaches at least the tip     *)
(* that the ledger had when the call was made, or an error.  A run that is *)
(* shorter than asked ends at a checkpoint that is not pruned, and a       *)
(* checkpoint is called pruned only when it is.                            *)
(***************************************************************************)
EXTENDS Integers, Sequences

CONSTANTS MaxTip, Starts, Limits

VARIABLES tip, lowest, called, start, limit, tipAtCall, result

vars == <<tip, lowest, called, start, limit, tipAtCall, result>>

Errors == {"gap", "node", "info"}

NoResult == [kind |-> "none", items |-> <<>>, missing |-> 0]
Failure(kind, n) == [kind |-> kind, items |-> <<>>, missing |-> n]

(* The first n checkpoints of the range. *)
Answer(n) == [kind |-> "ok", items |-> [i \in 1..n |-> start + i - 1], missing |-> 0]

Init ==
  /\ tip \in 0..MaxTip
  /\ lowest \in 0..tip
  /\ called = FALSE
  /\ start = 0 /\ limit = 0 /\ tipAtCall = tip
  /\ result = NoResult

Execute ==
  /\ tip < MaxTip
  /\ tip' = tip + 1
  /\ UNCHANGED <<lowest, called, start, limit, tipAtCall, result>>

Prune ==
  /\ lowest < tip
  /\ lowest' = lowest + 1
  /\ UNCHANGED <<tip, called, start, limit, tipAtCall, result>>

Call(s, l) ==
  /\ ~called
  /\ start' = s /\ limit' = l /\ tipAtCall' = tip
  /\ IF l <= 0
       THEN called' = FALSE /\ result' = [kind |-> "ok", items |-> <<>>, missing |-> 0]
       ELSE called' = TRUE /\ result' = NoResult
  /\ UNCHANGED <<tip, lowest>>

ReturnRun(n) ==
  /\ called
  /\ n > 0 => start + n - 1 <= tip
  /\ n < limit => start + n > tipAtCall /\ start + n >= lowest
  /\ called' = FALSE
  /\ result' = Answer(n)
  /\ UNCHANGED <<tip, lowest, start, limit, tipAtCall>>

ReturnPruned(n) ==
  /\ called
  /\ n < lowest
  /\ called' = FALSE
  /\ result' = Failure("pruned", n)
  /\ UNCHANGED <<tip, lowest, start, limit, tipAtCall>>

(* Any other failure names the checkpoint that was owed. *)
ReturnError(kind, n) ==
  /\ called
  /\ called' = FALSE
  /\ result' = Failure(kind, n)
  /\ UNCHANGED <<tip, lowest, start, limit, tipAtCall>>

Next ==
  \/ Execute
  \/ Prune
  \/ \E s \in Starts, l \in Limits : Call(s, l)
  \/ \E n \in 0..limit : ReturnRun(n)
  \/ \E n \in start..(start + limit - 1) : ReturnPruned(n)
  \/ \E kind \in Errors, n \in start..(start + limit) : ReturnError(kind, n)

Spec == Init /\ [][Next]_vars
=============================================================================
