---------------------------- MODULE MCTxResponse ----------------------------
EXTENDS TxResponse

CONSTANTS o1, p1

(* Each option without the others that read the same field.               *)
MCOptionSets == {{"Input", "Events"}, {"ObjectChanges"}, {"RawInput", "Effects", "BalanceChanges"}}

MCEventLists == {<<"bad", "ok">>}
=============================================================================
