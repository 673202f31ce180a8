--------------------------- MODULE MCCoinSelection --------------------------
EXTENDS CoinSelection

CONSTANTS CoinValues, MaxCoins

(* Every slice of up to MaxCoins coins; a coin's id is its first place. *)
MCWallets ==
  UNION {{[i \in 1..n |-> [id |-> i, balance |-> v[i]]] : v \in [1..n -> CoinValues]} :
           n \in 0..MaxCoins}
=============================================================================
