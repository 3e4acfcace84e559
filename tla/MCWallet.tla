------------------------------ MODULE MCWallet ------------------------------
(* Small instances of Wallet. *)
EXTENDS Wallet, TLC

Symmetric == Permutations(Threads)
=============================================================================
