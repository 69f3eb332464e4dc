------------------------------ MODULE MCWallets ------------------------------
(* Wallets for TLC: clients, wallets, transactions and names are           *)
(* interchangeable.                                                        *)
EXTENDS Wallets, TLC

Symmetry == Permutations(Clients) \cup Permutations(WalletIds)
              \cup Permutations(TxIds) \cup Permutations(Names)
=============================================================================
