---------------------------- MODULE MCPeriodBooks ----------------------------
(* Instances of PeriodBooks for TLC. *)
EXTENDS PeriodBooks, TLC

Symmetry == Permutations(Clients)
=============================================================================
