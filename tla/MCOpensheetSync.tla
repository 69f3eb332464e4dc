-------------------------- MODULE MCOpensheetSync --------------------------
(* Symmetry of the instances of OpensheetSync that TLC checks. *)
EXTENDS OpensheetSync, TLC

Symmetry == Permutations(Jobs)
SheetSymmetry == Permutations(Sheets)
=============================================================================
