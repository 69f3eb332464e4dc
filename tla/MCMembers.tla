------------------------------ MODULE MCMembers ------------------------------
(* Members for TLC: calls and invites are interchangeable.                 *)
EXTENDS Members, TLC

Symmetry == Permutations(Callers) \cup Permutations(InviteIds)
=============================================================================
