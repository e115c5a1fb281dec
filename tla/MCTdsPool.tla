----------------------------- MODULE MCTdsPool -----------------------------
(***************************************************************************)
(* Finite instances of TdsPool for TLC.                                    *)
(***************************************************************************)
EXTENDS TdsPool, TLC

MCSymmetry == Permutations(Users) \cup Permutations(Members)
=============================================================================
