---------------------------- MODULE MCPinCredits ----------------------------
(***************************************************************************)
(* Finite instances of PinCredits for TLC.                                 *)
(***************************************************************************)
EXTENDS PinCredits, TLC

(* A package that is sold, one nothing is charged for, one past the end of *)
(* the price array; with one thread also one that indexes the arrays from  *)
(* their end (at -8, package 1's price) and a dearer one.                  *)
MCPackages    == {0, 1, 9}
MCAllPackages == {-8, 0, 1, 2, 9}

(* A refused top-up, one that changes nothing and one package's price;     *)
(* with one thread also the dearer package's price.                        *)
MCAmounts    == {-5, 0, 5}
MCAllAmounts == {-5, 0, 5, 10}

MCSymmetry == Permutations(Threads) \cup Permutations(Codes)
=============================================================================
