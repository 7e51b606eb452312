---------------------------- MODULE MCCommitments ----------------------------
(***************************************************************************)
(* A small instance of Commitments for TLC: four blocks with up to two     *)
(* transactions, ranges of up to two blocks.                               *)
(***************************************************************************)
EXTENDS Commitments, TLC

CONSTANTS ok, err

(* The code compares no results, it only hashes them.                      *)
ResultSymmetry == Permutations({ok, err})
=============================================================================
