------------------------- MODULE MCClaimTransition -------------------------
(* Instances of ClaimTransition for TLC. *)
EXTENDS ClaimTransition, TLC

(* Threads run the same code and are told apart by nothing. *)
MCSymmetry == Permutations(Workers)
=============================================================================
