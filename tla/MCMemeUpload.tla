---------------------------- MODULE MCMemeUpload ----------------------------
(* A small instance of MemeUpload for TLC. *)
EXTENDS MemeUpload, TLC

Symmetry == Permutations(Name) \cup Permutations(Image) \cup Permutations(Request)
=============================================================================
