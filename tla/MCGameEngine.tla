---------------------------- MODULE MCGameEngine ----------------------------
(* Small instances of GameEngine, Projection and Persistence for TLC. *)
EXTENDS Persistence, TLC

(* Only membership is ever asked of a meme. *)
Symmetry == Permutations(Meme)

(* A Custom preset in which every outcome of a round moves some score. *)
CustomScoreConfig ==
  [allGuessedActivePlayer  |-> -3, allGuessedGuesser       |-> 1,
   noneGuessedActivePlayer |-> -2, noneGuessedOtherPlayer  |-> 2,
   partialActiveBase       |-> 3,  partialActivePerGuesser |-> 1,
   partialGuesser          |-> 5,  voteForSubmittedMeme    |-> 7]

(* A Custom preset that pays in one outcome only: few scores tell the      *)
(* second cycles apart.                                                    *)
SparseScoreConfig ==
  [[o \in DOMAIN CustomScoreConfig |-> 0] EXCEPT !.noneGuessedActivePlayer = -2]
=============================================================================
