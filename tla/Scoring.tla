------------------------------ MODULE Scoring ------------------------------
(***************************************************************************)
(* The pure scoring rules of internal/domain/scoring/scoring.go.           *)
(* A round is summed up in a RoundFacts record; CalculateRound turns it    *)
(* into one delta per player it concerns.  RoundFacts and ScoreConfig are  *)
(* the structs of the same names; ids are members of an arbitrary set.     *)
(***************************************************************************)
EXTENDS Integers, FiniteSets

(* The weights of a ScoreConfig: any integers (a custom preset may use any). *)
ScoreConfigs ==
  [allGuessedActivePlayer  : Int, allGuessedGuesser       : Int,
   noneGuessedActivePlayer : Int, noneGuessedOtherPlayer  : Int,
   partialActiveBase       : Int, partialActivePerGuesser : Int,
   partialGuesser          : Int, voteForSubmittedMeme    : Int]

(* The Standard preset. *)
DefaultScoreConfig ==
  [allGuessedActivePlayer  |-> -3, allGuessedGuesser       |-> 0,
   noneGuessedActivePlayer |-> -2, noneGuessedOtherPlayer  |-> 0,
   partialActiveBase       |-> 3,  partialActivePerGuesser |-> 1,
   partialGuesser          |-> 3,  voteForSubmittedMeme    |-> 1]

-----------------------------------------------------------------------------

AllGuessed(facts)  == facts.totalVotes > 0 /\ facts.votesForOriginal = facts.totalVotes
NoneGuessed(facts) == ~AllGuessed(facts) /\ facts.votesForOriginal = 0

(* What the active player earns. *)
ActiveDelta(facts, cfg) ==
  CASE AllGuessed(facts)  -> cfg.allGuessedActivePlayer
    [] NoneGuessed(facts) -> cfg.noneGuessedActivePlayer
    [] OTHER -> cfg.partialActiveBase
                  + cfg.partialActivePerGuesser * facts.votesForOriginal

(* What each voter earns: in the partial case the code pays every voter. *)
GuesserDelta(facts, cfg) ==
  CASE AllGuessed(facts)  -> cfg.allGuessedGuesser
    [] NoneGuessed(facts) -> cfg.noneGuessedOtherPlayer
    [] OTHER -> cfg.partialGuesser

(* The deltas of a round.  A player who concerns the round in two ways     *)
(* (the calculator does not assume the roles are disjoint) earns the sum.  *)
CalculateRound(facts, cfg) ==
  [p \in {facts.active} \cup facts.guessers \cup facts.selfVoters |->
       (IF p = facts.active      THEN ActiveDelta(facts, cfg)    ELSE 0)
     + (IF p \in facts.guessers  THEN GuesserDelta(facts, cfg)   ELSE 0)
     + (IF p \in facts.selfVoters THEN cfg.voteForSubmittedMeme  ELSE 0)]
=============================================================================
