----------------------------- MODULE Projection -----------------------------
(***************************************************************************)
(* What the server shows of a room (internal/projection): the snapshot of  *)
(* a viewer as a function of the aggregate.  A viewer is a player, or      *)
(* NoPlayer, who stands for the viewers without a hand: the public screen  *)
(* and the host page, whose phase data are the same.                       *)
(*                                                                         *)
(* An option is shown as its meme.  Its id is random and its number comes  *)
(* from a shuffle, so neither says whose it is.                            *)
(***************************************************************************)
EXTENDS GameEngine

Viewers == Player \cup {NoPlayer}

(* The part of the aggregate that is private to its players.               *)
Aggregate ==
  [prepHand |-> prepHand, prepared |-> prepared, roundHand |-> roundHand,
   submitted |-> submitted, ballot |-> ballot, votes |-> votes]

Holder(v) == v \in Player /\ status[v] # "NONE"
MemesOf(f) == {f[p] : p \in Player} \ {NoMeme}

(* The public part of every snapshot: the members, their game players and  *)
(* the leaderboard.                                                        *)
PublicView ==
  [room |-> roomState, phase |-> phase, cycle |-> cycle,
   players |-> Present, hosts |-> {p \in Present : role[p] = "HOST"},
   status |-> status, scores |-> score]

-----------------------------------------------------------------------------
(* phaseData, by phase, of the aggregate agg.                              *)

PreparationView(v, agg) ==
  [preparedCount |-> Cardinality({p \in ActiveIn(status) : agg.prepared[p] # NoMeme}),
   totalPlayers |-> Cardinality(ActiveIn(status)),
   hand |-> IF Holder(v) THEN agg.prepHand[v] ELSE {},
   preparedTurn |-> IF Holder(v) THEN agg.prepared[v] ELSE NoMeme]

SelectionView(v, agg) ==
  [activePlayer |-> current,
   hand |-> IF Holder(v) THEN agg.roundHand[v] ELSE {},
   submitted |-> Holder(v) /\ agg.submitted[v] # NoMeme]

(* Mutant: the options carry their owners, as in the reveal. *)
VotingViewOwners(v, agg) ==
  [activePlayer |-> current, options |-> agg.ballot,
   forbidden |-> IF Holder(v) THEN agg.ballot[v] ELSE NoMeme,
   voted |-> Holder(v) /\ agg.votes[v] # NoPlayer]

VotingView(v, agg) ==
  [activePlayer |-> current, options |-> MemesOf(agg.ballot),
   forbidden |-> IF Holder(v) THEN agg.ballot[v] ELSE NoMeme,
   voted |-> Holder(v) /\ agg.votes[v] # NoPlayer]

(* revealDTO: the whole round, to everyone. *)
RevealView(agg) ==
  [activePlayer |-> current, original |-> agg.prepared[current],
   options |-> agg.ballot, submissions |-> agg.submitted,
   votes |-> [o \in Player |-> Cardinality({p \in Player : agg.votes[p] = o})]]

PhaseData(v, agg) ==
  CASE phase = "PREPARATION"     -> PreparationView(v, agg)
    [] phase = "ROUND_SELECTION" -> SelectionView(v, agg)
    [] phase = "ROUND_VOTING"    -> VotingView(v, agg)
    [] phase = "ROUND_RESULTS"   -> RevealView(agg)
    [] OTHER                     -> [leaderboard |-> score]

Snapshot(v, agg) == [public |-> PublicView, phaseData |-> PhaseData(v, agg)]

-----------------------------------------------------------------------------
(* Properties.                                                             *)

(* The aggregate in which the ACTIVE players have changed places: p has    *)
(* the hand, the prepared turn, the submission, the option and the vote    *)
(* of swap[p].                                                             *)
Swapped(f, swap) == [p \in Player |-> IF p \in DOMAIN swap THEN f[swap[p]] ELSE f[p]]
SwappedAggregate(swap) ==
  [field \in DOMAIN Aggregate |-> Swapped(Aggregate[field], swap)]
SwapsBut(v) ==
  LET others == ActiveIn(status) \ {v} IN
  {swap \in [others -> others] : \A p, q \in others : swap[p] = swap[q] => p = q}

(* Until the results a snapshot says nothing of who among the other players *)
(* did what: had they changed places, the owner of the original included,   *)
(* every viewer would be shown exactly the same (conditions 6, 7 and 17 of  *)
(* the design's list; phaseData).                                           *)
SnapshotsAreBlind ==
  phase \in OpenPhases =>
    \A v \in Viewers : \A swap \in SwapsBut(v) :
      Snapshot(v, SwappedAggregate(swap)) = Snapshot(v, Aggregate)

(* When a ballot is published nobody recognises the original on it: no       *)
(* snapshot of this round, nor of the preparation of this cycle, has shown   *)
(* that meme to anyone but the active player, and nobody else can submit it  *)
(* (condition 6; DealPreparationHands, DealRoundHands).                      *)
OriginalUnseen ==
  phase \in {"ROUND_SELECTION", "ROUND_VOTING"} =>
    \A v \in Viewers \ {current} :
      /\ prepared[current] \notin PreparationView(v, Aggregate).hand
      /\ prepared[current] \notin SelectionView(v, Aggregate).hand
      /\ v \in Player => prepared[current] # submitted[v]
=============================================================================
