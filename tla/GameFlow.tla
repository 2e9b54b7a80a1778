------------------------------ MODULE GameFlow ------------------------------
(***************************************************************************)
(* What a game promises its players, whatever they hold, submit or vote:   *)
(* within a cycle everyone who stays is the active player of exactly one   *)
(* round, in turn order, one round at a time, and a cycle ends only when   *)
(* nobody is left to have a turn.  Players may drop out at any moment.     *)
(* GameEngine implements this specification.                               *)
(***************************************************************************)
EXTENDS Integers, FiniteSetsExt

CONSTANT NumPlayers

Player == 1 .. NumPlayers

VARIABLES
  stage,     \* where the game stands
  playing,   \* the players who take part in the game
  turn       \* what became of the round each player is active in

vars == <<stage, playing, turn>>

Stages == {"LOBBY", "PREPARING", "PLAYING", "SHOWING", "CYCLE_OVER", "GAME_OVER"}
NoTurns == [p \in Player |-> "NONE"]

(* Those who take part and have had no turn in this cycle. *)
Waiting(pl, tn) == {p \in pl : tn[p] = "NONE"}

(* The round of the first of them in turn order opens. *)
Open(pl, tn) == [tn EXCEPT ![Min(Waiting(pl, tn))] = "ACTIVE"]

(* Play moves to the next round, or the cycle is over. *)
MoveOn(pl, tn) ==
  /\ playing' = pl
  /\ \/ Waiting(pl, tn) # {} /\ stage' = "PLAYING" /\ turn' = Open(pl, tn)
     \/ Waiting(pl, tn) = {} /\ stage' \in {"CYCLE_OVER", "GAME_OVER"} /\ turn' = tn

(* The players who still take part if at most one of them drops out. *)
Remaining == {playing} \cup {playing \ {p} : p \in playing}

-----------------------------------------------------------------------------
Begin ==
  /\ stage = "LOBBY"
  /\ stage' = "PREPARING"
  /\ playing' \in (SUBSET Player) \ {{}}
  /\ turn' = NoTurns

(* The first round opens: the last preparation came in, or nobody missing  *)
(* one takes part any more.                                                *)
FirstRound ==
  /\ stage = "PREPARING"
  /\ \E pl \in Remaining : pl # {} /\ MoveOn(pl, turn)

(* A round ends: with the last vote, or with whoever still owed one. *)
Finish(p) ==
  /\ stage = "PLAYING"
  /\ turn[p] = "ACTIVE"
  /\ stage' = "SHOWING"
  /\ turn' = [turn EXCEPT ![p] = "FINISHED"]
  /\ playing' \in Remaining

(* The active player drops out and the round is cancelled. *)
Cancel(p) ==
  /\ stage = "PLAYING"
  /\ turn[p] = "ACTIVE"
  /\ MoveOn(playing \ {p}, [turn EXCEPT ![p] = "CANCELLED"])

GoOn == stage = "SHOWING" /\ MoveOn(playing, turn)

DropOut(p) ==
  /\ stage \in {"PREPARING", "PLAYING", "SHOWING"}
  /\ playing' = playing \ {p}
  /\ UNCHANGED <<stage, turn>>

NextCycle ==
  /\ stage = "CYCLE_OVER"
  /\ stage' = "PREPARING"
  /\ turn' = NoTurns
  /\ UNCHANGED playing

Reset ==
  /\ stage = "GAME_OVER"
  /\ stage' = "LOBBY"
  /\ playing' = {}
  /\ turn' = NoTurns

Init == stage = "LOBBY" /\ playing = {} /\ turn = NoTurns

Next ==
  \/ Begin
  \/ FirstRound
  \/ \E p \in Player : Finish(p) \/ Cancel(p) \/ DropOut(p)
  \/ GoOn
  \/ NextCycle
  \/ Reset

Spec == Init /\ [][Next]_vars

-----------------------------------------------------------------------------
(* Properties.                                                             *)

(* The type of the abstract game. *)
TypeOK ==
  /\ stage \in Stages
  /\ playing \in SUBSET Player
  /\ turn \in [Player -> {"NONE", "ACTIVE", "CANCELLED", "FINISHED"}]

(* Nobody is passed over: when a player has had a turn, everyone before    *)
(* them in turn order who still takes part has had one too.                *)
TurnsInOrder ==
  \A p, q \in Player : p < q /\ p \in playing /\ turn[q] # "NONE" => turn[p] # "NONE"

(* One round at a time: some round is open exactly while the game is in    *)
(* one, and never two.                                                     *)
OneRoundAtATime ==
  /\ (stage = "PLAYING") <=> \E p \in Player : turn[p] = "ACTIVE"
  /\ \A p, q \in Player : turn[p] = "ACTIVE" /\ turn[q] = "ACTIVE" => p = q

(* A cycle that is over has given everyone who still takes part a turn     *)
(* that was played to its end.                                             *)
CycleIsComplete ==
  stage \in {"CYCLE_OVER", "GAME_OVER"} => \A p \in playing : turn[p] = "FINISHED"

(* Within a cycle a turn is never taken back and never given again.        *)
KeepsTurns ==
  stage' \notin {"PREPARING", "LOBBY"} =>
    \A p \in Player :
       /\ turn[p] # "NONE" => turn'[p] # "NONE"
       /\ turn[p] \in {"FINISHED", "CANCELLED"} => turn'[p] = turn[p]

TurnsAreFinal == [][KeepsTurns]_vars
=============================================================================
