-------------------------- MODULE GameEngineProofs --------------------------
(***************************************************************************)
(* Theorems about the game engine, for any number of players, any content, *)
(* any settings and any number of cycles: its types and phases, that it    *)
(* implements the game flow and what RoomPlayers says of a room, and what  *)
(* the players get from it, which is a host, a ballot that gives nobody    *)
(* away, cycles in which nobody is passed over, phases that do not idle,   *)
(* scores that move once a round by its outcome, deals that cannot fail,   *)
(* the chains of phases that may, and snapshots that show nothing too      *)
(* early.                                                                  *)
(***************************************************************************)
EXTENDS Projection, TurnOrderLemmas

USE SizesAssumption, ContentAssumption, SettingsAssumption

-----------------------------------------------------------------------------
(* Types of the helpers.                                                   *)

Statuses == {"NONE", "ACTIVE", "LEFT", "SKIPPED"}
Turns == {"NONE", "ACTIVE", "CANCELLED", "FINISHED"}

LEMMA PlayersAreNumbers == Player \subseteq Nat /\ IsFiniteSet(Player) /\ NoPlayer \notin Player
<1>1. NumPlayers \in Nat
  OBVIOUS
<1>. QED  BY <1>1, FS_Interval DEF Player, NoPlayer

(* A dealt hand is a non-empty set of memes of the pool. *)
LEMMA DealtHands ==
  ASSUME NEW ps \in SUBSET Player, NEW pool \in SUBSET Meme, NEW deal \in Deals(ps, pool)
  PROVE  /\ HandsFor(deal) \in [Player -> SUBSET Meme]
         /\ \A p \in ps : HandsFor(deal)[p] # {}
<1>1. deal \in [ps -> kSubset(HandSize, pool)]
  BY DEF Deals
<1>2. \A s \in kSubset(HandSize, pool) : s \in SUBSET Meme /\ s # {}
  <2>1. HandSize # 0
    OBVIOUS
  <2>. QED  BY <2>1, FS_EmptySet DEF kSubset
<1>. QED  BY <1>1, <1>2 DEF HandsFor

(* A round's deltas are whole numbers of points. *)
LEMMA DeltaType ==
  ASSUME NEW vt \in [Player -> Player \cup {NoPlayer}],
         NEW p \in DOMAIN CalculateRound(RoundFacts(vt), ScoreConfig)
  PROVE  CalculateRound(RoundFacts(vt), ScoreConfig)[p] \in Int
<1> DEFINE facts == RoundFacts(vt)
<1>1. facts.votesForOriginal \in Int
  <2>1. {q \in {r \in Player : vt[r] # NoPlayer} : vt[q] = current} \in SUBSET Player
    OBVIOUS
  <2>2. Cardinality({q \in {r \in Player : vt[r] # NoPlayer} : vt[q] = current}) \in Nat
    BY <2>1, PlayersAreNumbers, FS_Subset, FS_CardinalityType
  <2>. QED  BY <2>2 DEF RoundFacts
<1>. HIDE DEF facts
<1>2. ActiveDelta(facts, ScoreConfig) \in Int
  BY <1>1 DEF ActiveDelta, ScoreConfigs
<1>3. GuesserDelta(facts, ScoreConfig) \in Int
  BY DEF GuesserDelta, ScoreConfigs
<1>4. ScoreConfig.voteForSubmittedMeme \in Int
  BY DEF ScoreConfigs
<1>. QED  BY <1>2, <1>3, <1>4 DEF CalculateRound, facts

(* nextEligibleActivePlayer returns an ACTIVE player without a round. *)
LEMMA NextEligiblePlayer ==
  ASSUME NEW st, NEW tn, Eligible(st, tn) # {}
  PROVE  /\ NextEligible(st, tn) \in Player
         /\ st[NextEligible(st, tn)] = "ACTIVE"
         /\ tn[NextEligible(st, tn)] = "NONE"
<1>1. Eligible(st, tn) \subseteq Nat
  BY PlayersAreNumbers DEF Eligible, ActiveIn
<1>2. NextEligible(st, tn) \in Eligible(st, tn)
  BY <1>1, MinIsFirst DEF NextEligible
<1>. QED  BY <1>2 DEF Eligible, ActiveIn

-----------------------------------------------------------------------------
(* Types of the phase changes.                                             *)

PlayerMemes == [Player -> Meme \cup {NoMeme}]
PlayerHands == [Player -> SUBSET Meme]

LEMMA EmptyTypes ==
  /\ NoMemes \in PlayerMemes
  /\ NoVotes \in [Player -> Player \cup {NoPlayer}]
  /\ NoHands \in PlayerHands
  /\ NoTurns \in [Player -> Turns]
BY DEF NoMemes, NoVotes, NoHands, NoTurns, PlayerMemes, PlayerHands, Turns

LEMMA StartRoundType ==
  ASSUME enabled \in SUBSET Meme,
         NEW p \in Player, NEW st \in [Player -> Statuses],
         NEW tn \in [Player -> Turns], NEW prep \in PlayerMemes,
         StartRound(p, st, tn, prep)
  PROVE  /\ phase' = "ROUND_SELECTION"
         /\ status' \in [Player -> Statuses] /\ turn' \in [Player -> Turns]
         /\ current' = p
         /\ prepared' \in PlayerMemes /\ submitted' \in PlayerMemes /\ ballot' \in PlayerMemes
         /\ roundHand' \in PlayerHands
         /\ votes' \in [Player -> Player \cup {NoPlayer}]
<1>1. ResetSkipped(st) \in [Player -> Statuses]
  BY DEF ResetSkipped, Statuses
<1>2. roundHand' \in PlayerHands
  <2>1. PICK deal \in Deals(ActiveIn(ResetSkipped(st)) \ {p}, RoundPool(p, prep)) :
               roundHand' = HandsFor(deal)
    BY DEF StartRound
  <2>2. /\ ActiveIn(ResetSkipped(st)) \ {p} \in SUBSET Player
        /\ RoundPool(p, prep) \in SUBSET Meme
    BY DEF ActiveIn, RoundPool
  <2>. QED  BY <2>1, <2>2, DealtHands DEF PlayerHands
<1>. QED  BY <1>1, <1>2, EmptyTypes DEF StartRound, Turns

(* Rounds go on: the next eligible player's, or the cycle is finished. *)
LEMMA NextRoundOrFinishType ==
  ASSUME TypeOK, NEW st \in [Player -> Statuses], NEW tn \in [Player -> Turns],
         NextRoundOrFinish(st, tn),
         UNCHANGED <<enabled, edits>>,
         member' \in [Player -> {"OUT", "IN", "LEFT"}],
         role' \in [Player -> {"HOST", "PLAYER"}]
  PROVE  TypeOK'
<1>. USE DEF TypeOK, PlayerMemes, PlayerHands, Statuses, Turns
<1>1. CASE Eligible(st, tn) # {}
  <2>1. StartRound(NextEligible(st, tn), st, tn, prepared)
        /\ UNCHANGED <<roomState, score, cycle, prepHand>>
    BY <1>1 DEF NextRoundOrFinish
  <2>2. NextEligible(st, tn) \in Player
    BY <1>1, NextEligiblePlayer
  <2>. QED  BY <2>1, <2>2, StartRoundType DEF Phases, OpenPhases
<1>2. CASE Eligible(st, tn) = {}
  BY <1>2 DEF NextRoundOrFinish, FinishCycle, Phases, OpenPhases
<1>. QED  BY <1>1, <1>2

LEMMA AdvanceToRoundSelectionType ==
  ASSUME TypeOK, NEW st \in [Player -> Statuses], NEW prep \in PlayerMemes,
         AdvanceToRoundSelection(st, prep),
         UNCHANGED <<enabled, edits>>,
         member' \in [Player -> {"OUT", "IN", "LEFT"}],
         role' \in [Player -> {"HOST", "PLAYER"}]
  PROVE  TypeOK'
<1>1. NextEligible(st, turn) \in Player /\ turn \in [Player -> Turns]
      /\ StartRound(NextEligible(st, turn), st, turn, prep)
  BY NextEligiblePlayer DEF AdvanceToRoundSelection, TypeOK, Turns
<1>2. UNCHANGED <<roomState, score, cycle, prepHand>> /\ enabled \in SUBSET Meme
  BY DEF AdvanceToRoundSelection, TypeOK
<1>. QED
  BY <1>1, <1>2, StartRoundType
  DEF TypeOK, PlayerMemes, PlayerHands, Statuses, Turns, Phases, OpenPhases

LEMMA AdvanceToRoundVotingType ==
  ASSUME TypeOK, NEW sub \in PlayerMemes, AdvanceToRoundVoting(sub),
         status' \in [Player -> Statuses],
         UNCHANGED <<enabled, edits>>,
         member' \in [Player -> {"OUT", "IN", "LEFT"}],
         role' \in [Player -> {"HOST", "PLAYER"}],
         current \in Player
  PROVE  TypeOK'
<1>1. ballot' \in PlayerMemes
  BY DEF AdvanceToRoundVoting, TypeOK, PlayerMemes
<1>. QED
  BY <1>1 DEF AdvanceToRoundVoting, TypeOK, PlayerMemes, Statuses, Phases, OpenPhases

LEMMA AdvanceToRoundResultsType ==
  ASSUME TypeOK, NEW vt \in [Player -> Player \cup {NoPlayer}], AdvanceToRoundResults(vt),
         status' \in [Player -> Statuses],
         UNCHANGED <<enabled, edits>>,
         member' \in [Player -> {"OUT", "IN", "LEFT"}],
         role' \in [Player -> {"HOST", "PLAYER"}]
  PROVE  TypeOK'
<1> DEFINE delta == CalculateRound(RoundFacts(vt), ScoreConfig)
<1>1. score' \in [Player -> Int]
  <2>1. \A p \in DOMAIN delta : delta[p] \in Int
    BY DeltaType
  <2>2. score' = [p \in Player |-> IF p \in DOMAIN delta /\ status[p] # "NONE"
                                   THEN score[p] + delta[p] ELSE score[p]]
    BY DEF AdvanceToRoundResults
  <2>. HIDE DEF delta
  <2>. QED  BY <2>1, <2>2 DEF TypeOK
<1>2. turn' \in [Player -> Turns]
  BY DEF AdvanceToRoundResults, TypeOK, Turns
<1>. QED
  BY <1>1, <1>2 DEF AdvanceToRoundResults, TypeOK, Statuses, Turns, Phases, OpenPhases

LEMMA BeginCycleType ==
  ASSUME enabled \in SUBSET Meme,
         NEW st \in [Player -> Statuses], NEW n, BeginCycle(st, n)
  PROVE  /\ phase' = "PREPARATION" /\ cycle' = n /\ status' = st
         /\ turn' = NoTurns /\ current' = NoPlayer
         /\ prepHand' \in PlayerHands /\ roundHand' \in PlayerHands
         /\ prepared' \in PlayerMemes /\ submitted' \in PlayerMemes /\ ballot' \in PlayerMemes
         /\ votes' \in [Player -> Player \cup {NoPlayer}]
         /\ \A p \in Player : st[p] = "ACTIVE" => prepHand'[p] # {}
<1>1. PICK deal \in Deals(ActiveIn(st), enabled) : prepHand' = HandsFor(deal)
  BY DEF BeginCycle
<1>2. ActiveIn(st) \in SUBSET Player
  BY DEF ActiveIn
<1>3. prepHand' \in PlayerHands /\ \A p \in ActiveIn(st) : prepHand'[p] # {}
  BY <1>1, <1>2, DealtHands DEF PlayerHands
<1>. QED  BY <1>3, EmptyTypes DEF BeginCycle, ActiveIn

-----------------------------------------------------------------------------
(* Every command keeps the type of the aggregate.                          *)

LEMMA TransferHostType ==
  ASSUME TypeOK, NEW p \in Player
  PROVE  RoleAfterLeave(p) \in [Player -> {"HOST", "PLAYER"}]
BY DEF RoleAfterLeave, TransferHost, TypeOK

LEMMA DroppedType ==
  ASSUME TypeOK, NEW p \in Player
  PROVE  Dropped(p) \in [Player -> Statuses]
BY DEF Dropped, TypeOK, Statuses

LEMMA ApplyLeaveType ==
  ASSUME TypeOK, NEW p \in Player, ApplyLeave(p)
  PROVE  TypeOK'
<1>1. /\ member' \in [Player -> {"OUT", "IN", "LEFT"}]
      /\ role' \in [Player -> {"HOST", "PLAYER"}]
      /\ UNCHANGED <<enabled, edits>>
  BY TransferHostType DEF ApplyLeave, TypeOK, contentVars
<1>2. CASE LeavePreparation(p)
  <2> DEFINE prep == [prepared EXCEPT ![p] = NoMeme]
  <2>1. prep \in PlayerMemes
    BY DEF TypeOK, PlayerMemes
  <2>2. CASE AdvanceToRoundSelection(Dropped(p), prep)
    <3>. HIDE DEF prep
    <3>. QED  BY <1>1, <2>1, <2>2, DroppedType, AdvanceToRoundSelectionType
  <2>3. CASE /\ status' = Dropped(p) /\ prepared' = prep
             /\ UNCHANGED <<roomState, phase, score, cycle, prepHand, turn, current,
                            roundHand, roundVars>>
    <3>. HIDE DEF prep
    <3>. QED  BY <1>1, <2>1, <2>3, DroppedType DEF TypeOK, PlayerMemes, Statuses, roundVars
  <2>. QED  BY <1>2, <2>2, <2>3 DEF LeavePreparation
<1>3. CASE LeaveOwnRound(p)
  <2>1. [turn EXCEPT ![p] = "CANCELLED"] \in [Player -> Turns]
    BY DEF TypeOK, Turns
  <2>. QED  BY <1>1, <1>3, <2>1, DroppedType, NextRoundOrFinishType DEF LeaveOwnRound
<1>4. CASE LeaveSelection(p)
  <2> DEFINE sub == [submitted EXCEPT ![p] = NoMeme]
  <2>1. sub \in PlayerMemes /\ status' \in [Player -> Statuses]
    BY <1>4, DroppedType DEF LeaveSelection, TypeOK, PlayerMemes
  <2>2. CASE AdvanceToRoundVoting(sub)
    <3>. HIDE DEF sub
    <3>. QED  BY <1>1, <2>1, <2>2 DEF AdvanceToRoundVoting, TypeOK, PlayerMemes,
                                     Statuses, Phases, OpenPhases
  <2>3. CASE /\ submitted' = sub
             /\ UNCHANGED <<roomState, phase, score, cycle, handVars, turn, current,
                            ballot, votes>>
    <3>. HIDE DEF sub
    <3>. QED  BY <1>1, <2>1, <2>3 DEF TypeOK, PlayerMemes, Statuses, handVars
  <2>. QED  BY <1>4, <2>2, <2>3 DEF LeaveSelection
<1>5. CASE LeaveVoting(p)
  <2>1. status' \in [Player -> Statuses] /\ votes \in [Player -> Player \cup {NoPlayer}]
    BY <1>5, DroppedType DEF LeaveVoting, TypeOK
  <2>2. CASE AdvanceToRoundResults(votes)
    BY <1>1, <2>1, <2>2, AdvanceToRoundResultsType
  <2>3. CASE UNCHANGED <<roomState, phase, score, cycle, handVars, turn, current, roundVars>>
    BY <1>1, <2>1, <2>3 DEF TypeOK, Statuses, handVars, roundVars
  <2>. QED  BY <1>5, <2>2, <2>3 DEF LeaveVoting
<1>6. CASE LeaveBetweenRounds(p)
  BY <1>1, <1>6, DroppedType DEF LeaveBetweenRounds, TypeOK, Statuses, handVars, roundVars
<1>. QED  BY <1>2, <1>3, <1>4, <1>5, <1>6 DEF ApplyLeave

LEMMA ResolvePhaseType ==
  ASSUME TypeOK, ResolvePhase
  PROVE  TypeOK'
<1>1. /\ member' \in [Player -> {"OUT", "IN", "LEFT"}]
      /\ role' \in [Player -> {"HOST", "PLAYER"}]
      /\ UNCHANGED <<enabled, edits>>
  BY DEF ResolvePhase, TypeOK, contentVars
<1>2. CASE ResolvePreparation
  <2>1. PICK prep \in PlayerMemes : AdvanceToRoundSelection(status, prep)
    BY <1>2 DEF ResolvePreparation, Filled, PlayerMemes
  <2>. QED  BY <1>1, <2>1, AdvanceToRoundSelectionType DEF TypeOK, Statuses
<1>3. CASE ResolveSelection
  <2>1. PICK sub \in PlayerMemes : AdvanceToRoundVoting(sub)
    BY <1>3 DEF ResolveSelection, Filled, PlayerMemes
  <2>2. status' \in [Player -> Statuses]
    BY <1>3 DEF ResolveSelection, TypeOK, Statuses
  <2>. QED  BY <1>1, <2>1, <2>2 DEF AdvanceToRoundVoting, TypeOK, PlayerMemes,
                                   Statuses, Phases, OpenPhases
<1>4. CASE ResolveVoting
  <2>1. status' \in [Player -> Statuses] /\ AdvanceToRoundResults(votes)
    BY <1>4 DEF ResolveVoting, TypeOK, Statuses
  <2>. QED  BY <1>1, <2>1, AdvanceToRoundResultsType DEF TypeOK
<1>. QED  BY <1>2, <1>3, <1>4 DEF ResolvePhase

LEMMA SubmitType ==
  ASSUME TypeOK, NEW p \in Player,
         \/ \E m \in Meme : SubmitPreparation(p, m)
         \/ \E m \in Meme : SubmitRoundMeme(p, m)
         \/ \E o \in Player : SubmitVote(p, o)
  PROVE  TypeOK'
<1>1. ASSUME NEW m \in Meme, SubmitPreparation(p, m)  PROVE TypeOK'
  <2> DEFINE prep == [prepared EXCEPT ![p] = m]
  <2>1. prep \in PlayerMemes /\ UNCHANGED <<member, role, enabled, edits>>
    BY <1>1 DEF SubmitPreparation, TypeOK, PlayerMemes, contentVars
  <2>2. \/ AdvanceToRoundSelection(status, prep)
        \/ /\ prepared' = prep
           /\ UNCHANGED <<roomState, phase, status, score, cycle, prepHand, turn,
                          current, roundHand, roundVars>>
    BY <1>1 DEF SubmitPreparation
  <2>. HIDE DEF prep
  <2>3. CASE AdvanceToRoundSelection(status, prep)
    BY <2>1, <2>3, AdvanceToRoundSelectionType DEF TypeOK, Statuses
  <2>. QED  BY <2>1, <2>2, <2>3 DEF TypeOK, PlayerMemes, roundVars
<1>2. ASSUME NEW m \in Meme, SubmitRoundMeme(p, m)  PROVE TypeOK'
  <2> DEFINE sub == [submitted EXCEPT ![p] = m]
  <2>1. sub \in PlayerMemes /\ UNCHANGED <<member, role, status, enabled, edits>>
    BY <1>2 DEF SubmitRoundMeme, TypeOK, PlayerMemes, contentVars
  <2>2. \/ AdvanceToRoundVoting(sub)
        \/ /\ submitted' = sub
           /\ UNCHANGED <<roomState, phase, score, cycle, handVars, turn, current,
                          ballot, votes>>
    BY <1>2 DEF SubmitRoundMeme
  <2>. HIDE DEF sub
  <2>3. CASE AdvanceToRoundVoting(sub)
    BY <2>1, <2>3 DEF AdvanceToRoundVoting, TypeOK, PlayerMemes, Phases, OpenPhases
  <2>. QED  BY <2>1, <2>2, <2>3 DEF TypeOK, PlayerMemes, handVars
<1>3. ASSUME NEW o \in Player, SubmitVote(p, o)  PROVE TypeOK'
  <2> DEFINE vt == [votes EXCEPT ![p] = o]
  <2>1. vt \in [Player -> Player \cup {NoPlayer}] /\ UNCHANGED <<member, role, status, enabled, edits>>
    BY <1>3 DEF SubmitVote, TypeOK, contentVars
  <2>2. \/ AdvanceToRoundResults(vt)
        \/ /\ votes' = vt
           /\ UNCHANGED <<roomState, phase, score, cycle, handVars, turn, current,
                          submitted, ballot>>
    BY <1>3 DEF SubmitVote
  <2>. HIDE DEF vt
  <2>3. CASE AdvanceToRoundResults(vt)
    BY <2>1, <2>3, AdvanceToRoundResultsType DEF TypeOK, Statuses
  <2>. QED  BY <2>1, <2>2, <2>3 DEF TypeOK, handVars
<1>. QED  BY <1>1, <1>2, <1>3

LEMMA PrivilegedType ==
  ASSUME TypeOK, NEW a \in Actors, PrivilegedStep(a)
  PROVE  TypeOK'
<1>1. CASE StartGame(a)
  <2> DEFINE st == [p \in Player |-> IF p \in Present THEN "ACTIVE" ELSE "NONE"]
  <2>1. st \in [Player -> Statuses] /\ BeginCycle(st, 1) /\ enabled \in SUBSET Meme
    BY <1>1 DEF StartGame, TypeOK, Statuses
  <2>. HIDE DEF st
  <2>2. 1 \in 0 .. MaxCycles /\ score' \in [Player -> Int]
    BY <1>1 DEF StartGame
  <2>. QED
    BY <1>1, <2>1, <2>2, BeginCycleType, EmptyTypes
    DEF StartGame, TypeOK, contentVars, PlayerMemes, PlayerHands, Statuses, Turns,
        Phases, OpenPhases
<1>2. CASE NextRound(a)
  <2>1. ResetSkipped(status) \in [Player -> Statuses]
    BY DEF ResetSkipped, TypeOK, Statuses
  <2>2. /\ NextRoundOrFinish(ResetSkipped(status), turn)
        /\ UNCHANGED <<member, role, enabled, edits>>
    BY <1>2 DEF NextRound, contentVars
  <2>. QED  BY <2>1, <2>2, NextRoundOrFinishType DEF TypeOK, Turns
<1>3. CASE StartNextCycle(a)
  <2>1. ResetSkipped(status) \in [Player -> Statuses]
    BY DEF ResetSkipped, TypeOK, Statuses
  <2>2. /\ BeginCycle(ResetSkipped(status), cycle + 1) /\ cycle + 1 \in 0 .. MaxCycles
        /\ UNCHANGED <<roomState, member, role, score, enabled, edits>>
    BY <1>3 DEF StartNextCycle, TypeOK, contentVars
  <2>. QED
    BY <2>1, <2>2, BeginCycleType, EmptyTypes
    DEF TypeOK, PlayerMemes, PlayerHands, Statuses, Turns, Phases, OpenPhases
<1>4. CASE ForceResolvePhase(a)
  BY <1>4, ResolvePhaseType DEF ForceResolvePhase
<1>5. ASSUME NEW p \in Player, KickPlayer(a, p)  PROVE TypeOK'
  BY <1>5, ApplyLeaveType DEF KickPlayer
<1>6. CASE StartNewGame(a)
  BY <1>6, EmptyTypes
  DEF StartNewGame, TypeOK, contentVars, PlayerMemes, PlayerHands, Turns, Phases
<1>. QED  BY <1>1, <1>2, <1>3, <1>4, <1>5, <1>6 DEF PrivilegedStep

LEMMA TypeStep == TypeOK /\ [Next]_vars => TypeOK'
<1>. SUFFICES ASSUME TypeOK, [Next]_vars  PROVE TypeOK'
  OBVIOUS
<1>1. ASSUME NEW p \in Player, PlayerStep(p)  PROVE TypeOK'
  <2>1. CASE JoinRoom(p)
    BY <2>1 DEF JoinRoom, TypeOK, handVars, roundVars, contentVars
  <2>2. CASE LeaveRoom(p)
    BY <2>2, ApplyLeaveType DEF LeaveRoom
  <2>. QED  BY <1>1, <2>1, <2>2, SubmitType DEF PlayerStep
<1>2. CASE TimeoutPhase
  BY <1>2, ResolvePhaseType DEF TimeoutPhase
<1>3. ASSUME NEW m \in Meme, SetMemeEnabled(m)  PROVE TypeOK'
  BY <1>3 DEF SetMemeEnabled, TypeOK, handVars, roundVars
<1>4. CASE UNCHANGED vars
  BY <1>4 DEF vars, TypeOK
<1>. QED  BY <1>1, <1>2, <1>3, <1>4, PrivilegedType DEF Next

LEMMA TypeInit == Init => TypeOK
BY EmptyTypes DEF Init, TypeOK, PlayerMemes, PlayerHands, Turns, Phases

(* The aggregate keeps its type, whatever is sent to the engine. *)
THEOREM TypeCorrect == Spec => []TypeOK
BY TypeInit, TypeStep, PTL DEF Spec

-----------------------------------------------------------------------------
(* The inductive invariant.  TurnsArePrepared is kept through the rounds    *)
(* only because every ACTIVE player of a PREPARATION has a hand to draw a   *)
(* late turn from, and because SKIPPED players, who come back with the next *)
(* round, exist in ROUND_RESULTS alone.                                     *)

(* A room is in its lobby, in a game or closed as its game's phase says, and *)
(* the lobby knows no participation.                                         *)
RoomMatchesPhase ==
  /\ roomState = "LOBBY" <=> phase = "NONE"
  /\ roomState = "CLOSED" <=> phase = "GAME_RESULTS"
  /\ roomState = "LOBBY" => turn = NoTurns /\ \A p \in Player : status[p] = "NONE"

(* In PREPARATION nobody had a turn and everyone who plays has a hand. *)
CycleBegins ==
  phase = "PREPARATION" =>
    turn = NoTurns /\ \A p \in Player : status[p] = "ACTIVE" => prepHand[p] # {}

(* The round that is being played is the current one. *)
RoundIsOpen ==
  phase \in {"ROUND_SELECTION", "ROUND_VOTING"} =>
    current \in Player /\ turn[current] = "ACTIVE"

EngineInv ==
  /\ TypeOK
  /\ RoomMatchesPhase
  /\ CycleBegins
  /\ RoundIsOpen
  /\ SkippedForOneRound
  /\ TurnsArePrepared

(* A round starts with everyone back in play and everyone prepared. *)
LEMMA StartRoundInv ==
  ASSUME TypeOK', roomState' = "IN_GAME",
         NEW p \in Player, NEW st \in [Player -> Statuses],
         NEW tn \in [Player -> Turns], NEW prep \in PlayerMemes,
         StartRound(p, st, tn, prep),
         \A q \in Player : st[q] \in {"ACTIVE", "SKIPPED"} => prep[q] # NoMeme
  PROVE  EngineInv'
<1>1. /\ phase' = "ROUND_SELECTION" /\ current' = p /\ prepared' = prep
      /\ turn' = [tn EXCEPT ![p] = "ACTIVE"] /\ status' = ResetSkipped(st)
  BY DEF StartRound
<1>2. \A q \in Player : status'[q] # "SKIPPED"
                        /\ (status'[q] = "ACTIVE" => st[q] \in {"ACTIVE", "SKIPPED"})
  BY <1>1 DEF ResetSkipped
<1>3. turn'[p] = "ACTIVE"
  BY <1>1
<1>4. RoomMatchesPhase' /\ CycleBegins' /\ RoundIsOpen'
  BY <1>1, <1>3 DEF RoomMatchesPhase, CycleBegins, RoundIsOpen
<1>5. SkippedForOneRound' /\ TurnsArePrepared'
  BY <1>1, <1>2 DEF SkippedForOneRound, TurnsArePrepared
<1>. QED  BY <1>4, <1>5 DEF EngineInv

LEMMA NextRoundOrFinishInv ==
  ASSUME EngineInv, TypeOK', roomState = "IN_GAME",
         NEW st \in [Player -> Statuses], NEW tn \in [Player -> Turns],
         NextRoundOrFinish(st, tn),
         \A q \in Player : st[q] # "SKIPPED",
         \A q \in Player : st[q] = "ACTIVE" => prepared[q] # NoMeme
  PROVE  EngineInv'
<1>1. CASE Eligible(st, tn) # {}
  <2>1. /\ StartRound(NextEligible(st, tn), st, tn, prepared)
        /\ roomState' = "IN_GAME" /\ prepared \in PlayerMemes
    BY <1>1 DEF NextRoundOrFinish, EngineInv, TypeOK, PlayerMemes
  <2>2. NextEligible(st, tn) \in Player
    BY <1>1, NextEligiblePlayer
  <2>. QED  BY <2>1, <2>2, StartRoundInv
<1>2. CASE Eligible(st, tn) = {}
  <2>1. /\ status' = st
        /\ \/ roomState' = "IN_GAME" /\ phase' = "CYCLE_RESULTS"
           \/ roomState' = "CLOSED" /\ phase' = "GAME_RESULTS"
    BY <1>2 DEF NextRoundOrFinish, FinishCycle
  <2>. QED
    BY <2>1 DEF EngineInv, RoomMatchesPhase, CycleBegins, RoundIsOpen, SkippedForOneRound,
                TurnsArePrepared, RoundPhases
<1>. QED  BY <1>1, <1>2

LEMMA AdvanceToRoundSelectionInv ==
  ASSUME EngineInv, TypeOK', phase = "PREPARATION",
         NEW st \in [Player -> Statuses], NEW prep \in PlayerMemes,
         AdvanceToRoundSelection(st, prep),
         \A q \in Player : st[q] # "SKIPPED",
         \A q \in Player : st[q] = "ACTIVE" => prep[q] # NoMeme
  PROVE  EngineInv'
<1>1. /\ NextEligible(st, turn) \in Player /\ turn \in [Player -> Turns]
      /\ StartRound(NextEligible(st, turn), st, turn, prep)
  BY NextEligiblePlayer DEF AdvanceToRoundSelection, EngineInv, TypeOK, Turns
<1>2. roomState' = "IN_GAME"
  BY DEF AdvanceToRoundSelection, EngineInv, TypeOK, RoomMatchesPhase
<1>. QED  BY <1>1, <1>2, StartRoundInv

LEMMA AdvanceToRoundVotingInv ==
  ASSUME EngineInv, TypeOK', phase = "ROUND_SELECTION",
         NEW sub, AdvanceToRoundVoting(sub),
         \A q \in Player : status'[q] # "SKIPPED"
                          /\ (status'[q] = "ACTIVE" => status[q] = "ACTIVE")
  PROVE  EngineInv'
<1>1. phase' = "ROUND_VOTING" /\ UNCHANGED <<roomState, current, turn, prepared>>
  BY DEF AdvanceToRoundVoting
<1>. QED
  BY <1>1 DEF EngineInv, RoomMatchesPhase, CycleBegins, RoundIsOpen, SkippedForOneRound,
              TurnsArePrepared, RoundPhases

LEMMA AdvanceToRoundResultsInv ==
  ASSUME EngineInv, TypeOK', phase = "ROUND_VOTING",
         NEW vt, AdvanceToRoundResults(vt),
         \A q \in Player :
            /\ status'[q] = "SKIPPED" => q # current /\ vt[q] = NoPlayer
            /\ status'[q] \in {"ACTIVE", "SKIPPED"} => status[q] = "ACTIVE"
  PROVE  EngineInv'
<1>1. phase' = "ROUND_RESULTS" /\ votes' = vt /\ UNCHANGED <<roomState, current, prepared>>
  BY DEF AdvanceToRoundResults
<1>. QED
  BY <1>1 DEF EngineInv, RoomMatchesPhase, CycleBegins, RoundIsOpen, SkippedForOneRound,
              TurnsArePrepared, RoundPhases

LEMMA BeginCycleInv ==
  ASSUME TypeOK, TypeOK', roomState' = "IN_GAME",
         NEW st \in [Player -> Statuses], NEW n, BeginCycle(st, n),
         \A q \in Player : st[q] # "SKIPPED"
  PROVE  EngineInv'
<1>1. /\ phase' = "PREPARATION" /\ status' = st /\ turn' = NoTurns
      /\ \A q \in Player : st[q] = "ACTIVE" => prepHand'[q] # {}
  <2>1. enabled \in SUBSET Meme
    BY DEF TypeOK
  <2>. QED  BY <2>1, BeginCycleType
<1>. QED
  BY <1>1 DEF EngineInv, RoomMatchesPhase, CycleBegins, RoundIsOpen, SkippedForOneRound,
              TurnsArePrepared, RoundPhases

(* A leave or any other step that stays in its phase keeps the invariant   *)
(* when it only takes people out of the game.                              *)
LEMMA SamePhaseInv ==
  ASSUME EngineInv, TypeOK',
         UNCHANGED <<roomState, phase, turn, current, prepHand>>,
         \A q \in Player :
            /\ status'[q] = "SKIPPED" => status[q] = "SKIPPED" /\ votes'[q] = votes[q]
            /\ status'[q] = "ACTIVE" => status[q] = "ACTIVE"
            /\ status[q] = "NONE" /\ roomState = "LOBBY" => status'[q] = "NONE",
         phase \in RoundPhases => UNCHANGED prepared
  PROVE  EngineInv'
<1>1. RoomMatchesPhase' /\ CycleBegins' /\ RoundIsOpen'
  BY DEF EngineInv, RoomMatchesPhase, CycleBegins, RoundIsOpen
<1>2. SkippedForOneRound'
  BY DEF EngineInv, SkippedForOneRound
<1>3. TurnsArePrepared'
  BY DEF EngineInv, TurnsArePrepared
<1>. QED  BY <1>1, <1>2, <1>3 DEF EngineInv

-----------------------------------------------------------------------------
(* Every command keeps the invariant.                                      *)

LEMMA SubmitInv ==
  ASSUME EngineInv, TypeOK', NEW p \in Player,
         \/ \E m \in Meme : SubmitPreparation(p, m)
         \/ \E m \in Meme : SubmitRoundMeme(p, m)
         \/ \E o \in Player : SubmitVote(p, o)
  PROVE  EngineInv'
<1>. USE DEF EngineInv
<1>1. ASSUME NEW m \in Meme, SubmitPreparation(p, m)  PROVE EngineInv'
  <2> DEFINE prep == [prepared EXCEPT ![p] = m]
  <2>1. prep \in PlayerMemes /\ phase = "PREPARATION" /\ status \in [Player -> Statuses]
    BY <1>1 DEF SubmitPreparation, TypeOK, PlayerMemes, Statuses
  <2>2. CASE AllActivePrepared(status, prep)
    <3>1. AdvanceToRoundSelection(status, prep)
      BY <1>1, <2>2 DEF SubmitPreparation
    <3>2. \A q \in Player : status[q] # "SKIPPED" /\ (status[q] = "ACTIVE" => prep[q] # NoMeme)
      BY <2>1, <2>2 DEF SkippedForOneRound, AllActivePrepared, ActiveIn
    <3>. HIDE DEF prep, EngineInv
    <3>. QED  BY <2>1, <3>1, <3>2, AdvanceToRoundSelectionInv
  <2>3. CASE ~AllActivePrepared(status, prep)
    <3>1. UNCHANGED <<roomState, phase, status, prepHand, turn, current, votes>>
      BY <1>1, <2>3 DEF SubmitPreparation, roundVars
    <3>. QED  BY <2>1, <3>1, SamePhaseInv DEF RoundPhases
  <2>. QED  BY <2>2, <2>3
<1>2. ASSUME NEW m \in Meme, SubmitRoundMeme(p, m)  PROVE EngineInv'
  <2> DEFINE sub == [submitted EXCEPT ![p] = m]
  <2>1. phase = "ROUND_SELECTION" /\ UNCHANGED status
    BY <1>2 DEF SubmitRoundMeme
  <2>2. CASE AdvanceToRoundVoting(sub)
    <3>. HIDE DEF EngineInv, sub
    <3>. QED  BY <2>1, <2>2, AdvanceToRoundVotingInv DEF EngineInv, SkippedForOneRound
  <2>3. CASE UNCHANGED <<roomState, phase, score, cycle, handVars, turn, current, ballot, votes>>
    BY <2>1, <2>3, SamePhaseInv DEF handVars
  <2>. QED  BY <1>2, <2>2, <2>3 DEF SubmitRoundMeme
<1>3. ASSUME NEW o \in Player, SubmitVote(p, o)  PROVE EngineInv'
  <2> DEFINE vt == [votes EXCEPT ![p] = o]
  <2>1. phase = "ROUND_VOTING" /\ UNCHANGED status
    BY <1>3 DEF SubmitVote
  <2>2. \A q \in Player : status[q] # "SKIPPED"
    BY <2>1 DEF SkippedForOneRound
  <2>3. CASE AdvanceToRoundResults(vt)
    <3>. HIDE DEF EngineInv, vt
    <3>. QED  BY <2>1, <2>2, <2>3, AdvanceToRoundResultsInv
  <2>4. CASE UNCHANGED <<roomState, phase, score, cycle, handVars, turn, current, submitted, ballot>>
    BY <2>1, <2>2, <2>4, SamePhaseInv DEF handVars
  <2>. QED  BY <1>3, <2>3, <2>4 DEF SubmitVote
<1>. QED  BY <1>1, <1>2, <1>3

LEMMA ResolvePhaseInv ==
  ASSUME EngineInv, TypeOK', ResolvePhase
  PROVE  EngineInv'
<1>1. CASE ResolvePreparation
  <2> DEFINE late == {p \in ActiveIn(status) : prepared[p] = NoMeme}
  <2>1. PICK prep \in Filled(prepared, late, prepHand) : AdvanceToRoundSelection(status, prep)
    BY <1>1 DEF ResolvePreparation, LatePreparations
  <2>2. phase = "PREPARATION" /\ status \in [Player -> Statuses]
        /\ \A q \in Player : status[q] # "SKIPPED"
                           /\ (status[q] = "ACTIVE" => prepHand[q] # {})
    BY <1>1 DEF ResolvePreparation, EngineInv, TypeOK, Statuses, CycleBegins,
                SkippedForOneRound
  <2>3. prep \in PlayerMemes
    BY DEF Filled, PlayerMemes
  <2>4. \A q \in Player : status[q] = "ACTIVE" => prep[q] # NoMeme
    <3>. SUFFICES ASSUME NEW q \in Player, status[q] = "ACTIVE"  PROVE prep[q] # NoMeme
      OBVIOUS
    <3>1. CASE q \in late
      <4>1. prep[q] \in prepHand[q] /\ prepHand[q] \subseteq Meme
        BY <2>2, <3>1 DEF Filled, EngineInv, TypeOK
      <4>. QED  BY <4>1
    <3>2. CASE q \notin late
      BY <3>2 DEF Filled, ActiveIn
    <3>. QED  BY <3>1, <3>2
  <2>. QED  BY <2>1, <2>2, <2>3, <2>4, AdvanceToRoundSelectionInv
<1>2. CASE ResolveSelection
  <2>1. /\ phase = "ROUND_SELECTION" /\ UNCHANGED status
        /\ \E sub : AdvanceToRoundVoting(sub)
    BY <1>2 DEF ResolveSelection
  <2>. QED  BY <2>1, AdvanceToRoundVotingInv DEF EngineInv, SkippedForOneRound
<1>3. CASE ResolveVoting
  <2>1. phase = "ROUND_VOTING" /\ AdvanceToRoundResults(votes)
    BY <1>3 DEF ResolveVoting
  <2>2. \A q \in Player :
           /\ status'[q] = "SKIPPED" => q # current /\ votes[q] = NoPlayer
           /\ status'[q] \in {"ACTIVE", "SKIPPED"} => status[q] = "ACTIVE"
    BY <1>3, <2>1 DEF ResolveVoting, ActiveIn, EngineInv, SkippedForOneRound
  <2>. QED  BY <2>1, <2>2, AdvanceToRoundResultsInv
<1>. QED  BY <1>1, <1>2, <1>3 DEF ResolvePhase

LEMMA ApplyLeaveInv ==
  ASSUME EngineInv, TypeOK', NEW p \in Player, ApplyLeave(p)
  PROVE  EngineInv'
<1>1. /\ Dropped(p) \in [Player -> Statuses]
      /\ \A q \in Player :
           /\ Dropped(p)[q] = "SKIPPED" => status[q] = "SKIPPED"
           /\ Dropped(p)[q] = "ACTIVE" => status[q] = "ACTIVE" /\ q # p
  BY DroppedType DEF EngineInv, Dropped, TypeOK
<1>2. CASE LeavePreparation(p)
  <2> DEFINE prep == [prepared EXCEPT ![p] = NoMeme]
  <2>1. prep \in PlayerMemes /\ phase = "PREPARATION" /\ roomState # "LOBBY"
    BY <1>2 DEF LeavePreparation, EngineInv, TypeOK, PlayerMemes, RoomMatchesPhase
  <2>2. \A q \in Player : status[q] # "SKIPPED"
    BY <2>1 DEF EngineInv, SkippedForOneRound
  <2>3. CASE AllActivePrepared(Dropped(p), prep)
    <3>1. AdvanceToRoundSelection(Dropped(p), prep)
      BY <1>2, <2>3 DEF LeavePreparation
    <3>2. \A q \in Player : Dropped(p)[q] = "ACTIVE" => prep[q] # NoMeme
      BY <2>3 DEF AllActivePrepared, ActiveIn
    <3>. HIDE DEF prep
    <3>. QED  BY <1>1, <2>1, <2>2, <3>1, <3>2, AdvanceToRoundSelectionInv
  <2>4. CASE ~AllActivePrepared(Dropped(p), prep)
    <3>1. status' = Dropped(p) /\ UNCHANGED <<roomState, phase, prepHand, turn, current, votes>>
      BY <1>2, <2>4 DEF LeavePreparation, roundVars
    <3>. QED  BY <1>1, <2>1, <3>1, SamePhaseInv DEF RoundPhases
  <2>. QED  BY <2>3, <2>4
<1>3. CASE LeaveOwnRound(p)
  <2> DEFINE tn == [turn EXCEPT ![p] = "CANCELLED"]
  <2>1. /\ phase = "ROUND_SELECTION" /\ NextRoundOrFinish(Dropped(p), tn)
        /\ tn \in [Player -> Turns]
    BY <1>3 DEF LeaveOwnRound, EngineInv, TypeOK, Turns
  <2>2. /\ roomState = "IN_GAME"
        /\ \A q \in Player : Dropped(p)[q] # "SKIPPED"
        /\ \A q \in Player : Dropped(p)[q] = "ACTIVE" => prepared[q] # NoMeme
    BY <1>1, <2>1 DEF EngineInv, TypeOK, RoomMatchesPhase, SkippedForOneRound,
                      TurnsArePrepared, RoundPhases
  <2>. HIDE DEF tn
  <2>. QED  BY <1>1, <2>1, <2>2, NextRoundOrFinishInv
<1>4. CASE LeaveSelection(p)
  <2> DEFINE sub == [submitted EXCEPT ![p] = NoMeme]
  <2>1. phase = "ROUND_SELECTION" /\ status' = Dropped(p) /\ roomState # "LOBBY"
        /\ \A q \in Player : status[q] # "SKIPPED"
    BY <1>4 DEF LeaveSelection, EngineInv, RoomMatchesPhase, SkippedForOneRound
  <2>2. CASE AdvanceToRoundVoting(sub)
    <3>. HIDE DEF sub
    <3>. QED  BY <1>1, <2>1, <2>2, AdvanceToRoundVotingInv
  <2>3. CASE UNCHANGED <<roomState, phase, score, cycle, handVars, turn, current, ballot, votes>>
    BY <1>1, <2>1, <2>3, SamePhaseInv DEF handVars
  <2>. QED  BY <1>4, <2>2, <2>3 DEF LeaveSelection
<1>5. CASE LeaveVoting(p)
  <2>1. phase = "ROUND_VOTING" /\ status' = Dropped(p) /\ roomState # "LOBBY"
        /\ \A q \in Player : status[q] # "SKIPPED"
    BY <1>5 DEF LeaveVoting, EngineInv, RoomMatchesPhase, SkippedForOneRound
  <2>2. CASE AdvanceToRoundResults(votes)
    BY <1>1, <2>1, <2>2, AdvanceToRoundResultsInv
  <2>3. CASE UNCHANGED <<roomState, phase, score, cycle, handVars, turn, current, roundVars>>
    BY <1>1, <2>1, <2>3, SamePhaseInv DEF handVars
  <2>. QED  BY <1>5, <2>2, <2>3 DEF LeaveVoting
<1>6. CASE LeaveBetweenRounds(p)
  <2>1. /\ (status' = Dropped(p) /\ phase = "ROUND_RESULTS") \/ status' = status
        /\ UNCHANGED <<roomState, phase, turn, current, prepHand, prepared, votes>>
    BY <1>6 DEF LeaveBetweenRounds, handVars, roundVars
  <2>2. phase = "ROUND_RESULTS" => roomState # "LOBBY"
    BY DEF EngineInv, RoomMatchesPhase
  <2>. QED  BY <1>1, <2>1, <2>2, SamePhaseInv
<1>. QED  BY <1>2, <1>3, <1>4, <1>5, <1>6 DEF ApplyLeave

LEMMA PrivilegedInv ==
  ASSUME EngineInv, TypeOK', NEW a \in Actors, PrivilegedStep(a)
  PROVE  EngineInv'
<1>1. CASE StartGame(a)
  <2> DEFINE st == [p \in Player |-> IF p \in Present THEN "ACTIVE" ELSE "NONE"]
  <2>1. /\ st \in [Player -> Statuses] /\ \A q \in Player : st[q] # "SKIPPED"
        /\ BeginCycle(st, 1) /\ roomState' = "IN_GAME"
    BY <1>1 DEF StartGame, Statuses
  <2>. HIDE DEF st
  <2>. QED  BY <2>1, BeginCycleInv DEF EngineInv
<1>2. ResetSkipped(status) \in [Player -> Statuses]
      /\ \A q \in Player :
           /\ ResetSkipped(status)[q] # "SKIPPED"
           /\ ResetSkipped(status)[q] = "ACTIVE" => status[q] \in {"ACTIVE", "SKIPPED"}
  BY DEF ResetSkipped, EngineInv, TypeOK, Statuses
<1>3. CASE NextRound(a)
  <2>1. /\ NextRoundOrFinish(ResetSkipped(status), turn) /\ turn \in [Player -> Turns]
        /\ roomState = "IN_GAME"
        /\ \A q \in Player : status[q] \in {"ACTIVE", "SKIPPED"} => prepared[q] # NoMeme
    BY <1>3 DEF NextRound, EngineInv, TypeOK, Turns, RoomMatchesPhase, TurnsArePrepared,
                RoundPhases
  <2>. QED  BY <1>2, <2>1, NextRoundOrFinishInv
<1>4. CASE StartNextCycle(a)
  <2>1. /\ BeginCycle(ResetSkipped(status), cycle + 1) /\ roomState' = "IN_GAME"
    BY <1>4 DEF StartNextCycle, EngineInv, TypeOK, RoomMatchesPhase
  <2>. QED  BY <1>2, <2>1, BeginCycleInv DEF EngineInv
<1>5. CASE ForceResolvePhase(a)
  BY <1>5, ResolvePhaseInv DEF ForceResolvePhase
<1>6. ASSUME NEW p \in Player, KickPlayer(a, p)  PROVE EngineInv'
  BY <1>6, ApplyLeaveInv DEF KickPlayer
<1>7. CASE StartNewGame(a)
  BY <1>7 DEF StartNewGame, EngineInv, RoomMatchesPhase, CycleBegins, RoundIsOpen,
              SkippedForOneRound, TurnsArePrepared, RoundPhases
<1>. QED  BY <1>1, <1>3, <1>4, <1>5, <1>6, <1>7 DEF PrivilegedStep

LEMMA EngineStep == EngineInv /\ [Next]_vars => EngineInv'
<1>. SUFFICES ASSUME EngineInv, [Next]_vars  PROVE EngineInv'
  OBVIOUS
<1>1. TypeOK'
  BY TypeStep DEF EngineInv
<1>2. ASSUME NEW p \in Player, PlayerStep(p)  PROVE EngineInv'
  <2>1. CASE JoinRoom(p)
    BY <1>1, <2>1, SamePhaseInv DEF JoinRoom, handVars, roundVars
  <2>2. CASE LeaveRoom(p)
    BY <1>1, <2>2, ApplyLeaveInv DEF LeaveRoom
  <2>. QED  BY <1>1, <1>2, <2>1, <2>2, SubmitInv DEF PlayerStep
<1>3. CASE TimeoutPhase
  BY <1>1, <1>3, ResolvePhaseInv DEF TimeoutPhase
<1>4. ASSUME NEW m \in Meme, SetMemeEnabled(m)  PROVE EngineInv'
  BY <1>1, <1>4, SamePhaseInv DEF SetMemeEnabled, handVars, roundVars
<1>5. CASE UNCHANGED vars
  BY <1>1, <1>5, SamePhaseInv DEF vars
<1>. QED  BY <1>1, <1>2, <1>3, <1>4, <1>5, PrivilegedInv DEF Next

LEMMA EngineInit == Init => EngineInv
BY TypeInit DEF Init, EngineInv, RoomMatchesPhase, CycleBegins, RoundIsOpen,
                SkippedForOneRound, TurnsArePrepared, RoundPhases

THEOREM EngineInvariant == Spec => []EngineInv
BY EngineInit, EngineStep, PTL DEF Spec

(* Once the rounds of a cycle have begun, everyone who may yet be the active *)
(* player has a PreparedTurn: startRound never fails for want of one.        *)
THEOREM EngineTurnsArePrepared == Spec => []TurnsArePrepared
<1>1. EngineInv => TurnsArePrepared
  BY DEF EngineInv
<1>. QED  BY <1>1, EngineInvariant, PTL

(* SKIPPED lasts until the results of the round are closed, and marks only  *)
(* those who owed a vote and cast none.                                     *)
THEOREM EngineSkippedForOneRound == Spec => []SkippedForOneRound
<1>1. EngineInv => SkippedForOneRound
  BY DEF EngineInv
<1>. QED  BY <1>1, EngineInvariant, PTL

-----------------------------------------------------------------------------
(* The engine implements GameFlow.                                         *)

(* The participants under the statuses st. *)
PlayingIn(st) == {p \in Player : st[p] \in {"ACTIVE", "SKIPPED"}}

LEMMA PlayingTypes ==
  ASSUME NEW st \in [Player -> Statuses]
  PROVE  /\ PlayingIn(ResetSkipped(st)) = PlayingIn(st)
         /\ (\A p \in Player : st[p] # "SKIPPED") => ActiveIn(st) = PlayingIn(st)
BY DEF PlayingIn, ResetSkipped, ActiveIn, Statuses

(* The next round of the engine is the next round of the abstract game. *)
LEMMA StartRoundOpens ==
  ASSUME roomState' = "IN_GAME",
         NEW st \in [Player -> Statuses], NEW tn, NEW prep,
         \A p \in Player : st[p] # "SKIPPED",
         Eligible(st, tn) # {},
         StartRound(NextEligible(st, tn), st, tn, prep)
  PROVE  Flow!MoveOn(PlayingIn(st), tn)
<1>1. Eligible(st, tn) = Flow!Waiting(PlayingIn(st), tn)
  BY PlayingTypes DEF Eligible, Flow!Waiting
<1>2. turn' = Flow!Open(PlayingIn(st), tn)
  <2>1. NextEligible(st, tn) = Flow!Min(Flow!Waiting(PlayingIn(st), tn))
    BY <1>1 DEF NextEligible, Min, Flow!Min
  <2>. QED  BY <2>1 DEF StartRound, Flow!Open
<1>3. Playing' = PlayingIn(st)
  BY PlayingTypes DEF StartRound, Playing, PlayingIn
<1>4. Stage' = "PLAYING"
  BY DEF StartRound, Stage
<1>. QED  BY <1>1, <1>2, <1>3, <1>4 DEF Flow!MoveOn

LEMMA NextRoundOrFinishMovesOn ==
  ASSUME roomState = "IN_GAME",
         NEW st \in [Player -> Statuses], NEW tn,
         \A p \in Player : st[p] # "SKIPPED",
         NextRoundOrFinish(st, tn)
  PROVE  Flow!MoveOn(PlayingIn(st), tn)
<1>1. CASE Eligible(st, tn) # {}
  BY <1>1, StartRoundOpens DEF NextRoundOrFinish
<1>2. CASE Eligible(st, tn) = {}
  <2>1. Flow!Waiting(PlayingIn(st), tn) = {}
    BY <1>2, PlayingTypes DEF Eligible, Flow!Waiting
  <2>2. /\ Playing' = PlayingIn(st) /\ turn' = tn
        /\ Stage' \in {"CYCLE_OVER", "GAME_OVER"}
    BY <1>2 DEF NextRoundOrFinish, FinishCycle, Playing, PlayingIn, Stage
  <2>. QED  BY <2>1, <2>2 DEF Flow!MoveOn
<1>. QED  BY <1>1, <1>2

(* The first round of a cycle, with the players st leaves in the game. *)
LEMMA FirstRoundOpens ==
  ASSUME EngineInv, phase = "PREPARATION",
         NEW st \in [Player -> Statuses], NEW prep,
         \A p \in Player : st[p] # "SKIPPED",
         PlayingIn(st) \in Flow!Remaining,
         AdvanceToRoundSelection(st, prep)
  PROVE  Flow!FirstRound
<1>1. roomState = "IN_GAME" /\ Stage = "PREPARING"
  BY DEF EngineInv, TypeOK, RoomMatchesPhase, Stage
<1>2. PlayingIn(st) # {}
  BY PlayingTypes DEF AdvanceToRoundSelection, Eligible
<1>3. Flow!MoveOn(PlayingIn(st), turn)
  BY <1>1, StartRoundOpens DEF AdvanceToRoundSelection
<1>. QED  BY <1>1, <1>2, <1>3 DEF Flow!FirstRound

(* The results of a round end it. *)
LEMMA ResultsFinish ==
  ASSUME EngineInv, phase = "ROUND_VOTING", NEW vt, AdvanceToRoundResults(vt),
         Playing' \in Flow!Remaining
  PROVE  Flow!Next
<1>1. /\ roomState = "IN_GAME" /\ Stage = "PLAYING"
      /\ current \in Player /\ turn[current] = "ACTIVE"
  BY DEF EngineInv, TypeOK, RoomMatchesPhase, RoundIsOpen, Stage
<1>2. Stage' = "SHOWING" /\ turn' = [turn EXCEPT ![current] = "FINISHED"]
  BY <1>1 DEF AdvanceToRoundResults, Stage
<1>3. Flow!Finish(current)
  BY <1>1, <1>2 DEF Flow!Finish
<1>4. current \in Flow!Player
  BY <1>1 DEF Player, Flow!Player
<1>. QED  BY <1>3, <1>4 DEF Flow!Next

LEMMA FlowStutter ==
  ASSUME UNCHANGED <<roomState, phase, status, turn>>
  PROVE  UNCHANGED Flow!vars
BY DEF Flow!vars, Stage, Playing

(* A phase change that leaves the round and its participants alone. *)
LEMMA VotingStutters ==
  ASSUME EngineInv, phase = "ROUND_SELECTION", NEW sub, AdvanceToRoundVoting(sub)
  PROVE  UNCHANGED <<Stage, turn>>
BY DEF AdvanceToRoundVoting, Stage, EngineInv, RoomMatchesPhase

(* Who is left when p leaves, of the present and of the participants. *)
LEMMA DroppedRemain ==
  ASSUME TypeOK, NEW p \in Player
  PROVE  /\ Dropped(p) \in [Player -> Statuses]
         /\ PlayingIn(Dropped(p)) = Playing \ {p}
         /\ PlayingIn(status) = Playing
         /\ PlayingIn(Dropped(p)) \in Flow!Remaining
         /\ Playing \in Flow!Remaining
<1>1. Dropped(p) \in [Player -> Statuses] /\ status \in [Player -> Statuses]
  BY DEF Dropped, TypeOK, Statuses
<1>2. PlayingIn(Dropped(p)) = Playing \ {p} /\ PlayingIn(status) = Playing
  BY <1>1 DEF PlayingIn, Playing, Dropped, Statuses
<1>3. Playing \ {p} \in Flow!Remaining
  <2>1. CASE p \in Playing
    BY <2>1 DEF Flow!Remaining
  <2>2. CASE p \notin Playing
    <3>1. Playing \ {p} = Playing
      BY <2>2
    <3>. QED  BY <3>1 DEF Flow!Remaining
  <2>. QED  BY <2>1, <2>2
<1>. QED  BY <1>1, <1>2, <1>3 DEF Flow!Remaining

LEMMA FlowSubmit ==
  ASSUME EngineInv, NEW p \in Player, NEW m,
         SubmitPreparation(p, m) \/ SubmitRoundMeme(p, m) \/ SubmitVote(p, m)
  PROVE  [Flow!Next]_(Flow!vars)
<1>1. /\ status \in [Player -> Statuses]
      /\ phase # "ROUND_RESULTS" => \A q \in Player : status[q] # "SKIPPED"
      /\ PlayingIn(status) = Playing /\ Playing \in Flow!Remaining
  BY DroppedRemain DEF EngineInv, TypeOK, Statuses, SkippedForOneRound
<1>2. CASE SubmitPreparation(p, m)
  <2> DEFINE prep == [prepared EXCEPT ![p] = m]
  <2>1. CASE AdvanceToRoundSelection(status, prep)
    <3>. HIDE DEF prep
    <3>1. phase = "PREPARATION"
      BY <1>2 DEF SubmitPreparation
    <3>2. Flow!FirstRound
      BY <1>1, <2>1, <3>1, FirstRoundOpens
    <3>. QED  BY <3>2 DEF Flow!Next
  <2>2. CASE UNCHANGED <<roomState, phase, status, turn>>
    BY <2>2, FlowStutter
  <2>. QED  BY <1>2, <2>1, <2>2 DEF SubmitPreparation
<1>3. CASE SubmitRoundMeme(p, m)
  <2> DEFINE sub == [submitted EXCEPT ![p] = m]
  <2>1. phase = "ROUND_SELECTION" /\ status' = status
    BY <1>3 DEF SubmitRoundMeme
  <2>2. CASE AdvanceToRoundVoting(sub)
    <3>. HIDE DEF sub
    <3>1. UNCHANGED <<Stage, turn>> /\ Playing' = Playing
      BY <2>1, <2>2, VotingStutters DEF Playing
    <3>. QED  BY <3>1 DEF Flow!vars
  <2>3. CASE UNCHANGED <<roomState, phase, status, turn>>
    BY <2>3, FlowStutter
  <2>. QED  BY <1>3, <2>2, <2>3 DEF SubmitRoundMeme
<1>4. CASE SubmitVote(p, m)
  <2> DEFINE vt == [votes EXCEPT ![p] = m]
  <2>1. phase = "ROUND_VOTING" /\ Playing' = Playing
    BY <1>4 DEF SubmitVote, Playing
  <2>2. CASE AdvanceToRoundResults(vt)
    <3>. HIDE DEF vt
    <3>. QED  BY <1>1, <2>1, <2>2, ResultsFinish
  <2>3. CASE UNCHANGED <<roomState, phase, status, turn>>
    BY <2>3, FlowStutter
  <2>. QED  BY <1>4, <2>2, <2>3 DEF SubmitVote
<1>. QED  BY <1>2, <1>3, <1>4

LEMMA FlowResolve ==
  ASSUME EngineInv, ResolvePhase
  PROVE  [Flow!Next]_(Flow!vars)
<1>1. /\ status \in [Player -> Statuses]
      /\ phase # "ROUND_RESULTS" => \A q \in Player : status[q] # "SKIPPED"
      /\ PlayingIn(status) = Playing /\ Playing \in Flow!Remaining
  <2>1. status \in [Player -> Statuses] /\ PlayingIn(status) = Playing
    BY DEF EngineInv, TypeOK, Statuses, PlayingIn, Playing
  <2>. QED  BY <2>1 DEF EngineInv, SkippedForOneRound, Flow!Remaining
<1>2. CASE ResolvePreparation
  <2>1. phase = "PREPARATION" /\ \E prep : AdvanceToRoundSelection(status, prep)
    BY <1>2 DEF ResolvePreparation, LatePreparations
  <2>2. Flow!FirstRound
    BY <1>1, <2>1, FirstRoundOpens
  <2>. QED  BY <2>2 DEF Flow!Next
<1>3. CASE ResolveSelection
  <2>1. phase = "ROUND_SELECTION" /\ status' = status /\ \E sub : AdvanceToRoundVoting(sub)
    BY <1>3 DEF ResolveSelection
  <2>2. UNCHANGED <<Stage, turn>> /\ Playing' = Playing
    BY <2>1, VotingStutters DEF Playing
  <2>. QED  BY <2>2 DEF Flow!vars
<1>4. CASE ResolveVoting
  <2>1. phase = "ROUND_VOTING" /\ AdvanceToRoundResults(votes)
    BY <1>4 DEF ResolveVoting
  <2>2. Playing' = Playing
    BY <1>4 DEF ResolveVoting, Playing, ActiveIn
  <2>. QED  BY <1>1, <2>1, <2>2, ResultsFinish
<1>. QED  BY <1>2, <1>3, <1>4 DEF ResolvePhase

LEMMA FlowLeave ==
  ASSUME EngineInv, NEW p \in Player, ApplyLeave(p)
  PROVE  [Flow!Next]_(Flow!vars)
<1>1. /\ Dropped(p) \in [Player -> Statuses]
      /\ PlayingIn(Dropped(p)) = Playing \ {p}
      /\ PlayingIn(Dropped(p)) \in Flow!Remaining
      /\ phase # "ROUND_RESULTS" => \A q \in Player : Dropped(p)[q] # "SKIPPED"
  BY DroppedRemain DEF EngineInv, TypeOK, Dropped, SkippedForOneRound
<1>2. ASSUME Stage \in {"PREPARING", "PLAYING", "SHOWING"}, status' = Dropped(p),
             UNCHANGED <<Stage, turn>>
      PROVE  Flow!Next
  <2>1. Playing' = Playing \ {p} /\ p \in Flow!Player
    BY <1>1, <1>2 DEF Playing, PlayingIn, Player, Flow!Player
  <2>2. Flow!DropOut(p)
    BY <1>2, <2>1 DEF Flow!DropOut
  <2>. QED  BY <2>1, <2>2 DEF Flow!Next
<1>3. CASE LeavePreparation(p)
  <2> DEFINE prep == [prepared EXCEPT ![p] = NoMeme]
  <2>1. phase = "PREPARATION" /\ Stage = "PREPARING"
    BY <1>3 DEF LeavePreparation, EngineInv, RoomMatchesPhase, Stage
  <2>2. CASE AdvanceToRoundSelection(Dropped(p), prep)
    <3>. HIDE DEF prep
    <3>1. Flow!FirstRound
      BY <1>1, <2>1, <2>2, FirstRoundOpens
    <3>. QED  BY <3>1 DEF Flow!Next
  <2>3. CASE status' = Dropped(p) /\ UNCHANGED <<roomState, phase, turn>>
    BY <1>2, <2>1, <2>3 DEF Stage
  <2>. QED  BY <1>3, <2>2, <2>3 DEF LeavePreparation
<1>4. CASE LeaveOwnRound(p)
  <2> DEFINE tn == [turn EXCEPT ![p] = "CANCELLED"]
  <2>1. /\ phase = "ROUND_SELECTION" /\ roomState = "IN_GAME" /\ Stage = "PLAYING"
        /\ p = current /\ turn[p] = "ACTIVE" /\ NextRoundOrFinish(Dropped(p), tn)
    BY <1>4 DEF LeaveOwnRound, EngineInv, TypeOK, RoomMatchesPhase, RoundIsOpen, Stage
  <2>2. Flow!MoveOn(PlayingIn(Dropped(p)), tn)
    <3>. HIDE DEF tn
    <3>. QED  BY <1>1, <2>1, NextRoundOrFinishMovesOn
  <2>3. Flow!Cancel(p) /\ p \in Flow!Player
    BY <1>1, <2>1, <2>2 DEF Flow!Cancel, Player, Flow!Player
  <2>. QED  BY <2>3 DEF Flow!Next
<1>5. CASE LeaveSelection(p)
  <2> DEFINE sub == [submitted EXCEPT ![p] = NoMeme]
  <2>1. /\ phase = "ROUND_SELECTION" /\ Stage = "PLAYING" /\ status' = Dropped(p)
    BY <1>5 DEF LeaveSelection, EngineInv, RoomMatchesPhase, Stage
  <2>2. CASE AdvanceToRoundVoting(sub)
    <3>. HIDE DEF sub
    <3>1. UNCHANGED <<Stage, turn>>
      BY <2>1, <2>2, VotingStutters
    <3>. QED  BY <1>2, <2>1, <3>1
  <2>3. CASE UNCHANGED <<roomState, phase, turn>>
    BY <1>2, <2>1, <2>3 DEF Stage
  <2>. QED  BY <1>5, <2>2, <2>3 DEF LeaveSelection
<1>6. CASE LeaveVoting(p)
  <2>1. /\ phase = "ROUND_VOTING" /\ Stage = "PLAYING" /\ status' = Dropped(p)
    BY <1>6 DEF LeaveVoting, EngineInv, RoomMatchesPhase, Stage
  <2>2. CASE AdvanceToRoundResults(votes)
    <3>1. Playing' \in Flow!Remaining
      BY <1>1, <2>1 DEF Playing, PlayingIn
    <3>. QED  BY <2>1, <2>2, <3>1, ResultsFinish
  <2>3. CASE UNCHANGED <<roomState, phase, turn>>
    BY <1>2, <2>1, <2>3 DEF Stage
  <2>. QED  BY <1>6, <2>2, <2>3 DEF LeaveVoting
<1>7. CASE LeaveBetweenRounds(p)
  <2>1. UNCHANGED <<roomState, phase, turn>>
    BY <1>7 DEF LeaveBetweenRounds
  <2>2. CASE phase = "ROUND_RESULTS"
    <3>1. Stage = "SHOWING" /\ status' = Dropped(p)
      BY <1>7, <2>2 DEF LeaveBetweenRounds, EngineInv, RoomMatchesPhase, Stage
    <3>. QED  BY <1>2, <2>1, <3>1 DEF Stage
  <2>3. CASE status' = status
    BY <2>1, <2>3, FlowStutter
  <2>. QED  BY <1>7, <2>2, <2>3 DEF LeaveBetweenRounds
<1>. QED  BY <1>3, <1>4, <1>5, <1>6, <1>7 DEF ApplyLeave

(* START_GAME finds somebody: MinPlayers is at least one. *)
LEMMA SomebodyStarts ==
  ASSUME NEW a, StartGame(a)
  PROVE  Present # {}
<1>1. Cardinality(Present) >= MinPlayers /\ MinPlayers >= 1
  BY SizesAssumption DEF StartGame
<1>. QED  BY <1>1, FS_EmptySet

LEMMA FlowPrivileged ==
  ASSUME EngineInv, NEW a \in Actors, PrivilegedStep(a)
  PROVE  [Flow!Next]_(Flow!vars)
<1>1. /\ status \in [Player -> Statuses] /\ ResetSkipped(status) \in [Player -> Statuses]
      /\ PlayingIn(ResetSkipped(status)) = Playing
      /\ \A p \in Player : ResetSkipped(status)[p] # "SKIPPED"
  BY DEF EngineInv, TypeOK, Statuses, PlayingIn, Playing, ResetSkipped
<1>2. CASE StartGame(a)
  <2>1. Stage = "LOBBY" /\ Stage' = "PREPARING" /\ turn' = Flow!NoTurns
    <3>1. /\ roomState = "LOBBY" /\ roomState' = "IN_GAME"
          /\ phase' = "PREPARATION" /\ turn' = NoTurns
      BY <1>2 DEF StartGame, BeginCycle
    <3>2. NoTurns = Flow!NoTurns
      BY DEF NoTurns, Flow!NoTurns, Player, Flow!Player
    <3>3. Stage = "LOBBY"
      BY <3>1 DEF Stage, EngineInv, RoomMatchesPhase
    <3>4. Stage' = "PREPARING"
      BY <3>1 DEF Stage
    <3>. QED  BY <3>1, <3>2, <3>3, <3>4
  <2>2. Playing' = Present
    BY <1>2 DEF StartGame, BeginCycle, Playing, Present
  <2>3. Present # {}
    BY <1>2, SomebodyStarts
  <2>4. Present \in SUBSET Flow!Player
    BY DEF Present, Player, Flow!Player
  <2>5. Playing' \in (SUBSET Flow!Player) \ {{}}
    BY <2>2, <2>3, <2>4
  <2>6. Flow!Begin
    BY <2>1, <2>5 DEF Flow!Begin
  <2>. QED  BY <2>6 DEF Flow!Next
<1>3. CASE NextRound(a)
  <2>1. /\ roomState = "IN_GAME" /\ Stage = "SHOWING"
        /\ NextRoundOrFinish(ResetSkipped(status), turn)
    BY <1>3 DEF NextRound, EngineInv, TypeOK, RoomMatchesPhase, Stage
  <2>2. Flow!GoOn
    BY <1>1, <2>1, NextRoundOrFinishMovesOn DEF Flow!GoOn
  <2>. QED  BY <2>2 DEF Flow!Next
<1>4. CASE StartNextCycle(a)
  <2>1. /\ Stage = "CYCLE_OVER" /\ Stage' = "PREPARING" /\ turn' = Flow!NoTurns
    BY <1>4 DEF StartNextCycle, BeginCycle, EngineInv, RoomMatchesPhase, Stage,
                NoTurns, Flow!NoTurns, Player, Flow!Player
  <2>2. Playing' = Playing
    BY <1>1, <1>4 DEF StartNextCycle, BeginCycle, Playing, PlayingIn
  <2>3. Flow!NextCycle
    BY <2>1, <2>2 DEF Flow!NextCycle
  <2>. QED  BY <2>3 DEF Flow!Next
<1>5. CASE ForceResolvePhase(a)
  BY <1>5, FlowResolve DEF ForceResolvePhase
<1>6. ASSUME NEW p \in Player, KickPlayer(a, p)  PROVE [Flow!Next]_(Flow!vars)
  BY <1>6, FlowLeave DEF KickPlayer
<1>7. CASE StartNewGame(a)
  <2>1. Stage = "GAME_OVER" /\ Stage' = "LOBBY"
    BY <1>7 DEF StartNewGame, EngineInv, RoomMatchesPhase, Stage
  <2>2. Playing' = {} /\ turn' = Flow!NoTurns
    BY <1>7 DEF StartNewGame, Playing, NoTurns, Flow!NoTurns, Player, Flow!Player
  <2>3. Flow!Reset
    BY <2>1, <2>2 DEF Flow!Reset
  <2>. QED  BY <2>3 DEF Flow!Next
<1>. QED  BY <1>2, <1>3, <1>4, <1>5, <1>6, <1>7 DEF PrivilegedStep

LEMMA FlowStep == EngineInv /\ [Next]_vars => [Flow!Next]_(Flow!vars)
<1>. SUFFICES ASSUME EngineInv, [Next]_vars  PROVE [Flow!Next]_(Flow!vars)
  OBVIOUS
<1>1. ASSUME NEW p \in Player, PlayerStep(p)  PROVE [Flow!Next]_(Flow!vars)
  <2>1. CASE JoinRoom(p)
    BY <2>1, FlowStutter DEF JoinRoom
  <2>2. CASE LeaveRoom(p)
    BY <2>2, FlowLeave DEF LeaveRoom
  <2>. QED  BY <1>1, <2>1, <2>2, FlowSubmit DEF PlayerStep
<1>2. CASE TimeoutPhase
  BY <1>2, FlowResolve DEF TimeoutPhase
<1>3. ASSUME NEW m \in Meme, SetMemeEnabled(m)  PROVE [Flow!Next]_(Flow!vars)
  BY <1>3, FlowStutter DEF SetMemeEnabled
<1>4. CASE UNCHANGED vars
  BY <1>4, FlowStutter DEF vars
<1>. QED  BY <1>1, <1>2, <1>3, <1>4, FlowPrivileged DEF Next

LEMMA FlowInit == Init => Flow!Init
BY DEF Init, Flow!Init, Stage, Playing, NoTurns, Flow!NoTurns, Player, Flow!Player

(* The engine implements GameFlow for every number of players, every content *)
(* and all settings: in turn order, one round each, one at a time, and a     *)
(* cycle that ends when nobody is left to have a turn.                       *)
THEOREM EngineImplementsFlow == Spec => ImplementsFlow
<1>1. Spec => Flow!Init /\ [][Flow!Next]_(Flow!vars)
  BY FlowInit, FlowStep, EngineInvariant, PTL DEF Spec
<1>. QED  BY <1>1 DEF ImplementsFlow, Flow!Spec

(* What GameFlowProofs shows of the abstract game is so true of the engine.  *)
FlowFacts == INSTANCE GameFlowProofs WITH stage <- Stage, playing <- Playing

LEMMA FlowIsTheFlow == Flow!Spec => FlowFacts!Spec
<1>1. Flow!Init => FlowFacts!Init
  BY DEF Flow!Init, FlowFacts!Init, Flow!NoTurns, FlowFacts!NoTurns, Flow!Player, FlowFacts!Player
<1>2. [Flow!Next]_(Flow!vars) => [FlowFacts!Next]_(FlowFacts!vars)
  BY DEF Flow!Next, FlowFacts!Next, Flow!vars, FlowFacts!vars,
         Flow!Begin, FlowFacts!Begin, Flow!FirstRound, FlowFacts!FirstRound,
         Flow!Finish, FlowFacts!Finish, Flow!Cancel, FlowFacts!Cancel,
         Flow!GoOn, FlowFacts!GoOn, Flow!DropOut, FlowFacts!DropOut,
         Flow!NextCycle, FlowFacts!NextCycle, Flow!Reset, FlowFacts!Reset,
         Flow!MoveOn, FlowFacts!MoveOn, Flow!Open, FlowFacts!Open,
         Flow!Waiting, FlowFacts!Waiting, Flow!Remaining, FlowFacts!Remaining,
         Flow!NoTurns, FlowFacts!NoTurns, Flow!Player, FlowFacts!Player,
         Flow!Min, FlowFacts!Min
<1>. QED  BY <1>1, <1>2, PTL DEF Flow!Spec, FlowFacts!Spec

(* When a cycle ends everyone who still takes part has played their own      *)
(* round to its end: nextEligibleActivePlayer has passed nobody over.        *)
THEOREM EngineCyclesAreComplete == Spec => []CyclesAreComplete
<1>1. FlowFacts!Spec => []FlowFacts!CycleIsComplete
  BY SizesAssumption, FlowFacts!FlowCycleIsComplete DEF FlowFacts!Numbered
<1>2. FlowFacts!CycleIsComplete => CyclesAreComplete
  BY DEF FlowFacts!CycleIsComplete, CyclesAreComplete, Flow!CycleIsComplete
<1>. QED  BY <1>1, <1>2, EngineImplementsFlow, FlowIsTheFlow, PTL DEF ImplementsFlow

-----------------------------------------------------------------------------
(* The host.                                                               *)

(* Players join in the order of their numbers and are never forgotten. *)
JoinedInOrder ==
  \A p, q \in Player : q < p /\ member[p] # "OUT" => member[q] # "OUT"

HostInv == TypeOK /\ JoinedInOrder /\ HostIsOldest

LEMMA FirstOfPlayers ==
  ASSUME NEW S \in SUBSET Player, S # {}
  PROVE  Min(S) \in S /\ \A x \in S : (\A y \in S : x <= y) => x = Min(S)
<1>1. S \subseteq Nat
  BY PlayersAreNumbers
<1>2. Min(S) \in S /\ \A y \in S : Min(S) <= y
  BY <1>1, MinIsFirst
<1>3. ASSUME NEW x \in S, \A y \in S : x <= y  PROVE x = Min(S)
  <2>1. x <= Min(S) /\ Min(S) <= x
    BY <1>2, <1>3
  <2>2. x \in Nat /\ Min(S) \in Nat
    BY <1>1, <1>2
  <2>. QED  BY <2>1, <2>2
<1>. QED  BY <1>2, <1>3

LEMMA JoinHost ==
  ASSUME HostInv, TypeOK', NEW p \in Player, JoinRoom(p)
  PROVE  HostInv'
<1>1. /\ member \in [Player -> {"OUT", "IN", "LEFT"}]
      /\ role \in [Player -> {"HOST", "PLAYER"}]
      /\ member' = [member EXCEPT ![p] = "IN"]
      /\ role' = [role EXCEPT ![p] = IF Present = {} THEN "HOST" ELSE "PLAYER"]
      /\ member[p] = "OUT"
      /\ \A q \in Player : q < p => member[q] # "OUT"
  BY DEF JoinRoom, HostInv, TypeOK, Player
<1>2. Player \subseteq Nat
  BY PlayersAreNumbers
<1>3. JoinedInOrder'
  BY <1>1, <1>2 DEF JoinedInOrder, HostInv
<1>4. Present' = Present \cup {p} /\ p \notin Present /\ \A q \in Present : q < p
  BY <1>1, <1>2 DEF Present, JoinedInOrder, HostInv
<1>5. CASE Present = {}
  <2>1. Present' = {p} /\ role'[p] = "HOST"
    BY <1>1, <1>4, <1>5
  <2>2. Min(Present') = p
    BY <2>1, FirstOfPlayers
  <2>. QED  BY <1>3, <2>1, <2>2 DEF HostInv, HostIsOldest
<1>6. CASE Present # {}
  <2>1. Min(Present) \in Present /\ \A q \in Present : Min(Present) <= q
    BY <1>2, <1>6, MinIsFirst DEF Present
  <2>2. Min(Present') = Min(Present)
    <3>1. Present' \in SUBSET Player
      BY DEF Present
    <3>2. \A q \in Present' : Min(Present) <= q
      <4>1. Min(Present) \in Nat /\ p \in Nat /\ Min(Present) < p
        BY <1>2, <1>4, <2>1 DEF Present
      <4>. QED  BY <1>4, <2>1, <4>1
    <3>. QED  BY <1>4, <2>1, <3>1, <3>2, FirstOfPlayers
  <2>3. \A q \in Present' : role'[q] = "HOST" <=> q = Min(Present)
    BY <1>1, <1>4, <1>6, <2>1 DEF HostInv, HostIsOldest, Present
  <2>. QED  BY <1>3, <2>2, <2>3 DEF HostInv, HostIsOldest
<1>. QED  BY <1>5, <1>6

LEMMA LeaveHost ==
  ASSUME HostInv, TypeOK', NEW p \in Player, ApplyLeave(p)
  PROVE  HostInv'
<1>1. /\ member \in [Player -> {"OUT", "IN", "LEFT"}]
      /\ role \in [Player -> {"HOST", "PLAYER"}]
      /\ p \in Present
      /\ member' = [member EXCEPT ![p] = "LEFT"]
      /\ role' = RoleAfterLeave(p)
  BY DEF ApplyLeave, HostInv, TypeOK
<1>2. Player \subseteq Nat
  BY PlayersAreNumbers
<1>3. JoinedInOrder'
  BY <1>1 DEF JoinedInOrder, HostInv, Present
<1>4. Present' = Present \ {p} /\ Present \in SUBSET Player
  BY <1>1 DEF Present
<1>5. CASE Present \ {p} = {}
  BY <1>3, <1>4, <1>5 DEF HostInv, HostIsOldest
<1>6. CASE Present \ {p} # {} /\ role[p] = "HOST"
  <2>1. \A q \in Present \ {p} : role'[q] = IF q = Min(Present \ {p}) THEN "HOST" ELSE "PLAYER"
    BY <1>1, <1>4, <1>6 DEF RoleAfterLeave, TransferHost
  <2>. QED  BY <1>3, <1>4, <2>1 DEF HostInv, HostIsOldest
<1>7. CASE Present \ {p} # {} /\ role[p] # "HOST"
  <2>1. role' = role /\ p # Min(Present)
    BY <1>1, <1>7 DEF RoleAfterLeave, HostInv, HostIsOldest
  <2>2. Min(Present) \in Present /\ \A q \in Present : Min(Present) <= q
    BY <1>1, <1>2, <1>4, MinIsFirst
  <2>3. Min(Present \ {p}) = Min(Present)
    BY <1>4, <1>7, <2>1, <2>2, FirstOfPlayers
  <2>. QED  BY <1>3, <1>4, <2>1, <2>3 DEF HostInv, HostIsOldest
<1>. QED  BY <1>5, <1>6, <1>7

LEMMA HostStep == HostInv /\ [Next]_vars => HostInv'
<1>. SUFFICES ASSUME HostInv, [Next]_vars  PROVE HostInv'
  OBVIOUS
<1>1. TypeOK'
  BY TypeStep DEF HostInv
<1>2. CASE UNCHANGED <<member, role>>
  BY <1>1, <1>2 DEF HostInv, JoinedInOrder, HostIsOldest, Present
<1>3. ASSUME NEW p \in Player, PlayerStep(p)  PROVE HostInv'
  <2>1. CASE JoinRoom(p)
    BY <1>1, <2>1, JoinHost
  <2>2. CASE LeaveRoom(p)
    BY <1>1, <2>2, LeaveHost DEF LeaveRoom
  <2>3. CASE \/ \E m \in Meme : SubmitPreparation(p, m) \/ SubmitRoundMeme(p, m)
             \/ \E o \in Player : SubmitVote(p, o)
    BY <1>2, <2>3 DEF SubmitPreparation, SubmitRoundMeme, SubmitVote
  <2>. QED  BY <1>3, <2>1, <2>2, <2>3 DEF PlayerStep
<1>4. ASSUME NEW a \in Actors, PrivilegedStep(a)  PROVE HostInv'
  <2>1. ASSUME NEW p \in Player, KickPlayer(a, p)  PROVE HostInv'
    BY <1>1, <2>1, LeaveHost DEF KickPlayer
  <2>. QED
    BY <1>2, <1>4, <2>1 DEF PrivilegedStep, StartGame, NextRound, StartNextCycle,
                            ForceResolvePhase, ResolvePhase, StartNewGame
<1>. QED
  BY <1>2, <1>3, <1>4 DEF Next, TimeoutPhase, ResolvePhase, SetMemeEnabled, vars

(* The room has one host among those present, and it is whoever of them     *)
(* joined first: through every leave, kick, transfer and reset.             *)
THEOREM EngineHostIsOldest == Spec => []HostIsOldest
<1>1. Init => HostInv
  BY TypeInit DEF Init, HostInv, JoinedInOrder, HostIsOldest, Present
<1>2. HostInv => HostIsOldest
  BY DEF HostInv
<1>. QED  BY <1>1, <1>2, HostStep, PTL DEF Spec

-----------------------------------------------------------------------------
(* The votes and the scores.                                               *)

(* What can happen while a round is voted on: a vote, the results of the   *)
(* votes cast, or something that concerns neither.                         *)
VotesGrow(vt) == \A p \in Player : votes[p] # NoPlayer => vt[p] = votes[p]

VotingGoesOn ==
  \/ UNCHANGED <<phase, ballot, votes, score>>
  \/ \E vt : /\ VotesGrow(vt)
             /\ \/ AdvanceToRoundResults(vt)
                \/ votes' = vt /\ UNCHANGED <<phase, ballot, score>>

LEMMA ResultsOfTheseVotes ==
  ASSUME AdvanceToRoundResults(votes)
  PROVE  VotingGoesOn
<1>1. VotesGrow(votes)
  BY DEF VotesGrow
<1>. QED  BY <1>1 DEF VotingGoesOn

LEMMA LeaveWhileVoting ==
  ASSUME phase = "ROUND_VOTING", NEW p \in Player, ApplyLeave(p)
  PROVE  VotingGoesOn
<1>1. LeaveVoting(p)
  BY DEF ApplyLeave, LeavePreparation, LeaveOwnRound, LeaveSelection, LeaveBetweenRounds,
         OpenPhases
<1>2. CASE AdvanceToRoundResults(votes)
  BY <1>2, ResultsOfTheseVotes
<1>3. CASE UNCHANGED <<phase, score, roundVars>>
  BY <1>3 DEF VotingGoesOn, roundVars
<1>. QED  BY <1>1, <1>2, <1>3 DEF LeaveVoting

LEMMA ResolveWhileVoting ==
  ASSUME phase = "ROUND_VOTING", ResolvePhase
  PROVE  VotingGoesOn
<1>1. AdvanceToRoundResults(votes)
  BY DEF ResolvePhase, ResolvePreparation, ResolveSelection, ResolveVoting
<1>. QED  BY <1>1, ResultsOfTheseVotes

LEMMA VoteWhileVoting ==
  ASSUME TypeOK, NEW p \in Player, NEW o \in Player, SubmitVote(p, o)
  PROVE  VotingGoesOn
<1> DEFINE vt == [votes EXCEPT ![p] = o]
<1>1. VotesGrow(vt)
  BY DEF SubmitVote, VotesGrow, TypeOK
<1>2. \/ AdvanceToRoundResults(vt)
      \/ votes' = vt /\ UNCHANGED <<phase, ballot, score>>
  BY DEF SubmitVote
<1>. QED  BY <1>1, <1>2 DEF VotingGoesOn

LEMMA VotingStep ==
  ASSUME EngineInv, phase = "ROUND_VOTING", [Next]_vars
  PROVE  VotingGoesOn
<1>1. TypeOK /\ roomState = "IN_GAME"
  BY DEF EngineInv, TypeOK, RoomMatchesPhase
<1>2. ASSUME NEW p \in Player, PlayerStep(p)  PROVE VotingGoesOn
  <2>1. \/ \E o \in Player : SubmitVote(p, o)
        \/ LeaveRoom(p)
    BY <1>1, <1>2 DEF PlayerStep, JoinRoom, SubmitPreparation, SubmitRoundMeme
  <2>. QED  BY <1>1, <2>1, VoteWhileVoting, LeaveWhileVoting DEF LeaveRoom
<1>3. ASSUME NEW a \in Actors, PrivilegedStep(a)  PROVE VotingGoesOn
  <2>1. \/ ForceResolvePhase(a)
        \/ \E p \in Player : KickPlayer(a, p)
    BY <1>1, <1>3 DEF PrivilegedStep, StartGame, NextRound, StartNextCycle, StartNewGame
  <2>. QED  BY <2>1, ResolveWhileVoting, LeaveWhileVoting DEF ForceResolvePhase, KickPlayer
<1>4. CASE TimeoutPhase
  BY <1>4, ResolveWhileVoting DEF TimeoutPhase
<1>5. CASE UNCHANGED <<phase, score, roundVars>>
  BY <1>5 DEF VotingGoesOn, roundVars
<1>. QED  BY <1>2, <1>3, <1>4, <1>5 DEF Next, SetMemeEnabled, vars, roundVars

(* Once voting has begun the ballot and the votes cast do not change, and   *)
(* the results are made of exactly those.                                   *)
THEOREM EngineBallotFrozen == Spec => BallotFrozen
<1> DEFINE Frozen == phase = "ROUND_VOTING" =>
              /\ phase' \in {"ROUND_VOTING", "ROUND_RESULTS"}
              /\ ballot' = ballot
              /\ \A p \in Player : votes[p] # NoPlayer => votes'[p] = votes[p]
<1>1. EngineInv /\ [Next]_vars => [Frozen]_vars
  <2>. SUFFICES ASSUME EngineInv, phase = "ROUND_VOTING", [Next]_vars
                PROVE  Frozen
    OBVIOUS
  <2>1. VotingGoesOn
    BY VotingStep
  <2>. QED  BY <2>1 DEF VotingGoesOn, VotesGrow, AdvanceToRoundResults
<1>2. Spec => [][Frozen]_vars
  BY <1>1, EngineInvariant, PTL DEF Spec
<1>. QED  BY <1>2 DEF BallotFrozen

(* Outside ROUND_VOTING a game in progress moves no score. *)
LEMMA ScoresStay ==
  ASSUME EngineInv, roomState = "IN_GAME", phase # "ROUND_VOTING", [Next]_vars
  PROVE  UNCHANGED score
<1>1. ASSUME NEW p \in Player, ApplyLeave(p)  PROVE UNCHANGED score
  BY <1>1 DEF ApplyLeave, LeavePreparation, LeaveOwnRound, LeaveSelection, LeaveVoting,
              LeaveBetweenRounds, AdvanceToRoundSelection, AdvanceToRoundVoting,
              NextRoundOrFinish, FinishCycle
<1>2. ASSUME ResolvePhase  PROVE UNCHANGED score
  BY <1>2 DEF ResolvePhase, ResolvePreparation, ResolveSelection, ResolveVoting,
              AdvanceToRoundSelection, AdvanceToRoundVoting
<1>3. ASSUME NEW p \in Player, PlayerStep(p)  PROVE UNCHANGED score
  BY <1>1, <1>3 DEF PlayerStep, LeaveRoom, JoinRoom, SubmitPreparation, SubmitRoundMeme,
              SubmitVote, AdvanceToRoundSelection, AdvanceToRoundVoting
<1>4. ASSUME NEW a \in Actors, PrivilegedStep(a)  PROVE UNCHANGED score
  BY <1>1, <1>2, <1>4 DEF PrivilegedStep, StartGame, NextRound, StartNextCycle, StartNewGame,
              ForceResolvePhase, KickPlayer, NextRoundOrFinish, FinishCycle
<1>. QED  BY <1>2, <1>3, <1>4 DEF Next, TimeoutPhase, SetMemeEnabled, vars

(* The results move the scores of the active player and of those who voted. *)
LEMMA ResultsPay ==
  ASSUME TypeOK, NEW vt, AdvanceToRoundResults(vt), NEW p \in Player, score'[p] # score[p]
  PROVE  p = current \/ votes'[p] # NoPlayer
<1> DEFINE delta == CalculateRound(RoundFacts(vt), ScoreConfig)
<1>1. DOMAIN delta \subseteq {current} \cup {q \in Player : vt[q] # NoPlayer}
  BY DEF CalculateRound, RoundFacts
<1>2. votes' = vt
      /\ score' = [q \in Player |-> IF q \in DOMAIN delta /\ status[q] # "NONE"
                                    THEN score[q] + delta[q] ELSE score[q]]
  BY DEF AdvanceToRoundResults
<1>. HIDE DEF delta
<1>3. p \in DOMAIN delta
  BY <1>2
<1>. QED  BY <1>1, <1>2, <1>3

(* Points change hands once per round, when its voting ends, and only for   *)
(* its active player and those who voted in it.                             *)
THEOREM EngineScoresSettleOnce == Spec => ScoresSettleOnce
<1> DEFINE Settled == roomState = "IN_GAME" =>
              \A p \in Player : score'[p] # score[p] =>
                 /\ phase = "ROUND_VOTING" /\ phase' = "ROUND_RESULTS"
                 /\ p = current \/ votes'[p] # NoPlayer
<1>1. EngineInv /\ [Next]_vars => [Settled]_vars
  <2>. SUFFICES ASSUME EngineInv, roomState = "IN_GAME", [Next]_vars,
                       NEW p \in Player, score'[p] # score[p]
                PROVE  /\ phase = "ROUND_VOTING" /\ phase' = "ROUND_RESULTS"
                       /\ p = current \/ votes'[p] # NoPlayer
    OBVIOUS
  <2>1. phase = "ROUND_VOTING"
    BY ScoresStay
  <2>2. PICK vt : AdvanceToRoundResults(vt)
    BY <2>1, VotingStep DEF VotingGoesOn
  <2>3. phase' = "ROUND_RESULTS"
    BY <2>2 DEF AdvanceToRoundResults
  <2>. QED  BY <2>1, <2>2, <2>3, ResultsPay DEF EngineInv
<1>2. Spec => [][Settled]_vars
  BY <1>1, EngineInvariant, PTL DEF Spec
<1>. QED  BY <1>2 DEF ScoresSettleOnce

-----------------------------------------------------------------------------
(* The hands.  A ballot gives nobody away because of what was dealt before  *)
(* it: the hands of a round are disjoint and hold no original of the cycle, *)
(* the originals come from disjoint hands as well, and whatever stands on a *)
(* ballot is its owner's original or comes from its owner's hand.           *)

HandsApart(hands) == \A p, q \in Player : p # q => hands[p] \cap hands[q] = {}

HandsAreSecret ==
  /\ HandsApart(prepHand) /\ HandsApart(roundHand)
  /\ \A p \in Player : prepared[p] # NoMeme => prepared[p] \in prepHand[p]
  /\ \A p \in Player : roundHand[p] \cap Originals(prepared) = {}
  /\ \A p \in Player : p = current => roundHand[p] = {}

BallotFromHands ==
  /\ \A p \in Player : submitted[p] # NoMeme => submitted[p] \in roundHand[p]
  /\ \A p \in Player : ballot[p] # NoMeme =>
       IF p = current THEN ballot[p] = prepared[p] ELSE ballot[p] \in roundHand[p]

TableIsClear ==
  phase \in {"NONE", "PREPARATION"} =>
    roundHand = NoHands /\ submitted = NoMemes /\ ballot = NoMemes

RoundIsDealt ==
  /\ phase \in {"ROUND_SELECTION", "ROUND_VOTING"} => prepared[current] # NoMeme
  /\ phase = "ROUND_SELECTION" =>
       votes = NoVotes /\ \A p \in ActiveIn(status) \ {current} : roundHand[p] # {}
  /\ phase = "ROUND_VOTING" => \A p \in ActiveIn(status) : ballot[p] # NoMeme

DealInv == HandsAreSecret /\ BallotFromHands /\ TableIsClear /\ RoundIsDealt

(* What is dealt comes from the pool, each meme to one player. *)
LEMMA DealtApart ==
  ASSUME NEW ps \in SUBSET Player, NEW pool \in SUBSET Meme, NEW deal \in Deals(ps, pool)
  PROVE  /\ HandsApart(HandsFor(deal))
         /\ \A p \in Player : HandsFor(deal)[p] \subseteq pool
                            /\ (p \notin ps => HandsFor(deal)[p] = {})
<1>1. /\ deal \in [ps -> kSubset(HandSize, pool)]
      /\ \A p, q \in ps : p # q => deal[p] \cap deal[q] = {}
  BY DEF Deals
<1>2. \A s \in kSubset(HandSize, pool) : s \subseteq pool
  BY DEF kSubset
<1>. QED  BY <1>1, <1>2 DEF HandsFor, HandsApart

LEMMA StartRoundDeals ==
  ASSUME TypeOK, TypeOK', NEW p \in Player, NEW st \in [Player -> Statuses], NEW tn,
         NEW prep \in PlayerMemes, StartRound(p, st, tn, prep),
         UNCHANGED prepHand, HandsApart(prepHand),
         \A q \in Player : prep[q] # NoMeme => prep[q] \in prepHand[q]
  PROVE  DealInv'
<1> DEFINE ps == ActiveIn(ResetSkipped(st)) \ {p}
           pool == RoundPool(p, prep)
<1>1. /\ phase' = "ROUND_SELECTION" /\ current' = p /\ prepared' = prep
      /\ prep[p] # NoMeme /\ status' = ResetSkipped(st)
      /\ submitted' = NoMemes /\ ballot' = NoMemes /\ votes' = NoVotes
  BY DEF StartRound
<1>2. PICK deal \in Deals(ps, pool) : roundHand' = HandsFor(deal)
  BY DEF StartRound
<1>3. ps \in SUBSET Player /\ pool \in SUBSET Meme /\ pool \cap Originals(prep) = {}
  BY DEF ActiveIn, RoundPool, TypeOK
<1>4. p \notin ps /\ \A q \in ActiveIn(status') \ {p} : q \in ps
  BY <1>1 DEF ActiveIn
<1>. HIDE DEF ps, pool
<1>5. /\ HandsApart(roundHand')
      /\ \A q \in Player : roundHand'[q] \subseteq pool /\ (q \notin ps => roundHand'[q] = {})
      /\ \A q \in ps : roundHand'[q] # {}
  <2>1. \A q \in ps : HandsFor(deal)[q] # {}
    BY <1>2, <1>3, DealtHands
  <2>2. /\ HandsApart(HandsFor(deal))
        /\ \A q \in Player : HandsFor(deal)[q] \subseteq pool /\ (q \notin ps => HandsFor(deal)[q] = {})
    BY <1>2, <1>3, DealtApart
  <2>. QED  BY <1>2, <2>1, <2>2
<1>6. HandsAreSecret'
  BY <1>1, <1>3, <1>4, <1>5 DEF HandsAreSecret, HandsApart, Originals
<1>7. BallotFromHands' /\ TableIsClear'
  BY <1>1 DEF BallotFromHands, TableIsClear, NoMemes
<1>8. RoundIsDealt'
  BY <1>1, <1>4, <1>5 DEF RoundIsDealt, ActiveIn
<1>. QED  BY <1>6, <1>7, <1>8 DEF DealInv

LEMMA NextRoundOrFinishDeals ==
  ASSUME EngineInv, TypeOK', DealInv, NEW st \in [Player -> Statuses], NEW tn,
         NextRoundOrFinish(st, tn)
  PROVE  DealInv'
<1>1. CASE Eligible(st, tn) # {}
  <2>1. /\ StartRound(NextEligible(st, tn), st, tn, prepared) /\ UNCHANGED prepHand
        /\ TypeOK /\ prepared \in PlayerMemes
        /\ NextEligible(st, tn) \in Player
    BY <1>1, NextEligiblePlayer DEF NextRoundOrFinish, EngineInv, TypeOK, PlayerMemes
  <2>2. HandsApart(prepHand) /\ \A q \in Player : prepared[q] # NoMeme => prepared[q] \in prepHand[q]
    BY DEF DealInv, HandsAreSecret
  <2>. QED  BY <2>1, <2>2, StartRoundDeals
<1>2. CASE Eligible(st, tn) = {}
  <2>1. /\ phase' \in {"CYCLE_RESULTS", "GAME_RESULTS"}
        /\ UNCHANGED <<prepHand, prepared, current, roundHand, submitted, ballot>>
    BY <1>2 DEF NextRoundOrFinish, FinishCycle
  <2>. QED
    BY <2>1 DEF DealInv, HandsAreSecret, BallotFromHands, TableIsClear, RoundIsDealt,
                HandsApart, Originals
<1>. QED  BY <1>1, <1>2

LEMMA AdvanceToRoundSelectionDeals ==
  ASSUME EngineInv, TypeOK', DealInv, NEW st \in [Player -> Statuses],
         NEW prep \in PlayerMemes, AdvanceToRoundSelection(st, prep),
         \A q \in Player : prep[q] # NoMeme => prep[q] \in prepHand[q]
  PROVE  DealInv'
<1>1. /\ StartRound(NextEligible(st, turn), st, turn, prep) /\ UNCHANGED prepHand
      /\ TypeOK /\ NextEligible(st, turn) \in Player /\ HandsApart(prepHand)
  BY NextEligiblePlayer DEF AdvanceToRoundSelection, EngineInv, DealInv, HandsAreSecret
<1>. QED  BY <1>1, StartRoundDeals

LEMMA AdvanceToRoundVotingDeals ==
  ASSUME EngineInv, TypeOK', DealInv, phase = "ROUND_SELECTION",
         NEW sub \in PlayerMemes, AdvanceToRoundVoting(sub),
         \A q \in Player : sub[q] # NoMeme => sub[q] \in roundHand[q],
         \A q \in ActiveIn(status') \ {current} : sub[q] # NoMeme
  PROVE  DealInv'
<1>1. /\ phase' = "ROUND_VOTING" /\ submitted' = sub
      /\ ballot' = [sub EXCEPT ![current] = prepared[current]]
      /\ UNCHANGED <<prepHand, prepared, current, roundHand>>
  BY DEF AdvanceToRoundVoting
<1>2. current \in Player /\ prepared[current] # NoMeme
  BY DEF EngineInv, RoundIsOpen, DealInv, RoundIsDealt
<1>3. \A q \in Player : ballot'[q] = IF q = current THEN prepared[current] ELSE sub[q]
  BY <1>1 DEF PlayerMemes
<1>4. HandsAreSecret' /\ TableIsClear'
  BY <1>1 DEF DealInv, HandsAreSecret, HandsApart, Originals, TableIsClear
<1>5. BallotFromHands'
  BY <1>1, <1>3 DEF BallotFromHands
<1>6. RoundIsDealt'
  BY <1>1, <1>2, <1>3 DEF RoundIsDealt, ActiveIn
<1>. QED  BY <1>4, <1>5, <1>6 DEF DealInv

LEMMA AdvanceToRoundResultsDeals ==
  ASSUME DealInv, NEW vt, AdvanceToRoundResults(vt)
  PROVE  DealInv'
<1>1. /\ phase' = "ROUND_RESULTS"
      /\ UNCHANGED <<prepHand, prepared, current, roundHand, submitted, ballot>>
  BY DEF AdvanceToRoundResults
<1>. QED
  BY <1>1 DEF DealInv, HandsAreSecret, BallotFromHands, TableIsClear, RoundIsDealt,
              HandsApart, Originals

LEMMA NothingPrepared == Originals(NoMemes) = {} /\ HandsApart(NoHands)
BY DEF Originals, NoMemes, HandsApart, NoHands

LEMMA BeginCycleDeals ==
  ASSUME TypeOK, NEW st \in [Player -> Statuses], NEW n, BeginCycle(st, n)
  PROVE  DealInv'
<1>1. /\ phase' = "PREPARATION" /\ prepared' = NoMemes /\ roundHand' = NoHands
      /\ submitted' = NoMemes /\ ballot' = NoMemes
  BY DEF BeginCycle
<1>2. HandsApart(prepHand')
  <2>1. PICK deal \in Deals(ActiveIn(st), enabled) : prepHand' = HandsFor(deal)
    BY DEF BeginCycle
  <2>2. ActiveIn(st) \in SUBSET Player /\ enabled \in SUBSET Meme
    BY DEF ActiveIn, TypeOK
  <2>. QED  BY <2>1, <2>2, DealtApart
<1>3. HandsAreSecret'
  BY <1>1, <1>2, NothingPrepared DEF HandsAreSecret, HandsApart, NoMemes, NoHands
<1>4. BallotFromHands' /\ TableIsClear' /\ RoundIsDealt'
  BY <1>1 DEF BallotFromHands, TableIsClear, RoundIsDealt, NoMemes
<1>. QED  BY <1>3, <1>4 DEF DealInv

(* A step within a phase: prepared turns change in PREPARATION, submissions *)
(* come from the hands, and people leave.                                   *)
LEMMA SamePhaseDeals ==
  ASSUME DealInv, TypeOK, TypeOK',
         UNCHANGED <<phase, current, prepHand, roundHand, ballot>>,
         \A q \in Player : prepared'[q] # NoMeme => prepared'[q] \in prepHand[q],
         phase # "PREPARATION" => UNCHANGED prepared,
         \A q \in Player : submitted'[q] # NoMeme => submitted'[q] \in roundHand[q],
         phase = "ROUND_SELECTION" => UNCHANGED votes,
         \A q \in Player : status'[q] = "ACTIVE" => status[q] = "ACTIVE"
  PROVE  DealInv'
<1>1. HandsAreSecret'
  <2>1. \A q \in Player : roundHand[q] \cap Originals(prepared') = {}
    BY DEF DealInv, HandsAreSecret, TableIsClear, NoHands
  <2>. QED  BY <2>1 DEF DealInv, HandsAreSecret, HandsApart, Originals
<1>2. BallotFromHands'
  BY DEF DealInv, BallotFromHands, TableIsClear, NoMemes
<1>3. TableIsClear'
  <2>1. ASSUME roundHand = NoHands  PROVE submitted' = NoMemes
    BY <2>1 DEF NoHands, NoMemes, TypeOK
  <2>. QED  BY <2>1 DEF DealInv, TableIsClear
<1>4. RoundIsDealt'
  BY DEF DealInv, RoundIsDealt, ActiveIn
<1>. QED  BY <1>1, <1>2, <1>3, <1>4 DEF DealInv

(* What is known of the types wherever a command is looked at. *)
LEMMA AggregateTypes ==
  ASSUME TypeOK
  PROVE  /\ status \in [Player -> Statuses] /\ turn \in [Player -> Turns]
         /\ prepared \in PlayerMemes /\ submitted \in PlayerMemes
         /\ \A p \in Player : prepHand[p] \subseteq Meme /\ roundHand[p] \subseteq Meme
BY DEF TypeOK, Statuses, Turns, PlayerMemes

LEMMA SubmitDeals ==
  ASSUME EngineInv, TypeOK', DealInv, NEW p \in Player,
         \/ \E m \in Meme : SubmitPreparation(p, m)
         \/ \E m \in Meme : SubmitRoundMeme(p, m)
         \/ \E o \in Player : SubmitVote(p, o)
  PROVE  DealInv'
<1>1. /\ TypeOK /\ status \in [Player -> Statuses]
      /\ prepared \in PlayerMemes /\ submitted \in PlayerMemes
      /\ \A q \in Player : prepared[q] # NoMeme => prepared[q] \in prepHand[q]
      /\ \A q \in Player : submitted[q] # NoMeme => submitted[q] \in roundHand[q]
  BY AggregateTypes DEF EngineInv, DealInv, HandsAreSecret, BallotFromHands
<1>2. ASSUME NEW m \in Meme, SubmitPreparation(p, m)  PROVE DealInv'
  <2> DEFINE prep == [prepared EXCEPT ![p] = m]
  <2>1. /\ prep \in PlayerMemes /\ phase = "PREPARATION"
        /\ \A q \in Player : prep[q] # NoMeme => prep[q] \in prepHand[q]
    BY <1>1, <1>2 DEF SubmitPreparation, PlayerMemes
  <2>2. CASE AdvanceToRoundSelection(status, prep)
    <3>. HIDE DEF prep
    <3>. QED  BY <1>1, <2>1, <2>2, AdvanceToRoundSelectionDeals
  <2>3. CASE prepared' = prep /\ UNCHANGED <<phase, status, prepHand, current, roundHand, roundVars>>
    <3>. HIDE DEF prep
    <3>. QED  BY <1>1, <2>1, <2>3, SamePhaseDeals DEF roundVars
  <2>. QED  BY <1>2, <2>2, <2>3 DEF SubmitPreparation
<1>3. ASSUME NEW m \in Meme, SubmitRoundMeme(p, m)  PROVE DealInv'
  <2> DEFINE sub == [submitted EXCEPT ![p] = m]
  <2>1. /\ sub \in PlayerMemes /\ phase = "ROUND_SELECTION" /\ UNCHANGED status
        /\ \A q \in Player : sub[q] # NoMeme => sub[q] \in roundHand[q]
    BY <1>1, <1>3 DEF SubmitRoundMeme, PlayerMemes
  <2>2. CASE AllNonActiveSubmitted(status, sub) /\ AdvanceToRoundVoting(sub)
    <3>1. \A q \in ActiveIn(status') \ {current} : sub[q] # NoMeme
      BY <2>1, <2>2 DEF AllNonActiveSubmitted
    <3>. HIDE DEF sub
    <3>. QED  BY <2>1, <2>2, <3>1, AdvanceToRoundVotingDeals
  <2>3. CASE submitted' = sub /\ UNCHANGED <<phase, handVars, current, ballot, votes>>
    <3>. HIDE DEF sub
    <3>. QED  BY <1>1, <2>1, <2>3, SamePhaseDeals DEF handVars
  <2>. QED  BY <1>3, <2>2, <2>3 DEF SubmitRoundMeme
<1>4. ASSUME NEW o \in Player, SubmitVote(p, o)  PROVE DealInv'
  <2>1. CASE AdvanceToRoundResults([votes EXCEPT ![p] = o])
    BY <2>1, AdvanceToRoundResultsDeals
  <2>2. CASE UNCHANGED <<phase, handVars, current, submitted, ballot>>
    <3>1. phase = "ROUND_VOTING" /\ UNCHANGED status
      BY <1>4 DEF SubmitVote
    <3>. QED  BY <1>1, <2>2, <3>1, SamePhaseDeals DEF handVars
  <2>. QED  BY <1>4, <2>1, <2>2 DEF SubmitVote
<1>. QED  BY <1>2, <1>3, <1>4

(* A late meme comes from its player's hand like any other. *)
LEMMA FilledFromHands ==
  ASSUME NEW f \in PlayerMemes, NEW hands \in PlayerHands, NEW ps,
         \A q \in Player : f[q] # NoMeme => f[q] \in hands[q],
         NEW g \in Filled(f, ps, hands)
  PROVE  /\ g \in PlayerMemes
         /\ \A q \in Player : g[q] # NoMeme => g[q] \in hands[q]
         /\ \A q \in Player : (q \in ps => hands[q] # {}) /\ (q \notin ps => f[q] # NoMeme)
                             => g[q] # NoMeme
<1>1. g \in PlayerMemes
  BY DEF Filled, PlayerMemes
<1>2. \A q \in Player : IF q \in ps /\ hands[q] # {} THEN g[q] \in hands[q] ELSE g[q] = f[q]
  BY DEF Filled
<1>3. \A q \in Player : NoMeme \notin hands[q]
  BY ContentAssumption DEF PlayerHands
<1>. QED  BY <1>1, <1>2, <1>3

LEMMA ResolveDeals ==
  ASSUME EngineInv, TypeOK', DealInv, ResolvePhase
  PROVE  DealInv'
<1>1. /\ TypeOK /\ status \in [Player -> Statuses]
      /\ prepared \in PlayerMemes /\ submitted \in PlayerMemes
      /\ prepHand \in PlayerHands /\ roundHand \in PlayerHands
      /\ \A q \in Player : prepared[q] # NoMeme => prepared[q] \in prepHand[q]
      /\ \A q \in Player : submitted[q] # NoMeme => submitted[q] \in roundHand[q]
  BY AggregateTypes DEF EngineInv, DealInv, HandsAreSecret, BallotFromHands, TypeOK, PlayerHands
<1>2. CASE ResolvePreparation
  <2> DEFINE late == {q \in ActiveIn(status) : prepared[q] = NoMeme}
  <2>1. PICK prep \in Filled(prepared, late, prepHand) : AdvanceToRoundSelection(status, prep)
    BY <1>2 DEF ResolvePreparation, LatePreparations
  <2>. HIDE DEF late
  <2>2. prep \in PlayerMemes /\ \A q \in Player : prep[q] # NoMeme => prep[q] \in prepHand[q]
    BY <1>1, FilledFromHands
  <2>. QED  BY <1>1, <2>1, <2>2, AdvanceToRoundSelectionDeals
<1>3. CASE ResolveSelection
  <2> DEFINE late == {q \in ActiveIn(status) \ {current} : submitted[q] = NoMeme}
  <2>1. /\ phase = "ROUND_SELECTION" /\ UNCHANGED status
        /\ \E sub \in Filled(submitted, late, roundHand) : AdvanceToRoundVoting(sub)
    BY <1>3 DEF ResolveSelection
  <2>2. PICK sub \in Filled(submitted, late, roundHand) : AdvanceToRoundVoting(sub)
    BY <2>1
  <2>3. \A q \in ActiveIn(status) \ {current} :
          q \in Player /\ roundHand[q] # {} /\ (q \notin late => submitted[q] # NoMeme)
    BY <2>1 DEF DealInv, RoundIsDealt, ActiveIn
  <2>. HIDE DEF late
  <2>4. sub \in PlayerMemes /\ \A q \in Player : sub[q] # NoMeme => sub[q] \in roundHand[q]
    BY <1>1, FilledFromHands
  <2>5. \A q \in ActiveIn(status) \ {current} : sub[q] # NoMeme
    BY <1>1, <2>3, FilledFromHands
  <2>. QED  BY <2>1, <2>2, <2>4, <2>5, AdvanceToRoundVotingDeals
<1>4. CASE ResolveVoting
  BY <1>4, AdvanceToRoundResultsDeals DEF ResolveVoting
<1>. QED  BY <1>2, <1>3, <1>4 DEF ResolvePhase

LEMMA LeaveDeals ==
  ASSUME EngineInv, TypeOK', DealInv, NEW p \in Player, ApplyLeave(p)
  PROVE  DealInv'
<1>1. /\ TypeOK /\ Dropped(p) \in [Player -> Statuses]
      /\ prepared \in PlayerMemes /\ submitted \in PlayerMemes
      /\ \A q \in Player : prepared[q] # NoMeme => prepared[q] \in prepHand[q]
      /\ \A q \in Player : submitted[q] # NoMeme => submitted[q] \in roundHand[q]
      /\ \A q \in Player : Dropped(p)[q] = "ACTIVE" => status[q] = "ACTIVE"
  <2>1. \A q \in Player : Dropped(p)[q] = "ACTIVE" => status[q] = "ACTIVE"
    BY DEF Dropped, EngineInv, TypeOK
  <2>. QED
    BY <2>1, AggregateTypes, DroppedType
    DEF EngineInv, DealInv, HandsAreSecret, BallotFromHands
<1>2. CASE LeavePreparation(p)
  <2> DEFINE prep == [prepared EXCEPT ![p] = NoMeme]
  <2>1. /\ prep \in PlayerMemes /\ phase = "PREPARATION"
        /\ \A q \in Player : prep[q] # NoMeme => prep[q] \in prepHand[q]
    BY <1>1, <1>2 DEF LeavePreparation, PlayerMemes
  <2>2. CASE AdvanceToRoundSelection(Dropped(p), prep)
    <3>. HIDE DEF prep
    <3>. QED  BY <1>1, <2>1, <2>2, AdvanceToRoundSelectionDeals
  <2>3. CASE /\ status' = Dropped(p) /\ prepared' = prep
             /\ UNCHANGED <<phase, prepHand, current, roundHand, roundVars>>
    <3>. HIDE DEF prep
    <3>. QED  BY <1>1, <2>1, <2>3, SamePhaseDeals DEF roundVars
  <2>. QED  BY <1>2, <2>2, <2>3 DEF LeavePreparation
<1>3. CASE LeaveOwnRound(p)
  BY <1>1, <1>3, NextRoundOrFinishDeals DEF LeaveOwnRound
<1>4. CASE LeaveSelection(p)
  <2> DEFINE sub == [submitted EXCEPT ![p] = NoMeme]
  <2>1. /\ sub \in PlayerMemes /\ phase = "ROUND_SELECTION" /\ status' = Dropped(p)
        /\ \A q \in Player : sub[q] # NoMeme => sub[q] \in roundHand[q]
    BY <1>1, <1>4 DEF LeaveSelection, PlayerMemes
  <2>2. CASE AllNonActiveSubmitted(Dropped(p), sub) /\ AdvanceToRoundVoting(sub)
    <3>1. \A q \in ActiveIn(status') \ {current} : sub[q] # NoMeme
      BY <2>1, <2>2 DEF AllNonActiveSubmitted
    <3>. HIDE DEF sub
    <3>. QED  BY <2>1, <2>2, <3>1, AdvanceToRoundVotingDeals
  <2>3. CASE submitted' = sub /\ UNCHANGED <<phase, handVars, current, ballot, votes>>
    <3>. HIDE DEF sub
    <3>. QED  BY <1>1, <2>1, <2>3, SamePhaseDeals DEF handVars
  <2>. QED  BY <1>4, <2>2, <2>3 DEF LeaveSelection
<1>5. CASE LeaveVoting(p)
  <2>1. CASE AdvanceToRoundResults(votes)
    BY <2>1, AdvanceToRoundResultsDeals
  <2>2. CASE status' = Dropped(p) /\ UNCHANGED <<phase, handVars, current, roundVars>>
    BY <1>1, <2>2, SamePhaseDeals DEF handVars, roundVars
  <2>. QED  BY <1>5, <2>1, <2>2 DEF LeaveVoting
<1>6. CASE LeaveBetweenRounds(p)
  <2>1. /\ status' \in {Dropped(p), status}
        /\ UNCHANGED <<phase, handVars, current, roundVars>>
    BY <1>6 DEF LeaveBetweenRounds
  <2>. QED  BY <1>1, <2>1, SamePhaseDeals DEF handVars, roundVars
<1>. QED  BY <1>2, <1>3, <1>4, <1>5, <1>6 DEF ApplyLeave

LEMMA PrivilegedDeals ==
  ASSUME EngineInv, TypeOK', DealInv, NEW a \in Actors, PrivilegedStep(a)
  PROVE  DealInv'
<1>1. TypeOK /\ ResetSkipped(status) \in [Player -> Statuses]
  BY DEF EngineInv, TypeOK, ResetSkipped, Statuses
<1>2. CASE StartGame(a)
  <2> DEFINE st == [p \in Player |-> IF p \in Present THEN "ACTIVE" ELSE "NONE"]
  <2>1. st \in [Player -> Statuses] /\ BeginCycle(st, 1)
    BY <1>2 DEF StartGame, Statuses
  <2>. HIDE DEF st
  <2>. QED  BY <1>1, <2>1, BeginCycleDeals
<1>3. CASE NextRound(a)
  BY <1>1, <1>3, NextRoundOrFinishDeals DEF NextRound
<1>4. CASE StartNextCycle(a)
  BY <1>1, <1>4, BeginCycleDeals DEF StartNextCycle
<1>5. CASE ForceResolvePhase(a)
  BY <1>5, ResolveDeals DEF ForceResolvePhase
<1>6. ASSUME NEW p \in Player, KickPlayer(a, p)  PROVE DealInv'
  BY <1>6, LeaveDeals DEF KickPlayer
<1>7. CASE StartNewGame(a)
  BY <1>7, NothingPrepared
  DEF StartNewGame, DealInv, HandsAreSecret, HandsApart, BallotFromHands, TableIsClear,
      RoundIsDealt, NoMemes, NoHands
<1>. QED  BY <1>2, <1>3, <1>4, <1>5, <1>6, <1>7 DEF PrivilegedStep

LEMMA DealStep == EngineInv /\ DealInv /\ [Next]_vars => DealInv'
<1>. SUFFICES ASSUME EngineInv, DealInv, [Next]_vars  PROVE DealInv'
  OBVIOUS
<1>1. TypeOK /\ TypeOK'
  BY TypeStep DEF EngineInv
<1>2. CASE UNCHANGED <<phase, status, current, handVars, roundVars>>
  <2>1. /\ \A q \in Player : prepared[q] # NoMeme => prepared[q] \in prepHand[q]
        /\ \A q \in Player : submitted[q] # NoMeme => submitted[q] \in roundHand[q]
    BY DEF DealInv, HandsAreSecret, BallotFromHands
  <2>. QED  BY <1>1, <1>2, <2>1, SamePhaseDeals DEF handVars, roundVars
<1>3. ASSUME NEW p \in Player, PlayerStep(p)  PROVE DealInv'
  BY <1>1, <1>2, <1>3, SubmitDeals, LeaveDeals DEF PlayerStep, JoinRoom, LeaveRoom
<1>. QED
  BY <1>1, <1>2, <1>3, PrivilegedDeals, ResolveDeals
  DEF Next, TimeoutPhase, SetMemeEnabled, vars, handVars, roundVars

LEMMA DealInit == Init => DealInv
BY NothingPrepared
DEF Init, DealInv, HandsAreSecret, HandsApart, BallotFromHands, TableIsClear, RoundIsDealt,
    NoMemes, NoHands

THEOREM DealInvariant == Spec => []DealInv
BY EngineInvariant, DealInit, DealStep, PTL DEF Spec

(* No meme stands twice on a ballot, no original of another round stands on *)
(* it, and everyone who has to vote owns an option.                         *)
THEOREM EngineBallotIsFair == Spec => []BallotIsFair
<1>1. EngineInv /\ DealInv => BallotIsFair
  <2>. SUFFICES ASSUME EngineInv, DealInv  PROVE BallotIsFair
    OBVIOUS
  <2>1. \A p \in Player \ {current} : ballot[p] \notin Originals(prepared)
    BY DEF DealInv, HandsAreSecret, BallotFromHands, Originals
  <2>2. \A p \in Player : ballot[p] # NoMeme /\ p = current => ballot[p] \in Originals(prepared)
    BY DEF DealInv, BallotFromHands, Originals
  <2>3. \A p, q \in Player \ {current} : ballot[p] = ballot[q] /\ ballot[p] # NoMeme => p = q
    BY DEF DealInv, HandsAreSecret, HandsApart, BallotFromHands
  <2>. QED  BY <2>1, <2>2, <2>3 DEF BallotIsFair, DealInv, RoundIsDealt
<1>. QED  BY <1>1, EngineInvariant, DealInvariant, PTL

(* When a ballot is published nobody but the active player has been shown   *)
(* the original in this cycle, and nobody else can have submitted it.       *)
THEOREM EngineOriginalUnseen == Spec => []OriginalUnseen
<1>1. EngineInv /\ DealInv => OriginalUnseen
  <2>. SUFFICES ASSUME EngineInv, DealInv, phase \in {"ROUND_SELECTION", "ROUND_VOTING"},
                       NEW v \in Viewers \ {current}
                PROVE  /\ prepared[current] \notin PreparationView(v, Aggregate).hand
                       /\ prepared[current] \notin SelectionView(v, Aggregate).hand
                       /\ v \in Player => prepared[current] # submitted[v]
    BY DEF OriginalUnseen
  <2>1. current \in Player /\ prepared[current] # NoMeme
    BY DEF EngineInv, RoundIsOpen, DealInv, RoundIsDealt
  <2>2. prepared[current] \in Originals(prepared) /\ prepared[current] \in prepHand[current]
    BY <2>1 DEF Originals, DealInv, HandsAreSecret
  <2>3. v \in Player => prepared[current] \notin prepHand[v] /\ prepared[current] \notin roundHand[v]
    BY <2>1, <2>2 DEF DealInv, HandsAreSecret, HandsApart
  <2>4. v \in Player => prepared[current] # submitted[v]
    BY <2>1, <2>3 DEF DealInv, BallotFromHands
  <2>5. /\ PreparationView(v, Aggregate).hand = IF Holder(v) THEN prepHand[v] ELSE {}
        /\ SelectionView(v, Aggregate).hand = IF Holder(v) THEN roundHand[v] ELSE {}
    BY DEF PreparationView, SelectionView, Aggregate
  <2>. QED  BY <2>3, <2>4, <2>5 DEF Holder
<1>. QED  BY <1>1, EngineInvariant, DealInvariant, PTL

-----------------------------------------------------------------------------
(* The phases that may not begin.  Only an infinite game has a phase between *)
(* its cycles, so only there, and not in the first of them, can a            *)
(* PREPARATION begin with nobody left.                                       *)

CyclesAreCounted == phase # "NONE" => cycle >= 1

LEMMA CycleStep == TypeOK /\ CyclesAreCounted /\ [Next]_vars => CyclesAreCounted'
<1>. SUFFICES ASSUME TypeOK, CyclesAreCounted, [Next]_vars  PROVE CyclesAreCounted'
  OBVIOUS
<1>. USE DEF CyclesAreCounted
<1>1. cycle \in Int
  BY DEF TypeOK
<1>2. CASE UNCHANGED <<phase, cycle>>
  BY <1>2
<1>3. ASSUME NEW p \in Player, ApplyLeave(p)  PROVE CyclesAreCounted'
  BY <1>3 DEF ApplyLeave, LeavePreparation, LeaveOwnRound, LeaveSelection, LeaveVoting,
              LeaveBetweenRounds, AdvanceToRoundSelection, AdvanceToRoundVoting,
              AdvanceToRoundResults, NextRoundOrFinish, FinishCycle
<1>4. CASE ResolvePhase
  BY <1>4 DEF ResolvePhase, ResolvePreparation, ResolveSelection, ResolveVoting,
              AdvanceToRoundSelection, AdvanceToRoundVoting, AdvanceToRoundResults
<1>5. ASSUME NEW p \in Player, PlayerStep(p)  PROVE CyclesAreCounted'
  BY <1>3, <1>5 DEF PlayerStep, JoinRoom, LeaveRoom, SubmitPreparation, SubmitRoundMeme,
                    SubmitVote, AdvanceToRoundSelection, AdvanceToRoundVoting,
                    AdvanceToRoundResults
<1>6. ASSUME NEW a \in Actors, PrivilegedStep(a)  PROVE CyclesAreCounted'
  <2>1. CASE StartGame(a) \/ StartNextCycle(a)
    BY <1>1, <2>1 DEF StartGame, StartNextCycle, BeginCycle
  <2>2. CASE NextRound(a)
    BY <2>2 DEF NextRound, NextRoundOrFinish, FinishCycle
  <2>3. CASE StartNewGame(a)
    BY <2>3 DEF StartNewGame
  <2>. QED  BY <1>3, <1>4, <1>6, <2>1, <2>2, <2>3 DEF PrivilegedStep, ForceResolvePhase, KickPlayer
<1>. QED  BY <1>2, <1>4, <1>5, <1>6 DEF Next, TimeoutPhase, SetMemeEnabled, vars

(* A game's cycles are numbered from one. *)
THEOREM CycleInvariant == Spec => []CyclesAreCounted
<1>1. Init => CyclesAreCounted
  BY DEF Init, CyclesAreCounted
<1>. QED  BY <1>1, CycleStep, TypeCorrect, PTL DEF Spec

OnlyInfiniteGamesPause == phase = "CYCLE_RESULTS" => InfiniteGame
SomebodyPrepares == phase = "PREPARATION" => ActiveIn(status) # {} \/ Deserted

PauseInv == OnlyInfiniteGamesPause /\ SomebodyPrepares

LEMMA RoundPauses ==
  ASSUME NEW st, NEW tn,
         NextRoundOrFinish(st, tn) \/ \E prep : AdvanceToRoundSelection(st, prep)
  PROVE  PauseInv'
BY DEF NextRoundOrFinish, AdvanceToRoundSelection, StartRound, FinishCycle, PauseInv,
       OnlyInfiniteGamesPause, SomebodyPrepares

LEMMA OtherPhasesPause ==
  ASSUME phase' \notin {"CYCLE_RESULTS", "PREPARATION"}
  PROVE  PauseInv'
BY DEF PauseInv, OnlyInfiniteGamesPause, SomebodyPrepares

LEMMA LeavePauses ==
  ASSUME PauseInv, NEW p \in Player, ApplyLeave(p)
  PROVE  PauseInv'
<1>1. CASE LeavePreparation(p)
  <2> DEFINE prep == [prepared EXCEPT ![p] = NoMeme]
  <2>1. CASE AdvanceToRoundSelection(Dropped(p), prep)
    BY <2>1, RoundPauses
  <2>2. CASE ~AllActivePrepared(Dropped(p), prep) /\ status' = Dropped(p) /\ UNCHANGED phase
    <3>1. ActiveIn(status') # {} /\ phase' = "PREPARATION"
      BY <1>1, <2>2 DEF AllActivePrepared, LeavePreparation
    <3>. QED  BY <3>1 DEF PauseInv, OnlyInfiniteGamesPause, SomebodyPrepares, ActiveIn
  <2>. QED  BY <1>1, <2>1, <2>2 DEF LeavePreparation
<1>2. CASE LeaveOwnRound(p)
  BY <1>2, RoundPauses DEF LeaveOwnRound
<1>3. CASE LeaveSelection(p) \/ LeaveVoting(p)
  BY <1>3, OtherPhasesPause
  DEF LeaveSelection, LeaveVoting, AdvanceToRoundVoting, AdvanceToRoundResults
<1>4. CASE LeaveBetweenRounds(p)
  BY <1>4 DEF LeaveBetweenRounds, PauseInv, OnlyInfiniteGamesPause, SomebodyPrepares, OpenPhases
<1>. QED  BY <1>1, <1>2, <1>3, <1>4 DEF ApplyLeave

LEMMA SubmitPauses ==
  ASSUME PauseInv, NEW p \in Player, NEW m,
         SubmitPreparation(p, m) \/ SubmitRoundMeme(p, m) \/ SubmitVote(p, m)
  PROVE  PauseInv'
<1>1. CASE SubmitPreparation(p, m)
  BY <1>1, RoundPauses
  DEF SubmitPreparation, PauseInv, OnlyInfiniteGamesPause, SomebodyPrepares, ActiveIn
<1>2. CASE SubmitRoundMeme(p, m) \/ SubmitVote(p, m)
  BY <1>2, OtherPhasesPause
  DEF SubmitRoundMeme, SubmitVote, AdvanceToRoundVoting, AdvanceToRoundResults
<1>. QED  BY <1>1, <1>2

LEMMA ResolvePauses ==
  ASSUME ResolvePhase  PROVE PauseInv'
BY RoundPauses, OtherPhasesPause
DEF ResolvePhase, ResolvePreparation, ResolveSelection, ResolveVoting,
    AdvanceToRoundVoting, AdvanceToRoundResults

LEMMA PrivilegedPauses ==
  ASSUME EngineInv, CyclesAreCounted, PauseInv, NEW a \in Actors, PrivilegedStep(a)
  PROVE  PauseInv'
<1>1. CASE StartGame(a)
  <2>1. /\ phase' = "PREPARATION"
        /\ status' = [p \in Player |-> IF p \in Present THEN "ACTIVE" ELSE "NONE"]
    BY <1>1 DEF StartGame, BeginCycle
  <2>2. Present # {}
    BY <1>1, SomebodyStarts
  <2>3. ActiveIn(status') # {}
    BY <2>1, <2>2 DEF ActiveIn, Present
  <2>. QED  BY <2>1, <2>3 DEF PauseInv, OnlyInfiniteGamesPause, SomebodyPrepares, ActiveIn
<1>2. CASE NextRound(a)
  BY <1>2, RoundPauses DEF NextRound
<1>3. CASE StartNextCycle(a)
  <2>1. cycle \in Int /\ cycle >= 1 /\ InfiniteGame
    BY <1>3 DEF StartNextCycle, EngineInv, TypeOK, CyclesAreCounted, PauseInv, OnlyInfiniteGamesPause
  <2>2. phase' = "PREPARATION" /\ cycle' = cycle + 1
    BY <1>3 DEF StartNextCycle, BeginCycle
  <2>. QED  BY <2>1, <2>2 DEF PauseInv, OnlyInfiniteGamesPause, SomebodyPrepares, Deserted, ActiveIn
<1>4. CASE ForceResolvePhase(a)
  BY <1>4, ResolvePauses DEF ForceResolvePhase
<1>5. ASSUME NEW p \in Player, KickPlayer(a, p)  PROVE PauseInv'
  BY <1>5, LeavePauses DEF KickPlayer
<1>6. CASE StartNewGame(a)
  BY <1>6, OtherPhasesPause DEF StartNewGame
<1>. QED  BY <1>1, <1>2, <1>3, <1>4, <1>5, <1>6 DEF PrivilegedStep

LEMMA PauseStep == EngineInv /\ CyclesAreCounted /\ PauseInv /\ [Next]_vars => PauseInv'
<1>. SUFFICES ASSUME EngineInv, CyclesAreCounted, PauseInv, [Next]_vars  PROVE PauseInv'
  OBVIOUS
<1>1. CASE UNCHANGED <<phase, status, cycle>>
  BY <1>1 DEF PauseInv, OnlyInfiniteGamesPause, SomebodyPrepares, Deserted, ActiveIn
<1>2. ASSUME NEW p \in Player, PlayerStep(p)  PROVE PauseInv'
  BY <1>1, <1>2, SubmitPauses, LeavePauses DEF PlayerStep, JoinRoom, LeaveRoom
<1>. QED
  BY <1>1, <1>2, PrivilegedPauses, ResolvePauses DEF Next, TimeoutPhase, SetMemeEnabled, vars

LEMMA PauseInit == Init => PauseInv
BY DEF Init, PauseInv, OnlyInfiniteGamesPause, SomebodyPrepares

(* Games pause between cycles only if they are infinite, and only then, and  *)
(* after the first of them, can a PREPARATION be without anybody ACTIVE.     *)
THEOREM PauseInvariant == Spec => []PauseInv
BY EngineInvariant, CycleInvariant, PauseInit, PauseStep, PTL DEF Spec

-----------------------------------------------------------------------------
(* No phase is open with everyone done: whoever opens one leaves something   *)
(* owed in it, and whoever does the last owed thing closes it.               *)

(* The active player of an open selection is ACTIVE. *)
ActivePlayerPlays == phase = "ROUND_SELECTION" => current \in ActiveIn(status)

WaitInv == NoIdleWait /\ ActivePlayerPlays

LEMMA ClosedPhasesWait == phase' \notin OpenPhases => WaitInv'
BY DEF WaitInv, NoIdleWait, ActivePlayerPlays, OpenPhases

LEMMA NewRoundWaits ==
  ASSUME NEW st, NEW tn, NEW prep, Eligible(st, tn) # {},
         StartRound(NextEligible(st, tn), st, tn, prep)
  PROVE  WaitInv'
<1> DEFINE p == NextEligible(st, tn)
<1>1. p \in Player /\ st[p] = "ACTIVE"
  BY NextEligiblePlayer
<1>2. /\ phase' = "ROUND_SELECTION" /\ submitted' = NoMemes /\ current' = p
      /\ status' = ResetSkipped(st)
  BY DEF StartRound
<1>. HIDE DEF p
<1>3. current' \in ActiveIn(status')
  BY <1>1, <1>2 DEF ActiveIn, ResetSkipped
<1>4. ASSUME AllNonActiveSubmitted(status, submitted)'  PROVE ActiveIn(status') \subseteq {current'}
  BY <1>2, <1>4 DEF AllNonActiveSubmitted, ActiveIn, NoMemes
<1>. QED  BY <1>2, <1>3, <1>4 DEF WaitInv, NoIdleWait, ActivePlayerPlays

LEMMA NewCycleWaits ==
  ASSUME PauseInv', NEW st, NEW n, BeginCycle(st, n)
  PROVE  WaitInv'
<1>1. phase' = "PREPARATION" /\ prepared' = NoMemes
  BY DEF BeginCycle
<1>2. ASSUME AllActivePrepared(status, prepared)'  PROVE Deserted'
  <2>1. ActiveIn(status') = {}
    BY <1>1, <1>2 DEF AllActivePrepared, ActiveIn, NoMemes
  <2>. QED  BY <1>1, <2>1 DEF PauseInv, SomebodyPrepares, ActiveIn
<1>. QED  BY <1>1, <1>2 DEF WaitInv, NoIdleWait, ActivePlayerPlays

LEMMA NewBallotWaits ==
  ASSUME DealInv, phase = "ROUND_SELECTION", NEW sub, AdvanceToRoundVoting(sub),
         current \in ActiveIn(status')
  PROVE  WaitInv'
<1>1. phase' = "ROUND_VOTING" /\ votes' = NoVotes /\ current' = current
  BY DEF AdvanceToRoundVoting, DealInv, RoundIsDealt
<1>2. ASSUME AllNonActiveVoted(status, votes)'  PROVE ActiveIn(status') \subseteq {current'}
  BY <1>1, <1>2 DEF AllNonActiveVoted, ActiveIn, NoVotes
<1>. QED  BY <1>1, <1>2 DEF WaitInv, NoIdleWait, ActivePlayerPlays

LEMMA NewResultsWait ==
  ASSUME NEW vt, AdvanceToRoundResults(vt)
  PROVE  WaitInv'
<1>1. phase' = "ROUND_RESULTS"
  BY DEF AdvanceToRoundResults
<1>. QED  BY <1>1, ClosedPhasesWait DEF OpenPhases

LEMMA NextRoundOrFinishWaits ==
  ASSUME NEW st, NEW tn, NextRoundOrFinish(st, tn)
  PROVE  WaitInv'
<1>1. CASE Eligible(st, tn) # {}
  BY <1>1, NewRoundWaits DEF NextRoundOrFinish
<1>2. CASE Eligible(st, tn) = {}
  <2>1. phase' \in {"CYCLE_RESULTS", "GAME_RESULTS"}
    BY <1>2 DEF NextRoundOrFinish, FinishCycle
  <2>. QED  BY <2>1, ClosedPhasesWait DEF OpenPhases
<1>. QED  BY <1>1, <1>2

LEMMA SubmitWaits ==
  ASSUME DealInv, WaitInv, NEW p \in Player,
         \/ \E m \in Meme : SubmitPreparation(p, m)
         \/ \E m \in Meme : SubmitRoundMeme(p, m)
         \/ \E o \in Player : SubmitVote(p, o)
  PROVE  WaitInv'
<1>1. ASSUME NEW m \in Meme, SubmitPreparation(p, m)  PROVE WaitInv'
  <2> DEFINE prep == [prepared EXCEPT ![p] = m]
  <2>1. CASE AdvanceToRoundSelection(status, prep)
    BY <2>1, NewRoundWaits DEF AdvanceToRoundSelection
  <2>2. CASE ~AllActivePrepared(status, prep) /\ prepared' = prep /\ UNCHANGED <<phase, status>>
    <3>. HIDE DEF prep
    <3>1. phase' = "PREPARATION" /\ ~AllActivePrepared(status', prepared')
      BY <1>1, <2>2 DEF SubmitPreparation
    <3>. QED  BY <3>1 DEF WaitInv, NoIdleWait, ActivePlayerPlays
  <2>. QED  BY <1>1, <2>1, <2>2 DEF SubmitPreparation
<1>2. ASSUME NEW m \in Meme, SubmitRoundMeme(p, m)  PROVE WaitInv'
  <2> DEFINE sub == [submitted EXCEPT ![p] = m]
  <2>1. CASE AdvanceToRoundVoting(sub)
    BY <1>2, <2>1, NewBallotWaits DEF SubmitRoundMeme, WaitInv, ActivePlayerPlays
  <2>2. CASE /\ ~AllNonActiveSubmitted(status, sub) /\ submitted' = sub
             /\ UNCHANGED <<phase, status, current>>
    <3>. HIDE DEF sub
    <3>1. phase' = "ROUND_SELECTION" /\ ~AllNonActiveSubmitted(status, submitted)'
      BY <1>2, <2>2 DEF SubmitRoundMeme, AllNonActiveSubmitted
    <3>2. current' \in ActiveIn(status')
      BY <1>2, <2>2 DEF SubmitRoundMeme, WaitInv, ActivePlayerPlays, ActiveIn
    <3>. QED  BY <3>1, <3>2 DEF WaitInv, NoIdleWait, ActivePlayerPlays
  <2>. QED  BY <1>2, <2>1, <2>2 DEF SubmitRoundMeme
<1>3. ASSUME NEW o \in Player, SubmitVote(p, o)  PROVE WaitInv'
  <2> DEFINE vt == [votes EXCEPT ![p] = o]
  <2>1. CASE AdvanceToRoundResults(vt)
    BY <2>1, NewResultsWait
  <2>2. CASE ~AllNonActiveVoted(status, vt) /\ votes' = vt /\ UNCHANGED <<phase, status, current>>
    <3>. HIDE DEF vt
    <3>1. phase' = "ROUND_VOTING" /\ ~AllNonActiveVoted(status, votes)'
      BY <1>3, <2>2 DEF SubmitVote, AllNonActiveVoted
    <3>. QED  BY <3>1 DEF WaitInv, NoIdleWait, ActivePlayerPlays
  <2>. QED  BY <1>3, <2>1, <2>2 DEF SubmitVote
<1>. QED  BY <1>1, <1>2, <1>3

LEMMA ResolveWaits ==
  ASSUME DealInv, WaitInv, ResolvePhase
  PROVE  WaitInv'
<1>1. CASE ResolvePreparation
  BY <1>1, NewRoundWaits DEF ResolvePreparation, AdvanceToRoundSelection
<1>2. CASE ResolveSelection
  BY <1>2, NewBallotWaits DEF ResolveSelection, WaitInv, ActivePlayerPlays
<1>3. CASE ResolveVoting
  BY <1>3, NewResultsWait DEF ResolveVoting
<1>. QED  BY <1>1, <1>2, <1>3 DEF ResolvePhase

LEMMA LeaveWaits ==
  ASSUME EngineInv, DealInv, WaitInv, NEW p \in Player, ApplyLeave(p)
  PROVE  WaitInv'
<1>1. CASE LeavePreparation(p)
  <2> DEFINE prep == [prepared EXCEPT ![p] = NoMeme]
  <2>1. CASE AdvanceToRoundSelection(Dropped(p), prep)
    BY <2>1, NewRoundWaits DEF AdvanceToRoundSelection
  <2>2. CASE /\ ~AllActivePrepared(Dropped(p), prep) /\ status' = Dropped(p) /\ prepared' = prep
             /\ UNCHANGED phase
    <3>. HIDE DEF prep
    <3>1. phase' = "PREPARATION" /\ ~AllActivePrepared(status', prepared')
      BY <1>1, <2>2 DEF LeavePreparation
    <3>. QED  BY <3>1 DEF WaitInv, NoIdleWait, ActivePlayerPlays
  <2>. QED  BY <1>1, <2>1, <2>2 DEF LeavePreparation
<1>2. CASE LeaveOwnRound(p)
  BY <1>2, NextRoundOrFinishWaits DEF LeaveOwnRound
<1>3. CASE LeaveSelection(p)
  <2>0. current \in ActiveIn(Dropped(p)) /\ status' = Dropped(p)
    BY <1>3 DEF LeaveSelection, WaitInv, ActivePlayerPlays, ActiveIn, Dropped, EngineInv, TypeOK
  <2> DEFINE sub == [submitted EXCEPT ![p] = NoMeme]
  <2>1. CASE AdvanceToRoundVoting(sub)
    BY <1>3, <2>0, <2>1, NewBallotWaits DEF LeaveSelection
  <2>2. CASE /\ ~AllNonActiveSubmitted(Dropped(p), sub) /\ status' = Dropped(p) /\ submitted' = sub
             /\ UNCHANGED <<phase, current>>
    <3>. HIDE DEF sub
    <3>1. phase' = "ROUND_SELECTION" /\ ~AllNonActiveSubmitted(status, submitted)'
      BY <1>3, <2>2 DEF LeaveSelection, AllNonActiveSubmitted
    <3>2. current' \in ActiveIn(status')
      BY <2>0, <2>2
    <3>. QED  BY <3>1, <3>2 DEF WaitInv, NoIdleWait, ActivePlayerPlays
  <2>. QED  BY <1>3, <2>1, <2>2 DEF LeaveSelection
<1>4. CASE LeaveVoting(p)
  <2>1. CASE AdvanceToRoundResults(votes)
    BY <2>1, NewResultsWait
  <2>2. CASE /\ ~AllNonActiveVoted(Dropped(p), votes) /\ status' = Dropped(p)
             /\ UNCHANGED <<phase, current, votes>>
    <3>1. phase' = "ROUND_VOTING" /\ ~AllNonActiveVoted(status, votes)'
      BY <1>4, <2>2 DEF LeaveVoting, AllNonActiveVoted
    <3>. QED  BY <3>1 DEF WaitInv, NoIdleWait, ActivePlayerPlays
  <2>. QED  BY <1>4, <2>1, <2>2 DEF LeaveVoting, roundVars
<1>5. CASE LeaveBetweenRounds(p)
  BY <1>5, ClosedPhasesWait DEF LeaveBetweenRounds
<1>. QED  BY <1>1, <1>2, <1>3, <1>4, <1>5 DEF ApplyLeave

LEMMA PrivilegedWaits ==
  ASSUME EngineInv, DealInv, WaitInv, PauseInv', NEW a \in Actors, PrivilegedStep(a)
  PROVE  WaitInv'
<1>1. CASE StartGame(a) \/ StartNextCycle(a)
  BY <1>1, NewCycleWaits DEF StartGame, StartNextCycle
<1>2. CASE NextRound(a)
  BY <1>2, NextRoundOrFinishWaits DEF NextRound
<1>3. CASE ForceResolvePhase(a)
  BY <1>3, ResolveWaits DEF ForceResolvePhase
<1>4. ASSUME NEW p \in Player, KickPlayer(a, p)  PROVE WaitInv'
  BY <1>4, LeaveWaits DEF KickPlayer
<1>5. CASE StartNewGame(a)
  BY <1>5, ClosedPhasesWait DEF StartNewGame, OpenPhases
<1>. QED  BY <1>1, <1>2, <1>3, <1>4, <1>5 DEF PrivilegedStep

LEMMA WaitStep == EngineInv /\ DealInv /\ PauseInv' /\ WaitInv /\ [Next]_vars => WaitInv'
<1>. SUFFICES ASSUME EngineInv, DealInv, PauseInv', WaitInv, [Next]_vars  PROVE WaitInv'
  OBVIOUS
<1>1. CASE UNCHANGED <<phase, status, cycle, current, prepared, submitted, votes>>
  BY <1>1 DEF WaitInv, NoIdleWait, ActivePlayerPlays, Deserted, ActiveIn,
              AllActivePrepared, AllNonActiveSubmitted, AllNonActiveVoted
<1>2. ASSUME NEW p \in Player, PlayerStep(p)  PROVE WaitInv'
  BY <1>1, <1>2, SubmitWaits, LeaveWaits
  DEF PlayerStep, JoinRoom, LeaveRoom, handVars, roundVars
<1>. QED
  BY <1>1, <1>2, PrivilegedWaits, ResolveWaits
  DEF Next, TimeoutPhase, SetMemeEnabled, vars, handVars, roundVars

(* A phase is left with the last contribution it waits for, whether that is *)
(* a submission, a vote or a leave.  Only two phases wait for nobody: a     *)
(* round whose active player is the only one ACTIVE, which a timeout or a   *)
(* forced end ends, and the PREPARATION of a later cycle of an infinite     *)
(* game that everyone has left, which nothing does.                         *)
THEOREM EngineNoIdleWait == Spec => []NoIdleWait
<1>1. Init => WaitInv
  BY DEF Init, WaitInv, NoIdleWait, ActivePlayerPlays
<1>2. WaitInv => NoIdleWait
  BY DEF WaitInv
<1>. QED
  BY <1>1, <1>2, EngineInvariant, DealInvariant, PauseInvariant, WaitStep, PTL DEF Spec

-----------------------------------------------------------------------------
(* The content lasts.  START_GAME counts the memes for those it lets play;   *)
(* nobody joins a game, whoever leaves it stays counted, and only those who  *)
(* play prepare an original, so the count covers the rest of the cycle.      *)

Participants == {p \in Player : status[p] # "NONE"}

EveryonePresentPlays == phase # "NONE" => Present \subseteq Participants
OriginalsOfParticipants == \A p \in Player : prepared[p] # NoMeme => status[p] # "NONE"
ContentCounted ==
  phase # "NONE" /\ edits = 0 =>
    Cardinality(enabled) >= RequiredMemes(Cardinality(Participants))

ContentInv == EveryonePresentPlays /\ OriginalsOfParticipants /\ ContentCounted

(* A step of the game: nobody enters or is forgotten. *)
SamePlayers(st) == \A p \in Player : st[p] = "NONE" <=> status[p] = "NONE"
PreparedByPlayers(prep) == \A p \in Player : prep[p] # NoMeme => status[p] # "NONE"
GameGoesOn == SamePlayers(status') /\ PreparedByPlayers(prepared')

LEMMA NextRoundGoesOn ==
  ASSUME NEW p, NEW st \in [Player -> Statuses], NEW tn, NEW prep,
         StartRound(p, st, tn, prep), SamePlayers(st), PreparedByPlayers(prep)
  PROVE  GameGoesOn
<1>1. status' = ResetSkipped(st) /\ prepared' = prep
  BY DEF StartRound
<1>. QED  BY <1>1 DEF GameGoesOn, SamePlayers, ResetSkipped

LEMMA NextRoundOrFinishGoesOn ==
  ASSUME ContentInv, NEW st \in [Player -> Statuses], NEW tn,
         NextRoundOrFinish(st, tn), SamePlayers(st)
  PROVE  GameGoesOn
<1>1. PreparedByPlayers(prepared)
  BY DEF ContentInv, OriginalsOfParticipants, PreparedByPlayers
<1>2. CASE Eligible(st, tn) # {}
  BY <1>1, <1>2, NextRoundGoesOn DEF NextRoundOrFinish
<1>3. CASE Eligible(st, tn) = {}
  BY <1>1, <1>3 DEF NextRoundOrFinish, FinishCycle, GameGoesOn
<1>. QED  BY <1>2, <1>3

LEMMA SubmitGoesOn ==
  ASSUME EngineInv, ContentInv, NEW p \in Player,
         \/ \E m \in Meme : SubmitPreparation(p, m)
         \/ \E m \in Meme : SubmitRoundMeme(p, m)
         \/ \E o \in Player : SubmitVote(p, o)
  PROVE  GameGoesOn
<1>1. /\ status \in [Player -> Statuses] /\ prepared \in PlayerMemes
      /\ SamePlayers(status) /\ PreparedByPlayers(prepared)
  BY AggregateTypes
  DEF EngineInv, ContentInv, OriginalsOfParticipants, SamePlayers, PreparedByPlayers
<1>2. ASSUME NEW m \in Meme, SubmitPreparation(p, m)  PROVE GameGoesOn
  <2> DEFINE prep == [prepared EXCEPT ![p] = m]
  <2>1. PreparedByPlayers(prep)
    BY <1>1, <1>2 DEF SubmitPreparation, PreparedByPlayers, PlayerMemes
  <2>2. CASE AdvanceToRoundSelection(status, prep)
    BY <1>1, <2>1, <2>2, NextRoundGoesOn DEF AdvanceToRoundSelection
  <2>3. CASE UNCHANGED status /\ prepared' = prep
    BY <1>1, <2>1, <2>3 DEF GameGoesOn
  <2>. QED  BY <1>2, <2>2, <2>3 DEF SubmitPreparation
<1>3. ASSUME NEW m \in Meme, SubmitRoundMeme(p, m)  PROVE GameGoesOn
  BY <1>1, <1>3 DEF SubmitRoundMeme, AdvanceToRoundVoting, handVars, GameGoesOn
<1>4. ASSUME NEW o \in Player, SubmitVote(p, o)  PROVE GameGoesOn
  BY <1>1, <1>4 DEF SubmitVote, AdvanceToRoundResults, handVars, GameGoesOn
<1>. QED  BY <1>2, <1>3, <1>4

LEMMA ResolveGoesOn ==
  ASSUME EngineInv, ContentInv, ResolvePhase
  PROVE  GameGoesOn
<1>1. /\ status \in [Player -> Statuses]
      /\ SamePlayers(status) /\ PreparedByPlayers(prepared)
  BY AggregateTypes
  DEF EngineInv, ContentInv, OriginalsOfParticipants, SamePlayers, PreparedByPlayers
<1>2. CASE ResolvePreparation
  <2> DEFINE late == {q \in ActiveIn(status) : prepared[q] = NoMeme}
  <2>1. PICK prep \in Filled(prepared, late, prepHand) : AdvanceToRoundSelection(status, prep)
    BY <1>2 DEF ResolvePreparation, LatePreparations
  <2>2. \A q \in Player : prep[q] # prepared[q] => q \in late
    BY DEF Filled
  <2>3. PreparedByPlayers(prep)
    BY <1>1, <2>2 DEF PreparedByPlayers, ActiveIn
  <2>. QED  BY <1>1, <2>1, <2>3, NextRoundGoesOn DEF AdvanceToRoundSelection
<1>3. CASE ResolveSelection
  BY <1>1, <1>3 DEF ResolveSelection, AdvanceToRoundVoting, GameGoesOn
<1>4. CASE ResolveVoting
  <2>1. /\ status' = [q \in Player |->
              IF q \in {r \in ActiveIn(status) \ {current} : votes[r] = NoPlayer}
              THEN "SKIPPED" ELSE status[q]]
        /\ UNCHANGED prepared
    BY <1>4 DEF ResolveVoting, AdvanceToRoundResults
  <2>2. SamePlayers(status')
    BY <2>1 DEF SamePlayers, ActiveIn
  <2>. QED  BY <1>1, <2>1, <2>2 DEF GameGoesOn
<1>. QED  BY <1>2, <1>3, <1>4 DEF ResolvePhase

LEMMA LeaveGoesOn ==
  ASSUME EngineInv, ContentInv, NEW p \in Player, ApplyLeave(p)
  PROVE  GameGoesOn
<1>1. /\ status \in [Player -> Statuses] /\ Dropped(p) \in [Player -> Statuses]
      /\ prepared \in PlayerMemes
      /\ SamePlayers(status) /\ PreparedByPlayers(prepared)
  BY AggregateTypes, DroppedType
  DEF EngineInv, ContentInv, OriginalsOfParticipants, SamePlayers, PreparedByPlayers
<1>2. phase # "NONE" => SamePlayers(Dropped(p))
  BY <1>1 DEF ContentInv, EveryonePresentPlays, Participants, ApplyLeave, Dropped, SamePlayers
<1>3. CASE LeavePreparation(p)
  <2> DEFINE prep == [prepared EXCEPT ![p] = NoMeme]
  <2>1. PreparedByPlayers(prep) /\ SamePlayers(Dropped(p))
    BY <1>1, <1>2, <1>3 DEF LeavePreparation, PreparedByPlayers, PlayerMemes
  <2>2. CASE AdvanceToRoundSelection(Dropped(p), prep)
    BY <1>1, <2>1, <2>2, NextRoundGoesOn DEF AdvanceToRoundSelection
  <2>3. CASE status' = Dropped(p) /\ prepared' = prep
    BY <2>1, <2>3 DEF GameGoesOn
  <2>. QED  BY <1>3, <2>2, <2>3 DEF LeavePreparation
<1>4. CASE LeaveOwnRound(p)
  BY <1>1, <1>2, <1>4, NextRoundOrFinishGoesOn DEF LeaveOwnRound
<1>5. CASE LeaveSelection(p)
  BY <1>1, <1>2, <1>5 DEF LeaveSelection, AdvanceToRoundVoting, handVars, GameGoesOn
<1>6. CASE LeaveVoting(p)
  BY <1>1, <1>2, <1>6 DEF LeaveVoting, AdvanceToRoundResults, handVars, GameGoesOn
<1>7. CASE LeaveBetweenRounds(p)
  BY <1>1, <1>2, <1>7 DEF LeaveBetweenRounds, handVars, GameGoesOn
<1>. QED  BY <1>3, <1>4, <1>5, <1>6, <1>7 DEF ApplyLeave

(* While the game goes on with its content, what was counted stays counted. *)
LEMMA ContentLasts ==
  ASSUME ContentInv, GameGoesOn, UNCHANGED contentVars, Present' \subseteq Present,
         phase = "NONE" => phase' = "NONE"
  PROVE  ContentInv'
<1>1. Participants' = Participants /\ enabled' = enabled /\ edits' = edits
  BY DEF Participants, GameGoesOn, SamePlayers, contentVars
<1>2. OriginalsOfParticipants'
  BY DEF OriginalsOfParticipants, GameGoesOn, SamePlayers, PreparedByPlayers
<1>3. ContentCounted' /\ EveryonePresentPlays'
  BY <1>1 DEF ContentInv, ContentCounted, EveryonePresentPlays
<1>. QED  BY <1>2, <1>3 DEF ContentInv

LEMMA LeaverIsGone ==
  ASSUME TypeOK, NEW p \in Player, ApplyLeave(p)
  PROVE  /\ UNCHANGED contentVars /\ Present' \subseteq Present
         /\ phase = "NONE" => phase' = "NONE"
<1>1. UNCHANGED contentVars /\ member' = [member EXCEPT ![p] = "LEFT"]
  BY DEF ApplyLeave
<1>2. Present' \subseteq Present
  BY <1>1 DEF Present, TypeOK
<1>3. phase = "NONE" => phase' = "NONE"
  BY DEF ApplyLeave, LeavePreparation, LeaveOwnRound, LeaveSelection, LeaveVoting,
         LeaveBetweenRounds
<1>. QED  BY <1>1, <1>2, <1>3

LEMMA StartGameCounts ==
  ASSUME TypeOK, NEW a \in Actors, StartGame(a)
  PROVE  ContentInv'
<1>1. /\ Cardinality(enabled) >= RequiredMemes(Cardinality(Present))
      /\ status' = [p \in Player |-> IF p \in Present THEN "ACTIVE" ELSE "NONE"]
      /\ prepared' = NoMemes /\ UNCHANGED <<member, enabled>>
  BY DEF StartGame, BeginCycle, contentVars
<1>2. Present' = Present /\ Participants' = Present
  BY <1>1 DEF Present, Participants
<1>3. OriginalsOfParticipants'
  BY <1>1 DEF OriginalsOfParticipants, NoMemes
<1>. QED  BY <1>1, <1>2, <1>3 DEF ContentInv, EveryonePresentPlays, ContentCounted

LEMMA PrivilegedCounts ==
  ASSUME EngineInv, ContentInv, NEW a \in Actors, PrivilegedStep(a)
  PROVE  ContentInv'
<1>1. /\ TypeOK /\ status \in [Player -> Statuses] /\ ResetSkipped(status) \in [Player -> Statuses]
      /\ SamePlayers(ResetSkipped(status))
  BY DEF EngineInv, TypeOK, Statuses, ResetSkipped, SamePlayers
<1>2. CASE StartGame(a)
  BY <1>1, <1>2, StartGameCounts
<1>3. CASE NextRound(a)
  <2>1. GameGoesOn
    BY <1>1, <1>3, NextRoundOrFinishGoesOn DEF NextRound
  <2>2. UNCHANGED <<member, contentVars>> /\ phase # "NONE"
    BY <1>3 DEF NextRound
  <2>. QED  BY <2>1, <2>2, ContentLasts DEF Present
<1>4. CASE StartNextCycle(a)
  <2>1. /\ status' = ResetSkipped(status) /\ prepared' = NoMemes
        /\ UNCHANGED <<member, contentVars>> /\ phase # "NONE"
    BY <1>4 DEF StartNextCycle, BeginCycle
  <2>2. GameGoesOn
    BY <1>1, <2>1 DEF GameGoesOn, PreparedByPlayers, NoMemes
  <2>. QED  BY <2>1, <2>2, ContentLasts DEF Present
<1>5. CASE ForceResolvePhase(a)
  <2>1. GameGoesOn
    BY <1>5, ResolveGoesOn DEF ForceResolvePhase
  <2>2. UNCHANGED <<member, contentVars>> /\ phase # "NONE"
    BY <1>5 DEF ForceResolvePhase, ResolvePhase, ResolvePreparation, ResolveSelection, ResolveVoting
  <2>. QED  BY <2>1, <2>2, ContentLasts DEF Present
<1>6. ASSUME NEW p \in Player, KickPlayer(a, p)  PROVE ContentInv'
  BY <1>1, <1>6, LeaveGoesOn, LeaverIsGone, ContentLasts DEF KickPlayer
<1>7. CASE StartNewGame(a)
  <2>1. phase' = "NONE" /\ prepared' = NoMemes
    BY <1>7 DEF StartNewGame
  <2>. QED
    BY <2>1 DEF ContentInv, EveryonePresentPlays, OriginalsOfParticipants, ContentCounted, NoMemes
<1>. QED  BY <1>2, <1>3, <1>4, <1>5, <1>6, <1>7 DEF PrivilegedStep

LEMMA PlayerCounts ==
  ASSUME EngineInv, ContentInv, NEW p \in Player, PlayerStep(p)
  PROVE  ContentInv'
<1>1. CASE JoinRoom(p)
  <2>1. phase = "NONE" /\ UNCHANGED <<phase, status, prepared>>
    BY <1>1 DEF JoinRoom, EngineInv, RoomMatchesPhase, handVars
  <2>. QED
    BY <2>1 DEF ContentInv, EveryonePresentPlays, OriginalsOfParticipants, ContentCounted
<1>2. CASE LeaveRoom(p)
  BY <1>2, LeaveGoesOn, LeaverIsGone, ContentLasts DEF LeaveRoom, EngineInv
<1>3. CASE \/ \E m \in Meme : SubmitPreparation(p, m)
           \/ \E m \in Meme : SubmitRoundMeme(p, m)
           \/ \E o \in Player : SubmitVote(p, o)
  <2>1. UNCHANGED <<member, contentVars>> /\ phase # "NONE"
    BY <1>3 DEF SubmitPreparation, SubmitRoundMeme, SubmitVote
  <2>. QED  BY <1>3, <2>1, SubmitGoesOn, ContentLasts DEF Present
<1>. QED  BY <1>1, <1>2, <1>3 DEF PlayerStep

LEMMA ContentStep == EngineInv /\ ContentInv /\ [Next]_vars => ContentInv'
<1>. SUFFICES ASSUME EngineInv, ContentInv, [Next]_vars  PROVE ContentInv'
  OBVIOUS
<1>1. CASE TimeoutPhase
  <2>1. UNCHANGED <<member, contentVars>> /\ phase # "NONE" /\ GameGoesOn
    BY <1>1, ResolveGoesOn
    DEF TimeoutPhase, ResolvePhase, ResolvePreparation, ResolveSelection, ResolveVoting
  <2>. QED  BY <2>1, ContentLasts DEF Present
<1>2. ASSUME NEW m \in Meme, SetMemeEnabled(m)  PROVE ContentInv'
  <2>1. UNCHANGED <<phase, member, status, prepared>> /\ edits' = edits + 1 /\ edits \in Nat
    BY <1>2, SizesAssumption DEF SetMemeEnabled, handVars, EngineInv, TypeOK
  <2>2. edits' # 0
    BY <2>1
  <2>. QED
    BY <2>1, <2>2
    DEF ContentInv, EveryonePresentPlays, OriginalsOfParticipants, ContentCounted,
        Present, Participants
<1>3. CASE UNCHANGED vars
  BY <1>3
  DEF vars, handVars, contentVars, ContentInv, EveryonePresentPlays, OriginalsOfParticipants,
      ContentCounted, Present, Participants
<1>. QED  BY <1>1, <1>2, <1>3, PlayerCounts, PrivilegedCounts DEF Next

LEMMA ContentInit == Init => ContentInv
BY DEF Init, ContentInv, EveryonePresentPlays, OriginalsOfParticipants, ContentCounted, NoMemes

(* There are at most as many originals as players who may have prepared one. *)
LEMMA FewOriginals ==
  ASSUME NEW prep, PreparedByPlayers(prep)
  PROVE  /\ IsFiniteSet(Originals(prep))
         /\ Cardinality(Originals(prep)) <= Cardinality(Participants)
<1> DEFINE ready == {p \in Player : prep[p] # NoMeme}
           by == [p \in ready |-> prep[p]]
<1>1. Participants \in SUBSET Player /\ ready \in SUBSET Participants
  BY DEF Participants, PreparedByPlayers
<1>2. IsFiniteSet(Participants)
  BY <1>1, PlayersAreNumbers, FS_Subset
<1>3. IsFiniteSet(ready) /\ Cardinality(ready) <= Cardinality(Participants)
  BY <1>1, <1>2, FS_Subset
<1>4. by \in Surjection(ready, Originals(prep))
  BY DEF Surjection, Originals
<1>5. /\ IsFiniteSet(Originals(prep))
      /\ Cardinality(Originals(prep)) <= Cardinality(ready)
  <2>. HIDE DEF ready, by
  <2>. QED  BY <1>3, <1>4, FS_Surjection
<1>6. /\ Cardinality(Originals(prep)) \in Int /\ Cardinality(ready) \in Int
      /\ Cardinality(Participants) \in Int
  BY <1>2, <1>3, <1>5, FS_CardinalityType
<1>. HIDE DEF ready
<1>. QED  BY <1>3, <1>5, <1>6

LEMMA RequiredIsEnough ==
  ASSUME NEW n \in Nat
  PROVE  /\ RequiredMemes(n) \in Int
         /\ RequiredMemes(n) >= n * HandSize
         /\ RequiredMemes(n) >= n + (n - 1) * HandSize
<1> DEFINE a == n * HandSize
           b == n + (n - 1) * HandSize
<1>1. a \in Int /\ b \in Int
  BY SizesAssumption
<1>2. RequiredMemes(n) = Max({a, b})
  BY DEF RequiredMemes
<1>. HIDE DEF a, b
<1>3. \E x \in {a, b} : \A y \in {a, b} : x >= y
  BY <1>1
<1>4. Max({a, b}) \in {a, b} /\ \A y \in {a, b} : Max({a, b}) >= y
  BY <1>3 DEF Max
<1>5. RequiredMemes(n) \in Int /\ RequiredMemes(n) >= a /\ RequiredMemes(n) >= b
  BY <1>1, <1>2, <1>4
<1>. QED  BY <1>5 DEF a, b

(* Products grow with their first factor. *)
LEMMA FewerHands ==
  ASSUME NEW k \in Nat, NEW n \in Nat, k <= n
  PROVE  (k - 1) * HandSize <= (n - 1) * HandSize /\ k * HandSize <= n * HandSize
<1>1. HandSize \in Nat
  BY SizesAssumption
<1>2. (n - k) * HandSize >= 0
  BY <1>1
<1>3. (n - 1) * HandSize = (k - 1) * HandSize + (n - k) * HandSize
  BY <1>1
<1>4. n * HandSize = k * HandSize + (n - k) * HandSize
  BY <1>1
<1>5. (k - 1) * HandSize \in Int /\ (n - k) * HandSize \in Int /\ k * HandSize \in Int
  BY <1>1
<1>. QED  BY <1>2, <1>3, <1>4, <1>5

(* The content covers the hands of a round of the participants st leaves,   *)
(* whatever originals prep has, and the hands of their next cycle.          *)
LEMMA ContentDealsRounds ==
  ASSUME TypeOK, ContentInv, phase # "NONE", edits = 0,
         NEW st, PlayingIn(st) \subseteq Participants,
         NEW prep, PreparedByPlayers(prep)
  PROVE  /\ Cardinality(PlayingIn(st)) \in Nat
         /\ Cardinality(enabled) >= Cardinality(PlayingIn(st)) * HandSize
         /\ Cardinality(enabled \ Originals(prep)) >= (Cardinality(PlayingIn(st)) - 1) * HandSize
<1> DEFINE n == Cardinality(Participants)
           k == Cardinality(PlayingIn(st))
           kept == Cardinality(enabled \cap Originals(prep))
<1>1. Participants \in SUBSET Player /\ PlayingIn(st) \in SUBSET Participants
  BY DEF Participants
<1>2. IsFiniteSet(Participants) /\ n \in Nat
  BY <1>1, PlayersAreNumbers, FS_Subset, FS_CardinalityType
<1>3. k \in Nat /\ k <= n
  BY <1>1, <1>2, FS_Subset, FS_CardinalityType
<1>4. IsFiniteSet(enabled) /\ Cardinality(enabled) \in Nat
  BY ContentAssumption, FS_Subset, FS_CardinalityType DEF TypeOK
<1>5. kept \in Nat /\ kept <= n
  <2>1. IsFiniteSet(Originals(prep)) /\ Cardinality(Originals(prep)) <= n
    BY FewOriginals
  <2>2. IsFiniteSet(enabled \cap Originals(prep)) /\ kept <= Cardinality(Originals(prep))
    BY <2>1, FS_Intersection
  <2>3. kept \in Nat /\ Cardinality(Originals(prep)) \in Nat
    BY <2>1, <2>2, FS_CardinalityType
  <2>. QED  BY <1>2, <2>1, <2>2, <2>3
<1>6. Cardinality(enabled \ Originals(prep)) = Cardinality(enabled) - kept
  BY <1>4, FS_Difference
<1>7. Cardinality(enabled) >= RequiredMemes(n)
  BY DEF ContentInv, ContentCounted
<1>. HIDE DEF n, k, kept
<1>8. /\ RequiredMemes(n) \in Int /\ RequiredMemes(n) >= n + (n - 1) * HandSize
      /\ RequiredMemes(n) >= n * HandSize
  BY <1>2, RequiredIsEnough
<1>9. (k - 1) * HandSize <= (n - 1) * HandSize /\ k * HandSize <= n * HandSize
  BY <1>2, <1>3, FewerHands
<1>10. /\ (k - 1) * HandSize \in Int /\ (n - 1) * HandSize \in Int
       /\ k * HandSize \in Int /\ n * HandSize \in Int
  BY <1>2, <1>3, SizesAssumption
<1>11. Cardinality(enabled) - kept >= (k - 1) * HandSize
  BY <1>2, <1>4, <1>5, <1>7, <1>8, <1>9, <1>10
<1>12. Cardinality(enabled) >= k * HandSize
  BY <1>4, <1>7, <1>8, <1>9, <1>10
<1>. QED  BY <1>3, <1>6, <1>11, <1>12 DEF k

(* Those back in play with the next round are those who take part. *)
LEMMA EveryoneBack ==
  ASSUME NEW st  PROVE  ActiveIn(ResetSkipped(st)) = PlayingIn(st)
BY DEF ActiveIn, ResetSkipped, PlayingIn

(* Everyone present plays, originals are those of participants, and the      *)
(* content START_GAME counted is still there: what the deals rest on.        *)
THEOREM ContentInvariant == Spec => []ContentInv
BY EngineInvariant, ContentInit, ContentStep, PTL DEF Spec

(* START_GAME's check of the content covers every later round of the cycle, *)
(* whoever leaves, as long as nobody edits the content.                     *)
THEOREM EngineDealingCannotFail == Spec => []DealingCannotFail
<1>1. EngineInv /\ ContentInv => DealingCannotFail
  <2>. SUFFICES ASSUME EngineInv, ContentInv, phase # "NONE", edits = 0
                PROVE  Cardinality(enabled \ Originals(prepared))
                         >= (Cardinality(ActiveIn(ResetSkipped(status))) - 1) * HandSize
    BY DEF DealingCannotFail, RoundPhases
  <2>1. PlayingIn(status) \subseteq Participants /\ PreparedByPlayers(prepared)
    BY DEF PlayingIn, Participants, ContentInv, OriginalsOfParticipants, PreparedByPlayers
  <2>. QED  BY <2>1, ContentDealsRounds, EveryoneBack DEF EngineInv
<1>. QED  BY <1>1, EngineInvariant, ContentInvariant, PTL

-----------------------------------------------------------------------------
(* Who plays and who is here.  No command but a leave tells the two apart,  *)
(* and of the leaves only one between two cycles or after the game.         *)

LEMMA RoundKeepsPlaying ==
  ASSUME NEW st \in [Player -> Statuses], NEW tn,
         NextRoundOrFinish(st, tn) \/ \E prep : AdvanceToRoundSelection(st, prep)
  PROVE  Playing' = PlayingIn(st)
<1>1. ASSUME NEW q, NEW prep, StartRound(q, st, tn, prep)  PROVE Playing' = PlayingIn(st)
  BY <1>1 DEF StartRound, Playing, PlayingIn, ResetSkipped
<1>2. ASSUME NEW q, NEW prep, StartRound(q, st, turn, prep)  PROVE Playing' = PlayingIn(st)
  BY <1>2 DEF StartRound, Playing, PlayingIn, ResetSkipped
<1>3. status' = st => Playing' = PlayingIn(st)
  BY DEF Playing, PlayingIn
<1>. QED  BY <1>1, <1>2, <1>3 DEF NextRoundOrFinish, AdvanceToRoundSelection

LEMMA SubmitKeepsPlayers ==
  ASSUME TypeOK, NEW p \in Player, NEW m,
         SubmitPreparation(p, m) \/ SubmitRoundMeme(p, m) \/ SubmitVote(p, m)
  PROVE  Playing' = Playing /\ Present' = Present
<1>1. status \in [Player -> Statuses] /\ PlayingIn(status) = Playing
  BY DEF TypeOK, Statuses, PlayingIn, Playing
<1>2. Present' = Present
  BY DEF SubmitPreparation, SubmitRoundMeme, SubmitVote, Present
<1>3. status' = status => Playing' = Playing
  BY DEF Playing
<1>4. CASE SubmitPreparation(p, m)
  BY <1>1, <1>2, <1>3, <1>4, RoundKeepsPlaying DEF SubmitPreparation
<1>. QED  BY <1>2, <1>3, <1>4 DEF SubmitRoundMeme, SubmitVote

LEMMA ResolveKeepsPlayers ==
  ASSUME TypeOK, ResolvePhase
  PROVE  Playing' = Playing /\ Present' = Present
<1>1. status \in [Player -> Statuses] /\ PlayingIn(status) = Playing
  BY DEF TypeOK, Statuses, PlayingIn, Playing
<1>2. Present' = Present
  BY DEF ResolvePhase, Present
<1>3. CASE ResolvePreparation
  BY <1>1, <1>2, <1>3, RoundKeepsPlaying DEF ResolvePreparation
<1>4. CASE ResolveSelection
  BY <1>2, <1>4 DEF ResolveSelection, Playing
<1>5. CASE ResolveVoting
  BY <1>2, <1>5 DEF ResolveVoting, Playing, ActiveIn
<1>. QED  BY <1>3, <1>4, <1>5 DEF ResolvePhase

LEMMA LeaveEndsPlaying ==
  ASSUME EngineInv, NEW p \in Player, ApplyLeave(p)
  PROVE  /\ Present' = Present \ {p} /\ p \in Present
         /\ Playing' = Playing \ {p} \/ (phase \in {"CYCLE_RESULTS", "GAME_RESULTS"}
                                         /\ UNCHANGED <<phase, status>> /\ Playing' = Playing)
<1>1. /\ Dropped(p) \in [Player -> Statuses]
      /\ PlayingIn(Dropped(p)) = Playing \ {p}
  BY DroppedRemain DEF EngineInv
<1>2. Present' = Present \ {p} /\ p \in Present
  BY DEF ApplyLeave, Present, EngineInv, TypeOK
<1>3. status' = Dropped(p) => Playing' = Playing \ {p}
  BY <1>1 DEF Playing, PlayingIn
<1>4. CASE LeavePreparation(p) \/ LeaveOwnRound(p)
  BY <1>1, <1>2, <1>3, <1>4, RoundKeepsPlaying DEF LeavePreparation, LeaveOwnRound
<1>5. CASE LeaveSelection(p) \/ LeaveVoting(p)
  BY <1>2, <1>3, <1>5 DEF LeaveSelection, LeaveVoting
<1>6. CASE LeaveBetweenRounds(p)
  <2>1. CASE phase = "NONE"
    <3>1. status' = status /\ Playing = {}
      BY <1>6, <2>1 DEF LeaveBetweenRounds, EngineInv, RoomMatchesPhase, Playing
    <3>. QED  BY <1>2, <3>1 DEF Playing
  <2>2. CASE phase # "NONE"
    <3>1. phase \in {"ROUND_RESULTS", "CYCLE_RESULTS", "GAME_RESULTS"}
      BY <1>6, <2>2 DEF LeaveBetweenRounds, EngineInv, TypeOK, Phases
    <3>2. CASE phase = "ROUND_RESULTS"
      BY <1>2, <1>3, <1>6, <3>2 DEF LeaveBetweenRounds
    <3>3. CASE phase # "ROUND_RESULTS"
      BY <1>2, <1>6, <3>1, <3>3 DEF LeaveBetweenRounds, Playing
    <3>. QED  BY <3>2, <3>3
  <2>. QED  BY <2>1, <2>2
<1>. QED  BY <1>4, <1>5, <1>6 DEF ApplyLeave

LEMMA PrivilegedKeepsPlayers ==
  ASSUME EngineInv, NEW a \in Actors,
         StartGame(a) \/ NextRound(a) \/ StartNextCycle(a) \/ ForceResolvePhase(a) \/ StartNewGame(a)
  PROVE  /\ Present' = Present
         /\ \/ Playing' = Playing
            \/ phase = "NONE" /\ Playing' = Present /\ Present # {}
            \/ phase = "GAME_RESULTS" /\ Playing' = {} /\ phase' = "NONE"
<1>1. /\ ResetSkipped(status) \in [Player -> Statuses]
      /\ PlayingIn(ResetSkipped(status)) = Playing
  BY DEF EngineInv, TypeOK, Statuses, PlayingIn, Playing, ResetSkipped
<1>2. Present' = Present
  BY DEF StartGame, NextRound, StartNextCycle, ForceResolvePhase, ResolvePhase, StartNewGame, Present
<1>3. CASE StartGame(a)
  <2>1. Playing' = Present
    BY <1>3 DEF StartGame, BeginCycle, Playing, Present
  <2>2. Present # {}
    BY <1>3, SomebodyStarts
  <2>. QED  BY <1>2, <1>3, <2>1, <2>2 DEF StartGame, EngineInv, RoomMatchesPhase
<1>4. CASE NextRound(a)
  BY <1>1, <1>2, <1>4, RoundKeepsPlaying DEF NextRound
<1>5. CASE StartNextCycle(a)
  BY <1>1, <1>2, <1>5 DEF StartNextCycle, BeginCycle, Playing, PlayingIn
<1>6. CASE ForceResolvePhase(a)
  BY <1>2, <1>6, ResolveKeepsPlayers DEF ForceResolvePhase, EngineInv
<1>7. CASE StartNewGame(a)
  BY <1>2, <1>7 DEF StartNewGame, Playing, EngineInv, RoomMatchesPhase
<1>. QED  BY <1>3, <1>4, <1>5, <1>6, <1>7

(* How a command changes who plays and who is here. *)
LEMMA PlayersStep ==
  ASSUME EngineInv, [Next]_vars
  PROVE  \/ Playing' = Playing /\ Present \subseteq Present'
         \/ \E p \in Player : Playing' = Playing \ {p} /\ Present' = Present \ {p}
         \/ Playing' \subseteq Present' /\ phase = "NONE"
         \/ Playing' = {} /\ phase' = "NONE"
         \/ /\ phase \in {"CYCLE_RESULTS", "GAME_RESULTS"} /\ phase' = phase
            /\ Playing' = Playing
<1>1. CASE UNCHANGED <<member, status>>
  BY <1>1 DEF Playing, Present
<1>2. ASSUME NEW p \in Player, ApplyLeave(p)
      PROVE  \/ Playing' = Playing \ {p} /\ Present' = Present \ {p}
             \/ /\ phase \in {"CYCLE_RESULTS", "GAME_RESULTS"} /\ phase' = phase
                /\ Playing' = Playing
  BY <1>2, LeaveEndsPlaying
<1>3. ASSUME NEW p \in Player, JoinRoom(p)
      PROVE  Playing' = Playing /\ Present \subseteq Present'
  BY <1>3 DEF JoinRoom, Playing, Present, EngineInv, TypeOK
<1>4. ASSUME NEW p \in Player, PlayerStep(p), ~JoinRoom(p), ~LeaveRoom(p)
      PROVE  Playing' = Playing /\ Present \subseteq Present'
  BY <1>4, SubmitKeepsPlayers DEF PlayerStep, EngineInv
<1>5. CASE TimeoutPhase
  BY <1>5, ResolveKeepsPlayers DEF TimeoutPhase, EngineInv
<1>6. ASSUME NEW a \in Actors, PrivilegedStep(a), ~ \E p \in Player : KickPlayer(a, p)
      PROVE  \/ Playing' = Playing /\ Present \subseteq Present'
             \/ Playing' \subseteq Present' /\ phase = "NONE"
             \/ Playing' = {} /\ phase' = "NONE"
  BY <1>6, PrivilegedKeepsPlayers DEF PrivilegedStep
<1>7. (\E m \in Meme : SetMemeEnabled(m)) \/ UNCHANGED vars => UNCHANGED <<member, status>>
  BY DEF SetMemeEnabled, vars
<1>. QED
  BY <1>1, <1>2, <1>3, <1>4, <1>5, <1>6, <1>7 DEF Next, PlayerStep, LeaveRoom, KickPlayer

(* Whoever leaves in a round of their own or another's, skipped or not, no  *)
(* longer takes part; only a leave between two cycles or after the game is  *)
(* forgotten.                                                               *)
THEOREM EngineOnlyResultsForgetLeavers == Spec => OnlyResultsForgetLeavers
<1> DEFINE Kept == \/ Playing' \ Present' \subseteq Playing \ Present
                   \/ phase \in {"CYCLE_RESULTS", "GAME_RESULTS"}
<1>1. EngineInv /\ [Next]_vars => [Kept]_vars
  <2>. SUFFICES ASSUME EngineInv, [Next]_vars  PROVE Kept
    OBVIOUS
  <2>. QED  BY PlayersStep
<1>. QED  BY <1>1, EngineInvariant, PTL DEF Spec, OnlyResultsForgetLeavers

-----------------------------------------------------------------------------
(* Who has left.  A game of one cycle has no phase in which it is forgotten. *)

(* A game that is over stays over until it is reset. *)
LEMMA GameOverStays ==
  ASSUME EngineInv, phase = "GAME_RESULTS", [Next]_vars
  PROVE  phase' = "GAME_RESULTS" \/ Playing' = {}
<1>1. ASSUME NEW p \in Player, ApplyLeave(p)  PROVE phase' = phase
  BY <1>1 DEF ApplyLeave, LeavePreparation, LeaveOwnRound, LeaveSelection, LeaveVoting,
              LeaveBetweenRounds
<1>2. ~ResolvePhase
  BY DEF ResolvePhase, ResolvePreparation, ResolveSelection, ResolveVoting
<1>3. ASSUME NEW p \in Player, PlayerStep(p)  PROVE phase' = phase
  BY <1>1, <1>3 DEF PlayerStep, JoinRoom, LeaveRoom, SubmitPreparation, SubmitRoundMeme, SubmitVote
<1>4. ASSUME NEW a \in Actors, PrivilegedStep(a)  PROVE phase' = phase \/ Playing' = {}
  <2>1. ~StartGame(a)
    BY DEF StartGame, EngineInv, RoomMatchesPhase
  <2>2. CASE StartNewGame(a)
    BY <2>2 DEF StartNewGame, Playing
  <2>. QED  BY <1>1, <1>2, <1>4, <2>1, <2>2
            DEF PrivilegedStep, NextRound, StartNextCycle, ForceResolvePhase, KickPlayer
<1>. QED  BY <1>2, <1>3, <1>4 DEF Next, TimeoutPhase, SetMemeEnabled, vars

(* A game of one cycle waits for nobody who has left.  (An infinite one may: *)
(* see the run that shows it.)                                               *)
THEOREM EngineWaitsForThePresent == ~InfiniteGame => (Spec => []NobodyWaitsForTheGone)
<1> DEFINE AllHere == phase = "GAME_RESULTS" \/ Playing \subseteq Present
<1>. SUFFICES ASSUME ~InfiniteGame  PROVE Spec => []NobodyWaitsForTheGone
  OBVIOUS
<1>1. Init => AllHere
  BY DEF Init, Playing
<1>2. EngineInv /\ PauseInv /\ AllHere /\ [Next]_vars => AllHere'
  <2>. SUFFICES ASSUME EngineInv, PauseInv, AllHere, [Next]_vars  PROVE AllHere'
    OBVIOUS
  <2>1. phase # "CYCLE_RESULTS"
    BY DEF PauseInv, OnlyInfiniteGamesPause
  <2>2. CASE phase = "GAME_RESULTS"
    <3>1. phase' = "GAME_RESULTS" \/ Playing' = {}
      BY <2>2, GameOverStays
    <3>. QED  BY <3>1
  <2>3. CASE phase # "GAME_RESULTS"
    BY <2>1, <2>3, PlayersStep
  <2>. QED  BY <2>2, <2>3
<1>3. AllHere => NobodyWaitsForTheGone
  BY DEF NobodyWaitsForTheGone, OpenPhases, ActiveIn, Playing
<1>. QED  BY <1>1, <1>2, <1>3, EngineInvariant, PauseInvariant, PTL DEF Spec

-----------------------------------------------------------------------------
(* Where a command may fail halfway.  A deal exists wherever the pool is as large as *)
(* the hands together (PoolCanBeShared); the content START_GAME has counted  *)
(* makes it as large, whatever was prepared and whoever has left.            *)

LEMMA DealExists ==
  ASSUME NEW ps \in SUBSET Player, NEW pool \in SUBSET Meme,
         Cardinality(pool) >= Cardinality(ps) * HandSize
  PROVE  Deals(ps, pool) # {}
<1>1. IsFiniteSet(ps) /\ IsFiniteSet(pool) /\ HandSize \in Nat
  BY PlayersAreNumbers, ContentAssumption, SizesAssumption, FS_Subset
<1>2. \E hands \in [ps -> kSubset(HandSize, pool)] :
         \A p, q \in ps : p # q => hands[p] \cap hands[q] = {}
  BY <1>1, PoolCanBeShared
<1>. QED  BY <1>2 DEF Deals

LEMMA RoundCanStart ==
  ASSUME TypeOK, ContentInv, phase # "NONE", edits = 0,
         NEW st, PlayingIn(st) \subseteq Participants,
         NEW tn, NEW prep, PreparedByPlayers(prep),
         \A q \in Player : st[q] = "ACTIVE" => prep[q] # NoMeme
  PROVE  CanMoveOn(st, tn, prep)
<1> DEFINE p == NextEligible(st, tn)
           others == PlayingIn(st) \ {p}
<1>. SUFFICES ASSUME Eligible(st, tn) # {}
              PROVE  prep[p] # NoMeme /\ Deals(ActiveIn(ResetSkipped(st)) \ {p}, RoundPool(p, prep)) # {}
  BY DEF CanMoveOn, CanStart
<1>1. p \in Player /\ st[p] = "ACTIVE" /\ prep[p] # NoMeme
  BY NextEligiblePlayer
<1>2. p \in PlayingIn(st) /\ others \in SUBSET Player
  BY <1>1 DEF PlayingIn
<1>. HIDE DEF p
<1>3. IsFiniteSet(PlayingIn(st))
  <2>1. PlayingIn(st) \in SUBSET Player
    BY DEF PlayingIn
  <2>. QED  BY <2>1, PlayersAreNumbers, FS_Subset
<1>4. Cardinality(others) = Cardinality(PlayingIn(st)) - 1
  BY <1>2, <1>3, FS_RemoveElement
<1>5. Cardinality(RoundPool(p, prep)) >= Cardinality(others) * HandSize
  BY <1>4, ContentDealsRounds DEF RoundPool
<1>6. RoundPool(p, prep) \in SUBSET Meme
  BY DEF RoundPool, TypeOK
<1>7. Deals(others, RoundPool(p, prep)) # {}
  <2>. HIDE DEF others
  <2>. QED  BY <1>2, <1>5, <1>6, DealExists
<1>. QED  BY <1>1, <1>7, EveryoneBack

LEMMA CycleCanBegin ==
  ASSUME TypeOK, ContentInv, phase # "NONE", edits = 0
  PROVE  Deals(ActiveIn(ResetSkipped(status)), enabled) # {}
<1>1. PlayingIn(status) \subseteq Participants /\ PreparedByPlayers(prepared)
  BY DEF PlayingIn, Participants, ContentInv, OriginalsOfParticipants, PreparedByPlayers
<1>2. Cardinality(enabled) >= Cardinality(PlayingIn(status)) * HandSize
  BY <1>1, ContentDealsRounds
<1>3. PlayingIn(status) \in SUBSET Player /\ enabled \in SUBSET Meme
  BY DEF PlayingIn, TypeOK
<1>. QED  BY <1>2, <1>3, DealExists, EveryoneBack

(* What is known of a player who drops out of a game. *)
LEMMA DroppedTakePart ==
  ASSUME TypeOK, NEW p \in Player
  PROVE  /\ PlayingIn(Dropped(p)) \subseteq Participants
         /\ \A q \in Player : Dropped(p)[q] = "ACTIVE" => status[q] = "ACTIVE"
<1>1. \A q \in Player : Dropped(p)[q] = IF q = p THEN "LEFT" ELSE status[q]
  BY DEF Dropped, TypeOK
<1>. QED  BY <1>1 DEF PlayingIn, Participants

LEMMA ChainsHold ==
  ASSUME EngineInv, DealInv, ContentInv, PauseInv
  PROVE  ChainsNeverFail
<1>. SUFFICES ASSUME edits = 0  PROVE ChainsNeverFail
  BY DEF ChainsNeverFail
<1>1. /\ TypeOK /\ status \in [Player -> Statuses] /\ prepared \in PlayerMemes
      /\ prepHand \in PlayerHands
      /\ PreparedByPlayers(prepared)
      /\ PlayingIn(status) \subseteq Participants
  BY DEF EngineInv, TypeOK, Statuses, PlayerMemes, PlayerHands, PlayingIn, Participants,
         ContentInv, OriginalsOfParticipants, PreparedByPlayers
<1>2. ASSUME phase = "PREPARATION", NEW st  PROVE Eligible(st, turn) = ActiveIn(st)
  BY <1>2 DEF EngineInv, CycleBegins, NoTurns, Eligible, ActiveIn
<1>3. ASSUME phase = "PREPARATION", NEW prep \in Filled(prepared, LatePreparations, prepHand)
      PROVE  CanStart(status, turn, prep) \/ Deserted
  <2>1. PreparedByPlayers(prep)
    <3>1. \A q \in Player : prep[q] # prepared[q] => q \in LatePreparations
      BY DEF Filled
    <3>. QED  BY <1>1, <3>1 DEF PreparedByPlayers, LatePreparations, ActiveIn
  <2>2. \A q \in Player : status[q] = "ACTIVE" => prep[q] # NoMeme
    <3>1. \A q \in Player : (q \in LatePreparations => prepHand[q] # {})
                            /\ (q \notin LatePreparations => prepared[q] # NoMeme)
                              => prep[q] # NoMeme
      <4>1. \A q \in Player : prepared[q] # NoMeme => prepared[q] \in prepHand[q]
        BY DEF DealInv, HandsAreSecret
      <4>. QED  BY <1>1, <4>1, FilledFromHands
    <3>2. \A q \in Player : status[q] = "ACTIVE" =>
             /\ prepHand[q] # {}
             /\ q \notin LatePreparations => prepared[q] # NoMeme
      BY <1>3 DEF EngineInv, CycleBegins, LatePreparations, ActiveIn
    <3>. QED  BY <3>1, <3>2
  <2>3. CanMoveOn(status, turn, prep)
    BY <1>1, <1>3, <2>1, <2>2, RoundCanStart
  <2>. QED  BY <1>2, <1>3, <2>3 DEF CanMoveOn, PauseInv, SomebodyPrepares
<1>4. ASSUME phase = "PREPARATION", NEW p \in Present,
             AllActivePrepared(Dropped(p), [prepared EXCEPT ![p] = NoMeme])
      PROVE  \/ CanStart(Dropped(p), turn, [prepared EXCEPT ![p] = NoMeme])
             \/ ActiveIn(status) \subseteq {p}
  <2> DEFINE prep == [prepared EXCEPT ![p] = NoMeme]
  <2>1. p \in Player /\ PlayingIn(Dropped(p)) \subseteq Participants
    BY <1>1, DroppedTakePart DEF Present
  <2>2. PreparedByPlayers(prep)
    BY <1>1 DEF PreparedByPlayers, PlayerMemes
  <2>3. \A q \in Player : Dropped(p)[q] = "ACTIVE" => prep[q] # NoMeme
    BY <1>4 DEF AllActivePrepared, ActiveIn
  <2>. HIDE DEF prep
  <2>4. CanMoveOn(Dropped(p), turn, prep)
    BY <1>1, <1>4, <2>1, <2>2, <2>3, RoundCanStart
  <2>5. ActiveIn(Dropped(p)) = ActiveIn(status) \ {p}
    BY <1>1, <2>1 DEF ActiveIn, Dropped
  <2>6. CanStart(Dropped(p), turn, prep) \/ ActiveIn(status) \subseteq {p}
    BY <1>2, <1>4, <2>4, <2>5 DEF CanMoveOn
  <2>. QED  BY <2>6 DEF prep
<1>5. ASSUME phase = "ROUND_SELECTION"
      PROVE  CanMoveOn(Dropped(current), [turn EXCEPT ![current] = "CANCELLED"], prepared)
  <2>1. current \in Player
    BY <1>5 DEF EngineInv, RoundIsOpen
  <2>2. /\ PlayingIn(Dropped(current)) \subseteq Participants
        /\ \A q \in Player : Dropped(current)[q] = "ACTIVE" => prepared[q] # NoMeme
    BY <1>1, <1>5, <2>1, DroppedTakePart DEF EngineInv, TurnsArePrepared, RoundPhases
  <2>. QED  BY <1>1, <1>5, <2>2, RoundCanStart
<1>6. ASSUME phase = "ROUND_RESULTS"
      PROVE  CanMoveOn(ResetSkipped(status), turn, prepared)
  <2>1. PlayingIn(ResetSkipped(status)) \subseteq Participants
    BY <1>1, PlayingTypes
  <2>2. \A q \in Player : ResetSkipped(status)[q] = "ACTIVE" => prepared[q] # NoMeme
    BY <1>6 DEF EngineInv, TurnsArePrepared, RoundPhases, ResetSkipped
  <2>. QED  BY <1>1, <1>6, <2>1, <2>2, RoundCanStart
<1>7. ASSUME phase = "CYCLE_RESULTS"
      PROVE  Deals(ActiveIn(ResetSkipped(status)), enabled) # {}
  BY <1>1, <1>7, CycleCanBegin
<1>. QED  BY <1>3, <1>4, <1>5, <1>6, <1>7 DEF ChainsNeverFail

(* Two chains of phase changes fail halfway and no others: the leave of the  *)
(* last who is ACTIVE in a PREPARATION, and the end of a PREPARATION in      *)
(* which nobody is.  Everywhere else, whatever memes are chosen for the      *)
(* late, somebody opens the round and there is an original and a hand for    *)
(* everybody else, and the next cycle has a hand for everybody.              *)
THEOREM EngineChainsNeverFail == Spec => []ChainsNeverFail
BY ChainsHold, EngineInvariant, DealInvariant, ContentInvariant, PauseInvariant, PTL

-----------------------------------------------------------------------------
(* What a round pays.  Nobody votes for their own option, the active player  *)
(* does not vote, and all who did have a row to be paid on: so each of them  *)
(* concerns the round in one way only, and the calculator's sums have one    *)
(* term.                                                                     *)

FairVotes(vt) ==
  /\ vt \in [Player -> Player \cup {NoPlayer}]
  /\ \A p \in Player : vt[p] # NoPlayer => vt[p] # p /\ p # current /\ status[p] # "NONE"

VotesInv ==
  phase \in {"ROUND_SELECTION", "ROUND_VOTING"} =>
    current \in Player /\ status[current] # "NONE" /\ FairVotes(votes)

LEMMA NewRoundVotes ==
  ASSUME NEW st \in [Player -> Statuses], NEW tn, NEW prep, Eligible(st, tn) # {},
         StartRound(NextEligible(st, tn), st, tn, prep)
  PROVE  VotesInv'
<1> DEFINE p == NextEligible(st, tn)
<1>1. p \in Player /\ st[p] = "ACTIVE"
  BY NextEligiblePlayer
<1>2. current' = p /\ votes' = NoVotes /\ status' = ResetSkipped(st)
  BY DEF StartRound
<1>. HIDE DEF p
<1>3. status'[p] # "NONE"
  BY <1>1, <1>2 DEF ResetSkipped
<1>. QED  BY <1>1, <1>2, <1>3, EmptyTypes DEF VotesInv, FairVotes, NoVotes

LEMMA RoundVotes ==
  ASSUME NEW st \in [Player -> Statuses], NEW tn,
         NextRoundOrFinish(st, tn) \/ \E prep : AdvanceToRoundSelection(st, prep)
  PROVE  VotesInv'
<1>1. CASE Eligible(st, tn) = {} /\ NextRoundOrFinish(st, tn)
  BY <1>1 DEF NextRoundOrFinish, FinishCycle, VotesInv
<1>2. CASE Eligible(st, tn) # {} /\ NextRoundOrFinish(st, tn)
  BY <1>2, NewRoundVotes DEF NextRoundOrFinish
<1>3. CASE \E prep : AdvanceToRoundSelection(st, prep)
  BY <1>3, NewRoundVotes DEF AdvanceToRoundSelection
<1>. QED  BY <1>1, <1>2, <1>3

LEMMA OtherPhasesVotes ==
  ASSUME phase' \notin {"ROUND_SELECTION", "ROUND_VOTING"}
  PROVE  VotesInv'
BY DEF VotesInv

LEMMA SameVotes ==
  ASSUME VotesInv, UNCHANGED <<current, votes>>,
         phase' \in {"ROUND_SELECTION", "ROUND_VOTING"} => phase \in {"ROUND_SELECTION", "ROUND_VOTING"},
         \A q \in Player : status[q] # "NONE" => status'[q] # "NONE"
  PROVE  VotesInv'
BY DEF VotesInv, FairVotes

LEMMA LeaveVotes ==
  ASSUME TypeOK, VotesInv, NEW p \in Player, ApplyLeave(p)
  PROVE  VotesInv'
<1>1. /\ Dropped(p) \in [Player -> Statuses]
      /\ \A q \in Player : status[q] # "NONE" => Dropped(p)[q] # "NONE"
  BY DroppedType DEF Dropped, TypeOK
<1>2. CASE LeavePreparation(p)
  BY <1>1, <1>2, RoundVotes, OtherPhasesVotes DEF LeavePreparation
<1>3. CASE LeaveOwnRound(p)
  BY <1>1, <1>3, RoundVotes DEF LeaveOwnRound
<1>4. CASE LeaveSelection(p)
  BY <1>1, <1>4, SameVotes DEF LeaveSelection, AdvanceToRoundVoting
<1>5. CASE LeaveVoting(p)
  BY <1>1, <1>5, SameVotes, OtherPhasesVotes DEF LeaveVoting, AdvanceToRoundResults, roundVars
<1>6. CASE LeaveBetweenRounds(p)
  BY <1>6, OtherPhasesVotes DEF LeaveBetweenRounds, OpenPhases
<1>. QED  BY <1>2, <1>3, <1>4, <1>5, <1>6 DEF ApplyLeave

LEMMA VoteIsFair ==
  ASSUME TypeOK, VotesInv, NEW p \in Player, NEW o \in Player, SubmitVote(p, o)
  PROVE  FairVotes([votes EXCEPT ![p] = o])
BY DEF SubmitVote, TypeOK, VotesInv, FairVotes

LEMMA SubmitVotes ==
  ASSUME TypeOK, VotesInv, NEW p \in Player,
         \/ \E m \in Meme : SubmitPreparation(p, m)
         \/ \E m \in Meme : SubmitRoundMeme(p, m)
         \/ \E o \in Player : SubmitVote(p, o)
  PROVE  VotesInv'
<1>1. ASSUME NEW m \in Meme, SubmitPreparation(p, m)  PROVE VotesInv'
  <2>1. status \in [Player -> Statuses] /\ phase = "PREPARATION"
    BY <1>1 DEF SubmitPreparation, TypeOK, Statuses
  <2>. QED  BY <1>1, <2>1, RoundVotes, OtherPhasesVotes DEF SubmitPreparation
<1>2. ASSUME NEW m \in Meme, SubmitRoundMeme(p, m)  PROVE VotesInv'
  BY <1>2, SameVotes DEF SubmitRoundMeme, AdvanceToRoundVoting
<1>3. ASSUME NEW o \in Player, SubmitVote(p, o)  PROVE VotesInv'
  <2> DEFINE vt == [votes EXCEPT ![p] = o]
  <2>1. FairVotes(vt) /\ phase = "ROUND_VOTING" /\ UNCHANGED status
    BY <1>3, VoteIsFair DEF SubmitVote
  <2>2. CASE AdvanceToRoundResults(vt)
    BY <2>2, OtherPhasesVotes DEF AdvanceToRoundResults
  <2>3. CASE votes' = vt /\ UNCHANGED <<phase, current>>
    <3>. HIDE DEF vt
    <3>. QED  BY <2>1, <2>3 DEF VotesInv, FairVotes
  <2>. QED  BY <1>3, <2>2, <2>3 DEF SubmitVote
<1>. QED  BY <1>1, <1>2, <1>3

LEMMA ResolveVotes ==
  ASSUME TypeOK, VotesInv, ResolvePhase
  PROVE  VotesInv'
<1>1. status \in [Player -> Statuses]
  BY DEF TypeOK, Statuses
<1>2. CASE ResolvePreparation
  BY <1>1, <1>2, RoundVotes DEF ResolvePreparation
<1>3. CASE ResolveSelection
  BY <1>3, SameVotes DEF ResolveSelection, AdvanceToRoundVoting
<1>4. CASE ResolveVoting
  BY <1>4, OtherPhasesVotes DEF ResolveVoting, AdvanceToRoundResults
<1>. QED  BY <1>2, <1>3, <1>4 DEF ResolvePhase

LEMMA PrivilegedVotes ==
  ASSUME TypeOK, VotesInv, NEW a \in Actors, PrivilegedStep(a)
  PROVE  VotesInv'
<1>1. ResetSkipped(status) \in [Player -> Statuses]
  BY DEF ResetSkipped, TypeOK, Statuses
<1>2. CASE NextRound(a)
  BY <1>1, <1>2, RoundVotes DEF NextRound
<1>3. CASE StartGame(a) \/ StartNextCycle(a) \/ StartNewGame(a)
  BY <1>3, OtherPhasesVotes DEF StartGame, StartNextCycle, BeginCycle, StartNewGame
<1>. QED
  BY <1>2, <1>3, ResolveVotes, LeaveVotes DEF PrivilegedStep, ForceResolvePhase, KickPlayer

LEMMA VotesStep == TypeOK /\ VotesInv /\ [Next]_vars => VotesInv'
<1>. SUFFICES ASSUME TypeOK, VotesInv, [Next]_vars  PROVE VotesInv'
  OBVIOUS
<1>1. CASE UNCHANGED <<phase, current, votes, status>>
  BY <1>1, SameVotes
<1>2. ASSUME NEW p \in Player, PlayerStep(p)  PROVE VotesInv'
  BY <1>1, <1>2, SubmitVotes, LeaveVotes DEF PlayerStep, JoinRoom, LeaveRoom, roundVars
<1>. QED
  BY <1>1, <1>2, ResolveVotes, PrivilegedVotes
  DEF Next, TimeoutPhase, SetMemeEnabled, vars, roundVars

(* The results are made of fair votes. *)
LEMMA ResultsOfFairVotes ==
  ASSUME EngineInv, VotesInv, phase = "ROUND_VOTING", [Next]_vars, phase' = "ROUND_RESULTS"
  PROVE  \E vt : FairVotes(vt) /\ AdvanceToRoundResults(vt)
<1>1. FairVotes(votes) /\ roomState = "IN_GAME" /\ TypeOK
  BY DEF VotesInv, EngineInv, TypeOK, RoomMatchesPhase
<1>2. ASSUME NEW p \in Player, ApplyLeave(p)  PROVE AdvanceToRoundResults(votes)
  BY <1>2 DEF ApplyLeave, LeavePreparation, LeaveOwnRound, LeaveSelection, LeaveVoting,
              LeaveBetweenRounds, OpenPhases
<1>3. ResolvePhase => AdvanceToRoundResults(votes)
  BY DEF ResolvePhase, ResolvePreparation, ResolveSelection, ResolveVoting
<1>4. ASSUME NEW p \in Player, NEW o \in Player, SubmitVote(p, o)
      PROVE  \E vt : FairVotes(vt) /\ AdvanceToRoundResults(vt)
  <2>1. AdvanceToRoundResults([votes EXCEPT ![p] = o])
    BY <1>4 DEF SubmitVote
  <2>. QED  BY <1>1, <1>4, <2>1, VoteIsFair
<1>5. ASSUME NEW p \in Player, PlayerStep(p)
      PROVE  \E vt : FairVotes(vt) /\ AdvanceToRoundResults(vt)
  <2>1. (\E o \in Player : SubmitVote(p, o)) \/ LeaveRoom(p)
    BY <1>1, <1>5 DEF PlayerStep, JoinRoom, SubmitPreparation, SubmitRoundMeme
  <2>. QED  BY <1>1, <1>2, <1>4, <2>1 DEF LeaveRoom
<1>6. ASSUME NEW a \in Actors, PrivilegedStep(a)
      PROVE  \E vt : FairVotes(vt) /\ AdvanceToRoundResults(vt)
  <2>1. ForceResolvePhase(a) \/ \E p \in Player : KickPlayer(a, p)
    BY <1>1, <1>6 DEF PrivilegedStep, StartGame, NextRound, StartNextCycle, StartNewGame
  <2>. QED  BY <1>1, <1>2, <1>3, <2>1 DEF ForceResolvePhase, KickPlayer
<1>. QED  BY <1>1, <1>3, <1>5, <1>6 DEF Next, TimeoutPhase, SetMemeEnabled, vars

(* Who of the voters guessed, in the terms of the calculator. *)
LEMMA GuessersCounted ==
  ASSUME NEW voters \in SUBSET Player, NEW guessed \in SUBSET voters
  PROVE  /\ Cardinality(voters) > 0 <=> voters # {}
         /\ Cardinality(guessed) = Cardinality(voters) <=> guessed = voters
         /\ Cardinality(guessed) = 0 <=> guessed = {}
         /\ Cardinality(guessed) \in Nat
<1>1. IsFiniteSet(voters)
  BY PlayersAreNumbers, FS_Subset
<1>2. IsFiniteSet(guessed)
  BY <1>1, FS_Subset
<1>3. Cardinality(guessed) = Cardinality(voters) <=> guessed = voters
  BY <1>1, FS_Subset
<1>4. Cardinality(voters) \in Nat /\ Cardinality(guessed) \in Nat
  BY <1>1, <1>2, FS_CardinalityType
<1>5. Cardinality(voters) = 0 <=> voters = {}
  BY <1>1, FS_EmptySet
<1>6. Cardinality(guessed) = 0 <=> guessed = {}
  BY <1>2, FS_EmptySet
<1>. QED  BY <1>3, <1>4, <1>5, <1>6

(* The pay of a round of fair votes. *)
PayOf(vt, all, none, some) ==
  LET voters == {p \in Player : vt[p] # NoPlayer}
      guessed == {p \in voters : vt[p] = current}
  IN IF voters # {} /\ guessed = voters THEN all ELSE IF guessed = {} THEN none ELSE some

LEMMA FairVotesArePaid ==
  ASSUME TypeOK, current \in Player, status[current] # "NONE",
         NEW vt, FairVotes(vt), AdvanceToRoundResults(vt), NEW p \in Player
  PROVE  score'[p] - score[p] =
           IF p = current
           THEN PayOf(vt, ScoreConfig.allGuessedActivePlayer, ScoreConfig.noneGuessedActivePlayer,
                      ScoreConfig.partialActiveBase
                        + ScoreConfig.partialActivePerGuesser
                            * Cardinality({q \in {r \in Player : vt[r] # NoPlayer} : vt[q] = current}))
           ELSE IF p \in {r \in Player : vt[r] # NoPlayer}
           THEN PayOf(vt, ScoreConfig.allGuessedGuesser, ScoreConfig.noneGuessedOtherPlayer,
                      ScoreConfig.partialGuesser)
           ELSE 0
<1> DEFINE voters == {q \in Player : vt[q] # NoPlayer}
           guessed == {q \in voters : vt[q] = current}
           facts == RoundFacts(vt)
           delta == CalculateRound(facts, ScoreConfig)
<1>1. /\ facts.active = current /\ facts.guessers = voters /\ facts.selfVoters = {}
      /\ facts.totalVotes = Cardinality(voters) /\ facts.votesForOriginal = Cardinality(guessed)
  BY DEF RoundFacts, FairVotes
<1>2. guessed \in SUBSET voters /\ voters \in SUBSET Player /\ current \notin voters
      /\ \A q \in voters : status[q] # "NONE"
  BY DEF FairVotes
<1>3. score[p] \in Int
  BY DEF TypeOK
<1>4. score'[p] = IF p \in DOMAIN delta /\ status[p] # "NONE" THEN score[p] + delta[p] ELSE score[p]
  BY DEF AdvanceToRoundResults
<1>6. \A q \in DOMAIN delta : delta[q] \in Int
  BY DeltaType DEF FairVotes
<1>. HIDE DEF facts
<1>7. DOMAIN delta = {current} \cup voters
  BY <1>1 DEF CalculateRound
<1>8. \A q \in DOMAIN delta :
         delta[q] = (IF q = current THEN ActiveDelta(facts, ScoreConfig) ELSE 0)
                  + (IF q \in voters THEN GuesserDelta(facts, ScoreConfig) ELSE 0) + 0
  BY <1>1 DEF CalculateRound
<1>. HIDE DEF voters, guessed, delta
<1>9. /\ AllGuessed(facts) <=> voters # {} /\ guessed = voters
      /\ NoneGuessed(facts) <=> ~(voters # {} /\ guessed = voters) /\ guessed = {}
  BY <1>1, <1>2, GuessersCounted DEF AllGuessed, NoneGuessed
<1>10. Cardinality(guessed) \in Nat
  BY <1>2, GuessersCounted
<1>11. /\ ActiveDelta(facts, ScoreConfig) =
            PayOf(vt, ScoreConfig.allGuessedActivePlayer, ScoreConfig.noneGuessedActivePlayer,
                  ScoreConfig.partialActiveBase
                    + ScoreConfig.partialActivePerGuesser * Cardinality(guessed))
       /\ GuesserDelta(facts, ScoreConfig) =
            PayOf(vt, ScoreConfig.allGuessedGuesser, ScoreConfig.noneGuessedOtherPlayer,
                  ScoreConfig.partialGuesser)
  BY <1>1, <1>9 DEF ActiveDelta, GuesserDelta, PayOf, voters, guessed
<1>12. ActiveDelta(facts, ScoreConfig) \in Int
  BY <1>1, <1>10 DEF ActiveDelta, ScoreConfigs
<1>13. GuesserDelta(facts, ScoreConfig) \in Int
  BY DEF GuesserDelta, ScoreConfigs
<1>14. CASE p = current
  <2>1. p \in DOMAIN delta /\ delta[p] = ActiveDelta(facts, ScoreConfig)
    BY <1>2, <1>7, <1>8, <1>12, <1>14
  <2>2. score'[p] - score[p] = ActiveDelta(facts, ScoreConfig)
    BY <1>3, <1>4, <1>12, <1>14, <2>1
  <2>. QED  BY <1>11, <1>14, <2>2 DEF guessed, voters
<1>15. CASE p # current /\ p \in voters
  <2>1. p \in DOMAIN delta /\ delta[p] = GuesserDelta(facts, ScoreConfig)
    BY <1>7, <1>8, <1>13, <1>15
  <2>2. score'[p] - score[p] = GuesserDelta(facts, ScoreConfig)
    BY <1>2, <1>3, <1>4, <1>13, <1>15, <2>1
  <2>. QED  BY <1>11, <1>15, <2>2 DEF voters
<1>16. CASE p # current /\ p \notin voters
  BY <1>3, <1>4, <1>7, <1>16 DEF voters
<1>. QED  BY <1>14, <1>15, <1>16

(* The outcome of a round decides what it pays, for any weights and whoever  *)
(* left since they voted: the active player, and every guesser who found the *)
(* original and whose own meme got no vote.                                  *)
THEOREM EngineOutcomeIsPaid == Spec => OutcomeIsPaid
<1>1. EngineInv /\ VotesInv /\ [Next]_vars => [PaysByOutcome]_vars
  <2>. SUFFICES ASSUME EngineInv, VotesInv, [Next]_vars,
                       phase = "ROUND_VOTING", phase' = "ROUND_RESULTS"
                PROVE  PaysByOutcome
    BY DEF PaysByOutcome
  <2>1. PICK vt : FairVotes(vt) /\ AdvanceToRoundResults(vt)
    BY ResultsOfFairVotes
  <2>2. votes' = vt /\ TypeOK /\ current \in Player /\ status[current] # "NONE"
    BY <2>1 DEF AdvanceToRoundResults, EngineInv, VotesInv
  <2>3. FairVotes(votes') /\ AdvanceToRoundResults(votes')
    BY <2>1, <2>2
  <2> DEFINE voters == {p \in Player : votes'[p] # NoPlayer}
             guessed == {p \in voters : votes'[p] = current}
  <2>4. ASSUME NEW p \in Player
        PROVE  score'[p] - score[p] =
                 IF p = current
                 THEN PayOf(votes', ScoreConfig.allGuessedActivePlayer,
                            ScoreConfig.noneGuessedActivePlayer,
                            ScoreConfig.partialActiveBase
                              + ScoreConfig.partialActivePerGuesser * Cardinality(guessed))
                 ELSE IF p \in voters
                 THEN PayOf(votes', ScoreConfig.allGuessedGuesser,
                            ScoreConfig.noneGuessedOtherPlayer, ScoreConfig.partialGuesser)
                 ELSE 0
    BY <2>2, <2>3, FairVotesArePaid
  <2>5. guessed \subseteq voters /\ voters \subseteq Player /\ current \notin voters
    BY <2>3 DEF FairVotes
  <2>6. ASSUME NEW all, NEW none, NEW some
        PROVE  PayOf(votes', all, none, some) =
                 IF guessed = {} THEN none ELSE IF guessed = voters THEN all ELSE some
    BY DEF PayOf
  <2>. HIDE DEF voters, guessed
  <2>7. score'[current] - score[current] =
          IF guessed = {} THEN ScoreConfig.noneGuessedActivePlayer
          ELSE IF guessed = voters THEN ScoreConfig.allGuessedActivePlayer
          ELSE ScoreConfig.partialActiveBase
                 + ScoreConfig.partialActivePerGuesser * Cardinality(guessed)
    BY <2>2, <2>4, <2>6
  <2>8. ASSUME NEW p \in guessed
        PROVE  score'[p] - score[p] = IF guessed = voters THEN ScoreConfig.allGuessedGuesser
                                                          ELSE ScoreConfig.partialGuesser
    BY <2>4, <2>5, <2>6
  <2>. QED  BY <2>7, <2>8 DEF PaysByOutcome, voters, guessed
<1>2. Init => VotesInv
  BY DEF Init, VotesInv
<1>. QED
  BY <1>1, <1>2, VotesStep, EngineInvariant, TypeCorrect, PTL DEF Spec, OutcomeIsPaid

-----------------------------------------------------------------------------
(* The engine implements RoomPlayers.                                      *)

(* Who is in the room, in the terms of RoomPlayers. *)
LEMMA RoomMembers ==
  ASSUME TypeOK
  PROVE  /\ Room!Members = Present
         /\ Present \subseteq Rows /\ Gone \subseteq Rows /\ Hosts \subseteq Rows
         /\ Rows \subseteq Player
BY DEF TypeOK, Room!Members, Present, Rows, Gone, Hosts, HasRow

LEMMA LobbyHasNobodyGone ==
  ASSUME EngineInv, roomState = "LOBBY"
  PROVE  Rows = Present /\ Gone = {} /\ \A p \in Player : status[p] = "NONE"
BY DEF EngineInv, RoomMatchesPhase, Present, Rows, Gone, HasRow

LEMMA GameKeepsRows ==
  ASSUME UNCHANGED <<member, role>>, SamePlayers(status')
  PROVE  Rows' = Rows /\ Gone' = Gone /\ Hosts' = Hosts
BY DEF SamePlayers, Rows, Gone, Hosts, HasRow

LEMMA RoomStutter ==
  ASSUME UNCHANGED <<roomState, member, role, status>>
  PROVE  UNCHANGED Room!vars
BY DEF Room!vars, Rows, Gone, Hosts, HasRow

LEMMA RoomJoin ==
  ASSUME EngineInv, NEW p \in Player, JoinRoom(p)
  PROVE  Room!Next
<1>1. /\ roomState = "LOBBY" /\ member[p] = "OUT" /\ UNCHANGED <<roomState, status>>
      /\ member' = [member EXCEPT ![p] = "IN"]
      /\ role' = [role EXCEPT ![p] = IF Present = {} THEN "HOST" ELSE "PLAYER"]
      /\ member \in [Player -> {"OUT", "IN", "LEFT"}] /\ role \in [Player -> {"HOST", "PLAYER"}]
  BY DEF JoinRoom, EngineInv, TypeOK
<1>2. Rows = Present /\ Gone = {} /\ \A q \in Player : status[q] = "NONE"
  BY <1>1, LobbyHasNobodyGone
<1>3. p \notin Rows /\ Rows' = Rows \cup {p} /\ Gone' = Gone
  BY <1>1, <1>2 DEF Rows, Gone, HasRow
<1>4. Hosts' = IF Rows = {} THEN {p} ELSE Hosts
  <2>1. \A q \in Rows : role'[q] = role[q] /\ q # p
    BY <1>1, <1>3 DEF Rows
  <2>2. role'[p] = "HOST" <=> Rows = {}
    BY <1>1, <1>2
  <2>. QED  BY <1>3, <2>1, <2>2 DEF Hosts
<1>5. Room!Join(p)
  BY <1>1, <1>3, <1>4 DEF Room!Join
<1>6. p \in Room!Player
  BY DEF Room!Player, Player
<1>. QED  BY <1>5, <1>6 DEF Room!Next

(* A step of the game that only moves the game: it may be the last. *)
LEMMA RoomPlay ==
  ASSUME UNCHANGED <<member, role>>, SamePlayers(status'),
         roomState' = roomState \/ (roomState = "IN_GAME" /\ roomState' = "CLOSED")
  PROVE  [Room!Next]_(Room!vars)
<1>1. Rows' = Rows /\ Gone' = Gone /\ Hosts' = Hosts
  BY GameKeepsRows
<1>. QED  BY <1>1 DEF Room!vars, Room!Play, Room!Next

LEMMA RoundsClose ==
  ASSUME roomState = "IN_GAME", NEW st, NEW tn,
         NextRoundOrFinish(st, tn) \/ \E prep : AdvanceToRoundSelection(st, prep)
  PROVE  roomState' = roomState \/ roomState' = "CLOSED"
BY DEF NextRoundOrFinish, AdvanceToRoundSelection, FinishCycle

(* Who is host once p has left. *)
LEMMA HeirsOf ==
  ASSUME TypeOK, NEW p \in Present, ApplyLeave(p), Rows' \subseteq Rows,
         roomState = "LOBBY" => p \notin Rows',
         Present \ {p} \subseteq Rows',
         \A q \in Rows' : q \in Player
  PROVE  Hosts' = (IF p \in Hosts /\ Present \ {p} # {} THEN {Room!Min(Present \ {p})} ELSE Hosts)
                    \cap Rows'
<1>1. /\ role' = RoleAfterLeave(p) /\ role \in [Player -> {"HOST", "PLAYER"}]
      /\ p \in Player /\ p \in Rows
  BY RoomMembers DEF ApplyLeave, TypeOK, Present
<1>2. p \in Hosts <=> role[p] = "HOST"
  BY <1>1 DEF Hosts
<1>3. Hosts' = {q \in Rows' : role'[q] = "HOST"} /\ Hosts = {q \in Rows : role[q] = "HOST"}
  BY DEF Hosts
<1>4. CASE role[p] # "HOST"
  <2>1. role' = role
    BY <1>1, <1>4 DEF RoleAfterLeave
  <2>. QED  BY <1>2, <1>3, <1>4, <2>1
<1>5. CASE role[p] = "HOST" /\ Present \ {p} = {}
  <2>1. \A q \in Rows' : role'[q] = role[q]
    BY <1>1, <1>5 DEF RoleAfterLeave, TransferHost
  <2>. QED  BY <1>2, <1>3, <1>5, <2>1
<1>6. CASE role[p] = "HOST" /\ Present \ {p} # {}
  <2> DEFINE heir == Min(Present \ {p})
  <2>1. heir \in Present \ {p}
    <3>1. Present \ {p} \subseteq Nat
      BY PlayersAreNumbers DEF Present
    <3>. QED  BY <1>6, <3>1, MinIsFirst
  <2>2. heir = Room!Min(Present \ {p})
    BY DEF Min, Room!Min
  <2>. HIDE DEF heir
  <2>3. \A q \in Player : role'[q] = "HOST" <=> q = heir
    <3>1. TransferHost(p) = [q \in Player |-> IF q = heir THEN "HOST" ELSE "PLAYER"]
      BY <1>6 DEF TransferHost, heir
    <3>2. role' = TransferHost(p) \/ role' = [TransferHost(p) EXCEPT ![p] = "PLAYER"]
      BY <1>1, <1>6 DEF RoleAfterLeave
    <3>. QED  BY <2>1, <3>1, <3>2
  <2>4. Hosts' = {heir}
    BY <1>3, <2>1, <2>3
  <2>. QED  BY <1>2, <1>6, <2>1, <2>2, <2>4
<1>. QED  BY <1>4, <1>5, <1>6

LEMMA LeaveState ==
  ASSUME EngineInv, NEW p \in Player, ApplyLeave(p)
  PROVE  roomState' = roomState \/ (roomState = "IN_GAME" /\ roomState' = "CLOSED")
<1>1. roomState = "IN_GAME" <=> phase \notin {"NONE", "GAME_RESULTS"}
  BY DEF EngineInv, TypeOK, RoomMatchesPhase
<1>2. CASE LeavePreparation(p)
  BY <1>1, <1>2 DEF LeavePreparation, AdvanceToRoundSelection
<1>3. CASE LeaveOwnRound(p)
  BY <1>1, <1>3, RoundsClose DEF LeaveOwnRound
<1>4. CASE LeaveSelection(p) \/ LeaveVoting(p) \/ LeaveBetweenRounds(p)
  BY <1>4 DEF LeaveSelection, LeaveVoting, LeaveBetweenRounds, AdvanceToRoundVoting,
              AdvanceToRoundResults
<1>. QED  BY <1>2, <1>3, <1>4 DEF ApplyLeave

LEMMA RoomLeave ==
  ASSUME EngineInv, ContentInv, NEW p \in Player, ApplyLeave(p)
  PROVE  Room!Next
<1>1. /\ TypeOK /\ p \in Present /\ member' = [member EXCEPT ![p] = "LEFT"]
      /\ member \in [Player -> {"OUT", "IN", "LEFT"}]
  BY DEF ApplyLeave, EngineInv, TypeOK
<1>2. Room!Members = Present /\ p \in Room!Player /\ p \in Room!Members
  BY <1>1, RoomMembers DEF Room!Player, Player
<1>3. SamePlayers(status')
  BY LeaveGoesOn DEF GameGoesOn
<1>4. CASE roomState = "LOBBY"
  <2>1. Rows = Present /\ Gone = {} /\ \A q \in Player : status[q] = "NONE"
    BY <1>4, LobbyHasNobodyGone
  <2>2. Rows' = Rows \ {p} /\ Gone' = Gone
    BY <1>1, <1>3, <2>1 DEF SamePlayers, Rows, Gone, HasRow, Present
  <2>. QED
    <3>1. Hosts' = (IF p \in Hosts /\ Present \ {p} # {} THEN {Room!Min(Present \ {p})} ELSE Hosts)
                      \cap Rows'
      BY <1>1, <2>1, <2>2, HeirsOf DEF Rows
    <3>2. Room!Leave(p)
      BY <1>2, <1>4, <2>2, <3>1, LeaveState DEF Room!Leave
    <3>. QED  BY <1>2, <3>2 DEF Room!Next
<1>5. CASE roomState # "LOBBY"
  <2>1. status[p] # "NONE"
    BY <1>1, <1>5 DEF ContentInv, EveryonePresentPlays, Participants, EngineInv, RoomMatchesPhase
  <2>2. Rows' = Rows /\ Gone' = Gone \cup {p}
    BY <1>1, <1>3, <2>1 DEF SamePlayers, Rows, Gone, HasRow, Present
  <2>. QED
    <3>1. Hosts' = (IF p \in Hosts /\ Present \ {p} # {} THEN {Room!Min(Present \ {p})} ELSE Hosts)
                      \cap Rows'
      BY <1>1, <1>5, <2>2, HeirsOf, RoomMembers
    <3>2. Room!Leave(p)
      BY <1>2, <1>5, <2>2, <3>1, LeaveState DEF Room!Leave
    <3>. QED  BY <1>2, <3>2 DEF Room!Next
<1>. QED  BY <1>4, <1>5

LEMMA RoomSubmit ==
  ASSUME EngineInv, ContentInv, NEW p \in Player,
         \/ \E m \in Meme : SubmitPreparation(p, m)
         \/ \E m \in Meme : SubmitRoundMeme(p, m)
         \/ \E o \in Player : SubmitVote(p, o)
  PROVE  [Room!Next]_(Room!vars)
<1>1. SamePlayers(status')
  BY SubmitGoesOn DEF GameGoesOn
<1>2. UNCHANGED <<member, role, roomState>>
  BY DEF SubmitPreparation, SubmitRoundMeme, SubmitVote, AdvanceToRoundSelection,
         AdvanceToRoundVoting, AdvanceToRoundResults
<1>. QED  BY <1>1, <1>2, RoomPlay

LEMMA RoomResolve ==
  ASSUME EngineInv, ContentInv, ResolvePhase
  PROVE  [Room!Next]_(Room!vars)
<1>1. SamePlayers(status')
  BY ResolveGoesOn DEF GameGoesOn
<1>2. UNCHANGED <<member, role, roomState>>
  BY DEF ResolvePhase, ResolvePreparation, ResolveSelection, ResolveVoting,
         AdvanceToRoundSelection, AdvanceToRoundVoting, AdvanceToRoundResults
<1>. QED  BY <1>1, <1>2, RoomPlay

LEMMA RoomPrivileged ==
  ASSUME EngineInv, ContentInv, NEW a \in Actors, PrivilegedStep(a)
  PROVE  [Room!Next]_(Room!vars)
<1>1. /\ TypeOK /\ ResetSkipped(status) \in [Player -> Statuses]
      /\ SamePlayers(ResetSkipped(status)) /\ Room!Members = Present
  BY RoomMembers DEF EngineInv, TypeOK, Statuses, ResetSkipped, SamePlayers
<1>2. CASE StartGame(a)
  <2>1. /\ roomState = "LOBBY" /\ roomState' = "IN_GAME" /\ UNCHANGED <<member, role>>
        /\ status' = [p \in Player |-> IF p \in Present THEN "ACTIVE" ELSE "NONE"]
    BY <1>2 DEF StartGame, BeginCycle
  <2>2. Present # {}
    BY <1>2, SomebodyStarts
  <2>3. Rows = Present /\ Gone = {}
    BY <2>1, LobbyHasNobodyGone
  <2>4. Rows' = Rows /\ Gone' = Gone
    BY <2>1, <2>3 DEF Rows, Gone, HasRow, Present
  <2>5. Hosts' = Hosts
    BY <2>1, <2>4 DEF Hosts
  <2>6. Room!Start
    BY <1>1, <2>1, <2>2, <2>4, <2>5 DEF Room!Start
  <2>. QED  BY <2>6 DEF Room!Next
<1>3. CASE NextRound(a)
  <2>1. /\ NextRoundOrFinish(ResetSkipped(status), turn) /\ UNCHANGED <<member, role>>
        /\ roomState = "IN_GAME"
    BY <1>3 DEF NextRound, EngineInv, TypeOK, RoomMatchesPhase
  <2>2. SamePlayers(status')
    BY <1>1, <2>1, NextRoundOrFinishGoesOn DEF GameGoesOn
  <2>3. roomState' = roomState \/ roomState' = "CLOSED"
    BY <2>1, RoundsClose
  <2>. QED  BY <2>1, <2>2, <2>3, RoomPlay
<1>4. CASE StartNextCycle(a)
  <2>1. status' = ResetSkipped(status) /\ UNCHANGED <<member, role, roomState>>
    BY <1>4 DEF StartNextCycle, BeginCycle
  <2>2. SamePlayers(status')
    BY <1>1, <2>1
  <2>. QED  BY <2>1, <2>2, RoomPlay
<1>5. CASE ForceResolvePhase(a)
  BY <1>5, RoomResolve DEF ForceResolvePhase
<1>6. ASSUME NEW p \in Player, KickPlayer(a, p)  PROVE Room!Next
  BY <1>6, RoomLeave DEF KickPlayer
<1>7. CASE StartNewGame(a)
  <2>1. /\ roomState = "CLOSED" /\ roomState' = "LOBBY" /\ UNCHANGED <<member, role>>
        /\ \A p \in Player : member[p] = "LEFT" => status[p] = "NONE"
        /\ status' = [p \in Player |-> "NONE"]
    BY <1>7 DEF StartNewGame, ResetPersists
  <2>2. Gone = {} /\ Rows = Present
    BY <2>1 DEF Gone, Rows, HasRow, Present
  <2>3. Gone' = {} /\ Rows' = Rows
    BY <2>1, <2>2 DEF Gone, Rows, HasRow, Present
  <2>4. Hosts' = Hosts
    BY <2>1, <2>3 DEF Hosts
  <2>5. Room!Reset
    BY <2>1, <2>2, <2>3, <2>4 DEF Room!Reset
  <2>. QED  BY <2>5 DEF Room!Next
<1>. QED  BY <1>2, <1>3, <1>4, <1>5, <1>6, <1>7 DEF PrivilegedStep

LEMMA RoomStep == EngineInv /\ ContentInv /\ [Next]_vars => [Room!Next]_(Room!vars)
<1>. SUFFICES ASSUME EngineInv, ContentInv, [Next]_vars  PROVE [Room!Next]_(Room!vars)
  OBVIOUS
<1>1. ASSUME NEW p \in Player, PlayerStep(p)  PROVE [Room!Next]_(Room!vars)
  BY <1>1, RoomJoin, RoomLeave, RoomSubmit DEF PlayerStep, LeaveRoom
<1>2. CASE UNCHANGED <<roomState, member, role, status>>
  BY <1>2, RoomStutter
<1>. QED
  BY <1>1, <1>2, RoomResolve, RoomPrivileged DEF Next, TimeoutPhase, SetMemeEnabled, vars

(* The engine does to the players of a room what RoomPlayers says, for every *)
(* number of players: through joins, leaves and kicks in every phase, with   *)
(* the handover each of them makes, and through the reset.                   *)
THEOREM EngineImplementsRoom == Spec => ImplementsRoom
<1>1. Init => Room!Init
  BY DEF Init, Room!Init, Rows, Gone, Hosts, HasRow
<1>2. Spec => Room!Init /\ [][Room!Next]_(Room!vars)
  BY <1>1, RoomStep, EngineInvariant, ContentInvariant, PTL DEF Spec
<1>. QED  BY <1>2 DEF ImplementsRoom, Room!Spec

-----------------------------------------------------------------------------
(* Snapshots.  A swap is a permutation of the players that fixes the viewer, *)
(* and until the results phaseData shows of the others only counts and sets, *)
(* which a permutation leaves as they are.  This needs nothing of the state  *)
(* but its shape: it holds of any aggregate, reachable or not.               *)

(* Who stands where p stood. *)
Place(swap) == [p \in Player |-> IF p \in DOMAIN swap THEN swap[p] ELSE p]

LEMMA SwapsPermute ==
  ASSUME NEW v, NEW swap \in SwapsBut(v)
  PROVE  /\ Place(swap) \in [Player -> Player]
         /\ \A p, q \in Player : Place(swap)[p] = Place(swap)[q] => p = q
         /\ \A q \in Player : \E p \in Player : Place(swap)[p] = q
         /\ \A p \in Player : Place(swap)[p] \in ActiveIn(status) <=> p \in ActiveIn(status)
         /\ v \notin DOMAIN swap
<1> DEFINE others == ActiveIn(status) \ {v}
<1>1. /\ swap \in [others -> others] /\ others \in SUBSET Player
      /\ \A p, q \in others : swap[p] = swap[q] => p = q
  BY DEF SwapsBut, ActiveIn
<1>2. \A p \in Player : p \in ActiveIn(status) <=> p \in others \/ (p = v /\ p \in ActiveIn(status))
  OBVIOUS
<1>3. v \notin others
  OBVIOUS
<1>. HIDE DEF others
<1>4. \A q \in others : \E p \in others : swap[p] = q
  <2>1. swap \in Injection(others, others)
    BY <1>1 DEF Injection, IsInjective
  <2>2. IsFiniteSet(others)
    BY <1>1, PlayersAreNumbers, FS_Subset
  <2>3. swap \in Surjection(others, others)
    BY <2>1, <2>2, FS_Injection
  <2>. QED  BY <2>3 DEF Surjection
<1>5. \A p \in Player : Place(swap)[p] = IF p \in others THEN swap[p] ELSE p
  BY <1>1 DEF Place
<1>6. /\ Place(swap) \in [Player -> Player] /\ v \notin DOMAIN swap
      /\ \A p \in Player : Place(swap)[p] \in others <=> p \in others
  BY <1>1, <1>3, <1>5 DEF Place
<1>7. \A p, q \in Player : Place(swap)[p] = Place(swap)[q] => p = q
  BY <1>1, <1>5, <1>6
<1>8. \A q \in Player : \E p \in Player : Place(swap)[p] = q
  BY <1>1, <1>4, <1>5
<1>9. \A p \in Player : Place(swap)[p] \in ActiveIn(status) <=> p \in ActiveIn(status)
  BY <1>2, <1>5, <1>6
<1>. QED  BY <1>6, <1>7, <1>8, <1>9

LEMMA SwappedFields ==
  ASSUME NEW v, NEW swap \in SwapsBut(v), NEW f
  PROVE  /\ \A p \in Player : Swapped(f, swap)[p] = f[Place(swap)[p]]
         /\ v \in Player => Swapped(f, swap)[v] = f[v]
BY SwapsPermute DEF Swapped, Place

LEMMA SwappedParts ==
  ASSUME NEW swap
  PROVE  /\ SwappedAggregate(swap).prepHand = Swapped(prepHand, swap)
         /\ SwappedAggregate(swap).prepared = Swapped(prepared, swap)
         /\ SwappedAggregate(swap).roundHand = Swapped(roundHand, swap)
         /\ SwappedAggregate(swap).submitted = Swapped(submitted, swap)
         /\ SwappedAggregate(swap).ballot = Swapped(ballot, swap)
         /\ SwappedAggregate(swap).votes = Swapped(votes, swap)
BY DEF SwappedAggregate, Aggregate

(* As many players are ready, whoever they are. *)
LEMMA SwappedCount ==
  ASSUME NEW v, NEW swap \in SwapsBut(v)
  PROVE  Cardinality({p \in ActiveIn(status) : Swapped(prepared, swap)[p] # NoMeme})
           = Cardinality({p \in ActiveIn(status) : prepared[p] # NoMeme})
<1> DEFINE now == {p \in ActiveIn(status) : prepared[p] # NoMeme}
           then == {p \in ActiveIn(status) : Swapped(prepared, swap)[p] # NoMeme}
           move == [p \in then |-> Place(swap)[p]]
<1>1. ActiveIn(status) \subseteq Player
  BY DEF ActiveIn
<1>2. \A p \in Player : p \in then <=> Place(swap)[p] \in now
  BY <1>1, SwapsPermute, SwappedFields
<1>3. now \subseteq Player /\ then \subseteq Player
  BY <1>1
<1>. HIDE DEF now, then
<1>4. move \in Injection(then, now)
  BY <1>2, <1>3, SwapsPermute DEF Injection, IsInjective
<1>5. move \in Surjection(then, now)
  BY <1>2, <1>3, SwapsPermute DEF Surjection
<1>6. ExistsBijection(then, now) /\ IsFiniteSet(then)
  BY <1>3, <1>4, <1>5, PlayersAreNumbers, FS_Subset DEF ExistsBijection, Bijection
<1>. QED  BY <1>6, FS_Bijection DEF now, then

(* The same options are on the ballot, whoever owns them. *)
LEMMA SwappedMemes ==
  ASSUME NEW v, NEW swap \in SwapsBut(v), NEW f
  PROVE  MemesOf(Swapped(f, swap)) = MemesOf(f)
<1>1. \A p \in Player : Swapped(f, swap)[p] \in {f[q] : q \in Player}
  <2>. SUFFICES ASSUME NEW p \in Player  PROVE Swapped(f, swap)[p] \in {f[q] : q \in Player}
    OBVIOUS
  <2>1. Swapped(f, swap)[p] = f[Place(swap)[p]]
    BY SwappedFields
  <2>2. Place(swap)[p] \in Player
    BY SwapsPermute
  <2>. QED  BY <2>1, <2>2
<1>2. \A q \in Player : f[q] \in {Swapped(f, swap)[p] : p \in Player}
  <2>. SUFFICES ASSUME NEW q \in Player  PROVE \E p \in Player : f[q] = Swapped(f, swap)[p]
    OBVIOUS
  <2>1. PICK p \in Player : Place(swap)[p] = q
    BY SwapsPermute
  <2>. QED  BY <2>1, SwappedFields
<1>. QED  BY <1>1, <1>2 DEF MemesOf

(* Until the results no snapshot says who among the other players did what:  *)
(* had they changed places, every viewer would be shown the same.            *)
THEOREM EngineSnapshotsAreBlind == Spec => []SnapshotsAreBlind
<1>1. SnapshotsAreBlind
  <2>. SUFFICES ASSUME phase \in OpenPhases, NEW v \in Viewers, NEW swap \in SwapsBut(v)
                PROVE  PhaseData(v, SwappedAggregate(swap)) = PhaseData(v, Aggregate)
    BY DEF SnapshotsAreBlind, Snapshot
  <2> DEFINE agg == SwappedAggregate(swap)
  <2>0. Holder(v) => /\ agg.prepHand[v] = prepHand[v] /\ agg.prepared[v] = prepared[v]
                     /\ agg.roundHand[v] = roundHand[v] /\ agg.submitted[v] = submitted[v]
                     /\ agg.ballot[v] = ballot[v] /\ agg.votes[v] = votes[v]
    <3>1. Holder(v) => v \in Player
      BY DEF Holder
    <3>. QED  BY <3>1, SwappedFields, SwappedParts
  <2>1. CASE phase = "PREPARATION"
    <3>1. PreparationView(v, SwappedAggregate(swap)) = PreparationView(v, Aggregate)
      <4>1. Cardinality({p \in ActiveIn(status) : agg.prepared[p] # NoMeme})
              = Cardinality({p \in ActiveIn(status) : prepared[p] # NoMeme})
        BY SwappedParts, SwappedCount
      <4>. QED  BY <2>0, <4>1 DEF PreparationView, Aggregate
    <3>. QED  BY <2>1, <3>1 DEF PhaseData
  <2>2. CASE phase = "ROUND_SELECTION"
    <3>1. SelectionView(v, SwappedAggregate(swap)) = SelectionView(v, Aggregate)
      BY <2>0 DEF SelectionView, Aggregate
    <3>. QED  BY <2>2, <3>1 DEF PhaseData
  <2>3. CASE phase = "ROUND_VOTING"
    <3>1. VotingView(v, SwappedAggregate(swap)) = VotingView(v, Aggregate)
      <4>1. MemesOf(agg.ballot) = MemesOf(ballot)
        BY SwappedParts, SwappedMemes
      <4>. QED  BY <2>0, <4>1 DEF VotingView, Aggregate
    <3>. QED  BY <2>3, <3>1 DEF PhaseData
  <2>. QED  BY <2>1, <2>2, <2>3 DEF OpenPhases
<1>. QED  BY <1>1, PTL

=============================================================================
