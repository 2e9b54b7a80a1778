----------------------------- MODULE GameEngine -----------------------------
(***************************************************************************)
(* The Memomarium game engine (internal/engine): one room's aggregate and  *)
(* the command handlers that transform it.                                 *)
(*                                                                         *)
(* One step is one accepted command: the coordinator holds the room lock   *)
(* and a transaction around Engine.Handle, and a handler that returns an   *)
(* error leaves the stored aggregate as it was.  A rejected command is     *)
(* therefore no step, and an error raised deep inside a handler is a       *)
(* conjunct of the guard of the whole action.                              *)
(*                                                                         *)
(* Players are numbered by joinedAt, which is also their turn order.       *)
(* A round is named by its active player: nextEligibleActivePlayer never   *)
(* picks a player twice in a cycle.  A vote option is named by its owner.  *)
(* Situation texts, option numbers and timestamps are abstracted.          *)
(***************************************************************************)
EXTENDS Integers, FiniteSets, FiniteSetsExt, Scoring

CONSTANTS
  NumPlayers,     \* how many players may join the room
  Admins,         \* the Local Admin actors (a possibly empty set)
  Meme,           \* the stored memes
  NoMeme,         \* "no meme"
  HandSize,       \* RoomSettings.handSize
  MinPlayers,     \* RoomSettings.minPlayers
  InfiniteGame,   \* RoomSettings.infiniteGame
  TimedPhases,    \* the phases whose timeout setting is positive
  ScoreConfig,    \* RoomSettings.scoreConfig
  MaxCycles,      \* bound: cycles of one game that are explored
  MaxEdits        \* bound: content edits that are explored

Player == 1 .. NumPlayers
NoPlayer == 0

(* The phases resolvePhase can end, by timeout or by force. *)
OpenPhases == {"PREPARATION", "ROUND_SELECTION", "ROUND_VOTING"}
Phases == {"NONE", "ROUND_RESULTS", "CYCLE_RESULTS", "GAME_RESULTS"} \cup OpenPhases

ASSUME SizesAssumption ==
  /\ NumPlayers \in Nat \ {0}
  /\ HandSize \in Nat \ {0}
  /\ MinPlayers \in Nat \ {0}
  /\ MaxCycles \in Nat \ {0}
  /\ MaxEdits \in Nat

ASSUME ContentAssumption == IsFiniteSet(Meme) /\ NoMeme \notin Meme

ASSUME SettingsAssumption ==
  /\ InfiniteGame \in BOOLEAN
  /\ TimedPhases \subseteq OpenPhases
  /\ ScoreConfig \in ScoreConfigs

VARIABLES
  roomState,   \* Room.State; a Game exists exactly outside LOBBY
  phase,       \* Aggregate.Phase
  member,      \* player -> not joined yet, present, or LeftAt set
  role,        \* Player.Role
  status,      \* GamePlayer.ParticipationStatus, NONE without a GamePlayer
  score,       \* GamePlayer.Score
  cycle,       \* GameCycle.Number, 0 without a cycle
  prepHand,    \* the PREPARATION hand of each player
  prepared,    \* the original meme of each player's PreparedTurn
  turn,        \* the status of the round a player is active in
  current,     \* the active player of Game.CurrentRoundID
  roundHand,   \* the ROUND hands of the current round
  submitted,   \* the RoundSubmissions of the current round
  ballot,      \* the VoteOptions of the current round: owner -> meme
  votes,       \* the Votes of the current round: voter -> option's owner
  enabled,     \* the enabled memes
  edits        \* content edits so far

handVars == <<prepHand, prepared, roundHand>>
roundVars == <<submitted, ballot, votes>>
contentVars == <<enabled, edits>>
vars == <<roomState, phase, member, role, status, score, cycle, prepHand, prepared,
          turn, current, roundHand, submitted, ballot, votes, enabled, edits>>

-----------------------------------------------------------------------------
(* Helpers over the aggregate.                                             *)

NoMemes == [p \in Player |-> NoMeme]
NoVotes == [p \in Player |-> NoPlayer]
NoHands == [p \in Player |-> {}]
NoTurns == [p \in Player |-> "NONE"]

Present == {p \in Player : member[p] = "IN"}

(* ActiveGamePlayers, of the statuses st. *)
ActiveIn(st) == {p \in Player : st[p] = "ACTIVE"}

(* Those who take part in the game. *)
Playing == {p \in Player : status[p] \in {"ACTIVE", "SKIPPED"}}

(* Who can send a privileged command: whoever leaves loses their sessions *)
(* with the same transaction.                                             *)
Actors == Admins \cup Present

IsHostOrAdmin(a) == a \in Admins \/ (a \in Player /\ role[a] = "HOST")

(* Mutant: a skipped player stays skipped. *)
ResetSkippedNever(st) == st

ResetSkipped(st) == [p \in Player |-> IF st[p] = "SKIPPED" THEN "ACTIVE" ELSE st[p]]

(* Mutants: a finished round does not count; the last in turn order goes first. *)
EligibleAgain(st, tn) == {p \in ActiveIn(st) : tn[p] \in {"NONE", "FINISHED"}}
NextEligibleLast(st, tn) == Max({p \in ActiveIn(st) : tn[p] = "NONE"})

(* The ACTIVE players who were not the active player of a round yet. *)
Eligible(st, tn) == {p \in ActiveIn(st) : tn[p] = "NONE"}
NextEligible(st, tn) == Min(Eligible(st, tn))

Originals(prep) == {prep[p] : p \in Player} \ {NoMeme}

(* Mutant: only the original of this round is kept out of its hands. *)
RoundPoolOfRound(p, prep) == enabled \ {prep[p]}

(* What the hands of p's round are dealt from. *)
RoundPool(p, prep) == enabled \ Originals(prep)

(* Mutant: a dealt meme is not taken from the pool. *)
DealsWithReplacement(ps, pool) == [ps -> kSubset(HandSize, pool)]

(* Every way to give each of the players ps a hand from pool, no meme in   *)
(* two hands.  The dealer's shuffle and its preference for memes not shown *)
(* recently choose among these; it fails when the pool is too small.       *)
Deals(ps, pool) ==
  {hands \in [ps -> kSubset(HandSize, pool)] :
     \A p, q \in ps : p # q => hands[p] \cap hands[q] = {}}

HandsFor(deal) == [p \in Player |-> IF p \in DOMAIN deal THEN deal[p] ELSE {}]

(* Mutant: the memes the rounds will need are not counted. *)
RequiredForPreparation(n) == n * HandSize

(* What START_GAME asks of the content for n players. *)
RequiredMemes(n) == Max({n * HandSize, n + (n - 1) * HandSize})

(* Mutant: one prepared player is enough. *)
AnyActivePrepared(st, prep) == \E p \in ActiveIn(st) : prep[p] # NoMeme

AllActivePrepared(st, prep) == \A p \in ActiveIn(st) : prep[p] # NoMeme
AllNonActiveSubmitted(st, sub) == \A p \in ActiveIn(st) \ {current} : sub[p] # NoMeme
AllNonActiveVoted(st, vt) == \A p \in ActiveIn(st) \ {current} : vt[p] # NoPlayer

-----------------------------------------------------------------------------
(* Phase changes.  Each takes the parts of the aggregate its caller has    *)
(* already changed and says what becomes of the rest.                      *)

(* startRound: a round of p with fresh hands for the other participants.   *)
StartRound(p, st, tn, prep) ==
  LET fresh == ResetSkipped(st) IN
  /\ prep[p] # NoMeme
  /\ \E deal \in Deals(ActiveIn(fresh) \ {p}, RoundPool(p, prep)) :
        roundHand' = HandsFor(deal)
  /\ status' = fresh
  /\ turn' = [tn EXCEPT ![p] = "ACTIVE"]
  /\ current' = p
  /\ prepared' = prep
  /\ submitted' = NoMemes
  /\ ballot' = NoMemes
  /\ votes' = NoVotes
  /\ phase' = "ROUND_SELECTION"

(* Somebody is there for the next round, and it starts without an error.   *)
CanStart(st, tn, prep) ==
  LET p == NextEligible(st, tn) IN
  /\ Eligible(st, tn) # {}
  /\ prep[p] # NoMeme
  /\ Deals(ActiveIn(ResetSkipped(st)) \ {p}, RoundPool(p, prep)) # {}

(* After a round there is no error either when nobody is left for the next. *)
CanMoveOn(st, tn, prep) == Eligible(st, tn) = {} \/ CanStart(st, tn, prep)

(* advanceToRoundSelection fails when nobody can be the active player. *)
AdvanceToRoundSelection(st, prep) ==
  /\ Eligible(st, turn) # {}
  /\ StartRound(NextEligible(st, turn), st, turn, prep)
  /\ UNCHANGED <<roomState, score, cycle, prepHand>>

(* advanceToRoundVoting: the original and every submission become options. *)
AdvanceToRoundVoting(sub) ==
  /\ submitted' = sub
  /\ ballot' = [sub EXCEPT ![current] = prepared[current]]
  /\ phase' = "ROUND_VOTING"
  /\ UNCHANGED <<roomState, score, cycle, prepHand, prepared, turn, current,
                 roundHand, votes>>

(* Mutant: everyone who could have voted counts as a guesser. *)
RoundFactsOfAll(vt) ==
  LET voters == {p \in Player : vt[p] # NoPlayer}
      guessed == {p \in voters : vt[p] = current}
  IN [active |-> current, totalVotes |-> Cardinality(voters),
      votesForOriginal |-> Cardinality(guessed),
      guessers |-> ActiveIn(status) \ {current},
      selfVoters |-> {p \in voters : vt[p] = p}]

(* The facts of the current round under the votes vt. *)
RoundFacts(vt) ==
  LET voters == {p \in Player : vt[p] # NoPlayer}
      guessed == {p \in voters : vt[p] = current}
  IN [active |-> current, totalVotes |-> Cardinality(voters),
      votesForOriginal |-> Cardinality(guessed), guessers |-> voters,
      selfVoters |-> {p \in voters : vt[p] = p}]

(* advanceToRoundResults: the round is scored and finished. *)
AdvanceToRoundResults(vt) ==
  LET delta == CalculateRound(RoundFacts(vt), ScoreConfig) IN
  /\ votes' = vt
  /\ score' = [p \in Player |-> IF p \in DOMAIN delta /\ status[p] # "NONE"
                                THEN score[p] + delta[p] ELSE score[p]]
  /\ turn' = [turn EXCEPT ![current] = "FINISHED"]
  /\ phase' = "ROUND_RESULTS"
  /\ UNCHANGED <<roomState, cycle, prepHand, prepared, current, roundHand,
                 submitted, ballot>>

(* finishCycle: the end of the game unless it is an infinite one. *)
FinishCycle ==
  /\ roomState' = IF InfiniteGame THEN roomState ELSE "CLOSED"
  /\ phase' = IF InfiniteGame THEN "CYCLE_RESULTS" ELSE "GAME_RESULTS"
  /\ UNCHANGED <<score, cycle, prepHand, prepared, current, roundHand,
                 submitted, ballot, votes>>

(* After a round: the next eligible player's round, or the end of the cycle. *)
NextRoundOrFinish(st, tn) ==
  IF Eligible(st, tn) # {}
  THEN /\ StartRound(NextEligible(st, tn), st, tn, prepared)
       /\ UNCHANGED <<roomState, score, cycle, prepHand>>
  ELSE /\ status' = st
       /\ turn' = tn
       /\ FinishCycle

(* A cycle begins: new preparation hands, nothing of the last cycle left. *)
BeginCycle(st, n) ==
  /\ cycle' = n
  /\ status' = st
  /\ \E deal \in Deals(ActiveIn(st), enabled) : prepHand' = HandsFor(deal)
  /\ prepared' = NoMemes
  /\ turn' = NoTurns
  /\ current' = NoPlayer
  /\ roundHand' = NoHands
  /\ submitted' = NoMemes
  /\ ballot' = NoMemes
  /\ votes' = NoVotes
  /\ phase' = "PREPARATION"

-----------------------------------------------------------------------------
(* Commands.                                                               *)

(* JoinRoom: players join the lobby in the order of their numbers; whoever *)
(* finds no player in the room becomes its host.                           *)
JoinRoom(p) ==
  /\ roomState = "LOBBY"
  /\ member[p] = "OUT"
  /\ \A q \in 1 .. p - 1 : member[q] # "OUT"
  /\ member' = [member EXCEPT ![p] = "IN"]
  /\ role' = [role EXCEPT ![p] = IF Present = {} THEN "HOST" ELSE "PLAYER"]
  /\ UNCHANGED <<roomState, phase, status, score, cycle, turn, current>>
  /\ UNCHANGED <<handVars, roundVars, contentVars>>

StartGame(a) ==
  /\ IsHostOrAdmin(a)
  /\ roomState = "LOBBY"
  /\ Cardinality(Present) >= MinPlayers
  /\ Cardinality(enabled) >= RequiredMemes(Cardinality(Present))
  /\ roomState' = "IN_GAME"
  /\ score' = [p \in Player |-> 0]
  /\ BeginCycle([p \in Player |-> IF p \in Present THEN "ACTIVE" ELSE "NONE"], 1)
  /\ UNCHANGED <<member, role, contentVars>>

SubmitPreparation(p, m) ==
  /\ phase = "PREPARATION"
  /\ p \in Present /\ status[p] = "ACTIVE"
  /\ m \in prepHand[p]
  /\ prepared[p] = NoMeme
  /\ LET prep == [prepared EXCEPT ![p] = m] IN
     IF AllActivePrepared(status, prep)
     THEN AdvanceToRoundSelection(status, prep)
     ELSE /\ prepared' = prep
          /\ UNCHANGED <<roomState, phase, status, score, cycle, prepHand, turn,
                         current, roundHand, roundVars>>
  /\ UNCHANGED <<member, role, contentVars>>

SubmitRoundMeme(p, m) ==
  /\ phase = "ROUND_SELECTION"
  /\ p \in Present /\ status[p] = "ACTIVE"
  /\ p # current
  /\ m \in roundHand[p]
  /\ submitted[p] = NoMeme
  /\ LET sub == [submitted EXCEPT ![p] = m] IN
     IF AllNonActiveSubmitted(status, sub)
     THEN AdvanceToRoundVoting(sub)
     ELSE /\ submitted' = sub
          /\ UNCHANGED <<roomState, phase, score, cycle, handVars, turn, current,
                         ballot, votes>>
  /\ UNCHANGED <<member, role, status, contentVars>>

SubmitVote(p, o) ==
  /\ phase = "ROUND_VOTING"
  /\ p \in Present /\ status[p] = "ACTIVE"
  /\ p # current
  /\ ballot[o] # NoMeme
  /\ o # p
  /\ votes[p] = NoPlayer
  /\ LET vt == [votes EXCEPT ![p] = o] IN
     IF AllNonActiveVoted(status, vt)
     THEN AdvanceToRoundResults(vt)
     ELSE /\ votes' = vt
          /\ UNCHANGED <<roomState, phase, score, cycle, handVars, turn, current,
                         submitted, ballot>>
  /\ UNCHANGED <<member, role, status, contentVars>>

(* Mutant: whoever missed a vote is not back for the choice of the next. *)
NextRoundUnreset(a) ==
  /\ phase = "ROUND_RESULTS"
  /\ IsHostOrAdmin(a)
  /\ NextRoundOrFinish(status, turn)
  /\ UNCHANGED <<member, role, contentVars>>

NextRound(a) ==
  /\ phase = "ROUND_RESULTS"
  /\ IsHostOrAdmin(a)
  /\ NextRoundOrFinish(ResetSkipped(status), turn)
  /\ UNCHANGED <<member, role, contentVars>>

(* Mutant: the scores start from zero with every cycle. *)
StartNextCycleAfresh(a) ==
  /\ phase = "CYCLE_RESULTS"
  /\ IsHostOrAdmin(a)
  /\ cycle < MaxCycles
  /\ score' = [p \in Player |-> 0]
  /\ BeginCycle(ResetSkipped(status), cycle + 1)
  /\ UNCHANGED <<roomState, member, role, contentVars>>

StartNextCycle(a) ==
  /\ phase = "CYCLE_RESULTS"
  /\ IsHostOrAdmin(a)
  /\ cycle < MaxCycles
  /\ BeginCycle(ResetSkipped(status), cycle + 1)
  /\ UNCHANGED <<roomState, member, role, score, contentVars>>

-----------------------------------------------------------------------------
(* resolvePhase: what a timeout or a forced end does in each open phase.   *)

(* Some meme of its hand for every player of ps that has a hand.           *)
Filled(f, ps, hands) ==
  {g \in [Player -> Meme \cup {NoMeme}] :
     \A p \in Player : IF p \in ps /\ hands[p] # {} THEN g[p] \in hands[p]
                                                    ELSE g[p] = f[p]}

LatePreparations == {p \in ActiveIn(status) : prepared[p] = NoMeme}

ResolvePreparation ==
  /\ phase = "PREPARATION"
  /\ \E prep \in Filled(prepared, LatePreparations, prepHand) :
        AdvanceToRoundSelection(status, prep)

ResolveSelection ==
  LET late == {p \in ActiveIn(status) \ {current} : submitted[p] = NoMeme} IN
  /\ phase = "ROUND_SELECTION"
  /\ \E sub \in Filled(submitted, late, roundHand) : AdvanceToRoundVoting(sub)
  /\ UNCHANGED status

ResolveVoting ==
  LET late == {p \in ActiveIn(status) \ {current} : votes[p] = NoPlayer} IN
  /\ phase = "ROUND_VOTING"
  /\ status' = [p \in Player |-> IF p \in late THEN "SKIPPED" ELSE status[p]]
  /\ AdvanceToRoundResults(votes)

ResolvePhase ==
  /\ ResolvePreparation \/ ResolveSelection \/ ResolveVoting
  /\ UNCHANGED <<member, role, contentVars>>

ForceResolvePhase(a) == IsHostOrAdmin(a) /\ ResolvePhase

(* Mutant: voting gets no deadline. *)
HasDeadlineButVoting == phase \in TimedPhases \ {"ROUND_VOTING"}

(* The scheduler sends TIMEOUT_PHASE once the phase deadline has passed;   *)
(* setPhaseDeadline sets one in the phases with a positive timeout only.   *)
HasDeadline == phase \in TimedPhases
TimeoutPhase == HasDeadline /\ ResolvePhase

-----------------------------------------------------------------------------
(* Leaving.                                                                *)

(* Mutant: the player who joined last becomes the host. *)
TransferHostLatest(p) ==
  IF Present \ {p} = {} THEN role
  ELSE [q \in Player |-> IF q = Max(Present \ {p}) THEN "HOST" ELSE "PLAYER"]

(* transferHost: the longest present player but p becomes the host.        *)
TransferHost(p) ==
  IF Present \ {p} = {} THEN role
  ELSE [q \in Player |-> IF q = Min(Present \ {p}) THEN "HOST" ELSE "PLAYER"]

RoleAfterLeave(p) ==
  IF role[p] # "HOST" THEN role
  ELSE IF roomState = "LOBBY" THEN [TransferHost(p) EXCEPT ![p] = "PLAYER"]
  ELSE TransferHost(p)

(* Mutant: KICKED, which the schema knows and the engine does not. *)
DroppedKicked(p) == [status EXCEPT ![p] = "KICKED"]

Dropped(p) == [status EXCEPT ![p] = "LEFT"]

(* In PREPARATION the leaver's turn goes, and the others may be ready. *)
LeavePreparation(p) ==
  LET prep == [prepared EXCEPT ![p] = NoMeme] IN
  /\ phase = "PREPARATION"
  /\ IF AllActivePrepared(Dropped(p), prep)
     THEN AdvanceToRoundSelection(Dropped(p), prep)
     ELSE /\ status' = Dropped(p)
          /\ prepared' = prep
          /\ UNCHANGED <<roomState, phase, score, cycle, prepHand, turn, current,
                         roundHand, roundVars>>

(* The active player leaves: the round is cancelled and play moves on. *)
LeaveOwnRound(p) ==
  /\ phase = "ROUND_SELECTION"
  /\ p = current
  /\ NextRoundOrFinish(Dropped(p), [turn EXCEPT ![p] = "CANCELLED"])

(* Another player leaves: the submission goes, and the others may be done. *)
LeaveSelection(p) ==
  LET sub == [submitted EXCEPT ![p] = NoMeme] IN
  /\ phase = "ROUND_SELECTION"
  /\ p # current
  /\ status' = Dropped(p)
  /\ IF AllNonActiveSubmitted(Dropped(p), sub)
     THEN AdvanceToRoundVoting(sub)
     ELSE /\ submitted' = sub
          /\ UNCHANGED <<roomState, phase, score, cycle, handVars, turn, current,
                         ballot, votes>>

(* Mutants: nobody looks whether the others are done; the leaver's option *)
(* is withdrawn from the ballot.                                          *)
LeaveVotingUnchecked(p) ==
  /\ phase = "ROUND_VOTING"
  /\ status' = Dropped(p)
  /\ UNCHANGED <<roomState, phase, score, cycle, handVars, turn, current, roundVars>>

LeaveVotingWithdrawn(p) ==
  /\ phase = "ROUND_VOTING"
  /\ status' = Dropped(p)
  /\ ballot' = [ballot EXCEPT ![p] = NoMeme]
  /\ UNCHANGED <<roomState, phase, score, cycle, handVars, turn, current,
                 submitted, votes>>

(* In ROUND_VOTING the ballot and the votes stay as they are. *)
LeaveVoting(p) ==
  /\ phase = "ROUND_VOTING"
  /\ status' = Dropped(p)
  /\ IF AllNonActiveVoted(Dropped(p), votes)
     THEN AdvanceToRoundResults(votes)
     ELSE UNCHANGED <<roomState, phase, score, cycle, handVars, turn, current,
                      roundVars>>

(* Mutant: a leave between two rounds keeps the leaver in the game. *)
LeaveResultsForgotten(p) ==
  /\ phase \notin OpenPhases
  /\ UNCHANGED <<roomState, phase, status, score, cycle, handVars, turn, current, roundVars>>

(* In ROUND_RESULTS only the participation ends; in the lobby there is none, *)
(* and in CYCLE_RESULTS and GAME_RESULTS the handler leaves it as it is.     *)
LeaveBetweenRounds(p) ==
  /\ phase \notin OpenPhases
  /\ status' = IF phase = "ROUND_RESULTS" THEN Dropped(p) ELSE status
  /\ UNCHANGED <<roomState, phase, score, cycle, handVars, turn, current, roundVars>>

ApplyLeave(p) ==
  /\ p \in Present
  /\ member' = [member EXCEPT ![p] = "LEFT"]
  /\ role' = RoleAfterLeave(p)
  /\ \/ LeavePreparation(p)
     \/ LeaveOwnRound(p)
     \/ LeaveSelection(p)
     \/ LeaveVoting(p)
     \/ LeaveBetweenRounds(p)
  /\ UNCHANGED contentVars

LeaveRoom(p) == ApplyLeave(p)
KickPlayer(a, p) == a \in Admins /\ ApplyLeave(p)

-----------------------------------------------------------------------------
(* START_NEW_GAME resets a finished room.  The save that follows deletes   *)
(* the rows of players who left before it deletes the game whose           *)
(* game_players rows reference them: the foreign key makes it fail when    *)
(* anyone who played has left.                                             *)
ResetPersists == \A p \in Player : member[p] = "LEFT" => status[p] = "NONE"

StartNewGame(a) ==
  /\ a \in Admins
  /\ roomState = "CLOSED"
  /\ ResetPersists
  /\ roomState' = "LOBBY"
  /\ phase' = "NONE"
  /\ status' = [p \in Player |-> "NONE"]
  /\ score' = [p \in Player |-> 0]
  /\ cycle' = 0
  /\ prepHand' = NoHands
  /\ prepared' = NoMemes
  /\ turn' = NoTurns
  /\ current' = NoPlayer
  /\ roundHand' = NoHands
  /\ submitted' = NoMemes
  /\ ballot' = NoMemes
  /\ votes' = NoVotes
  /\ UNCHANGED <<member, role, contentVars>>

(* The administrator enables or disables a meme, in any state of the room. *)
SetMemeEnabled(m) ==
  /\ edits < MaxEdits
  /\ edits' = edits + 1
  /\ enabled' = IF m \in enabled THEN enabled \ {m} ELSE enabled \cup {m}
  /\ UNCHANGED <<roomState, phase, member, role, status, score, cycle, turn, current>>
  /\ UNCHANGED <<handVars, roundVars>>

-----------------------------------------------------------------------------
Init ==
  /\ roomState = "LOBBY"
  /\ phase = "NONE"
  /\ member = [p \in Player |-> "OUT"]
  /\ role = [p \in Player |-> "PLAYER"]
  /\ status = [p \in Player |-> "NONE"]
  /\ score = [p \in Player |-> 0]
  /\ cycle = 0
  /\ prepHand = NoHands
  /\ prepared = NoMemes
  /\ turn = NoTurns
  /\ current = NoPlayer
  /\ roundHand = NoHands
  /\ submitted = NoMemes
  /\ ballot = NoMemes
  /\ votes = NoVotes
  /\ enabled \in SUBSET Meme
  /\ edits = 0

PlayerStep(p) ==
  \/ JoinRoom(p)
  \/ \E m \in Meme : SubmitPreparation(p, m)
  \/ \E m \in Meme : SubmitRoundMeme(p, m)
  \/ \E o \in Player : SubmitVote(p, o)
  \/ LeaveRoom(p)

PrivilegedStep(a) ==
  \/ StartGame(a)
  \/ NextRound(a)
  \/ StartNextCycle(a)
  \/ ForceResolvePhase(a)
  \/ \E p \in Player : KickPlayer(a, p)
  \/ StartNewGame(a)

Next ==
  \/ \E p \in Player : PlayerStep(p)
  \/ \E a \in Actors : PrivilegedStep(a)
  \/ TimeoutPhase
  \/ \E m \in Meme : SetMemeEnabled(m)

Spec == Init /\ [][Next]_vars

(* The scheduler goroutine looks at every deadline again and again; players *)
(* and the administrator owe the system nothing.                            *)
FairSpec == Spec /\ WF_vars(TimeoutPhase)
-----------------------------------------------------------------------------
(* Properties.                                                             *)

(* The type of the aggregate; hands, submissions and options hold memes.   *)
TypeOK ==
  /\ roomState \in {"LOBBY", "IN_GAME", "CLOSED"}
  /\ phase \in Phases
  /\ member \in [Player -> {"OUT", "IN", "LEFT"}]
  /\ role \in [Player -> {"HOST", "PLAYER"}]
  /\ status \in [Player -> {"NONE", "ACTIVE", "LEFT", "SKIPPED"}]
  /\ score \in [Player -> Int]
  /\ cycle \in 0 .. MaxCycles
  /\ prepHand \in [Player -> SUBSET Meme]
  /\ prepared \in [Player -> Meme \cup {NoMeme}]
  /\ turn \in [Player -> {"NONE", "ACTIVE", "CANCELLED", "FINISHED"}]
  /\ current \in Player \cup {NoPlayer}
  /\ roundHand \in [Player -> SUBSET Meme]
  /\ submitted \in [Player -> Meme \cup {NoMeme}]
  /\ ballot \in [Player -> Meme \cup {NoMeme}]
  /\ votes \in [Player -> Player \cup {NoPlayer}]
  /\ enabled \in SUBSET Meme
  /\ edits \in 0 .. MaxEdits

RoundPhases == {"ROUND_SELECTION", "ROUND_VOTING", "ROUND_RESULTS"}

(* Whoever may still become the active player of a round has a PreparedTurn, *)
(* so startRound never fails with ErrInternal once the rounds have begun:    *)
(* through late preparations, leaves, skipped votes and cancelled rounds.    *)
TurnsArePrepared ==
  phase \in RoundPhases =>
    \A p \in Player : status[p] \in {"ACTIVE", "SKIPPED"} => prepared[p] # NoMeme

(* Dealing the next round cannot fail: START_GAME's check of the stored      *)
(* content covers every later round of the cycle, whoever leaves, as long as *)
(* the content stays as it was.                                              *)
DealingCannotFail ==
  phase \in {"PREPARATION"} \cup RoundPhases /\ edits = 0 =>
    LET playing == ActiveIn(ResetSkipped(status)) IN
    Cardinality(enabled \ Originals(prepared)) >= (Cardinality(playing) - 1) * HandSize

(* The room has one host among those present, and it is whoever of them      *)
(* joined first: through every leave, kick and host transfer, in the lobby   *)
(* and in the game, and through the reset of the room.                       *)
HostIsOldest ==
  \A p \in Present : role[p] = "HOST" <=> p = Min(Present)

(* An option on the ballot gives nobody away: no meme stands on it twice, it *)
(* holds no original of a round still to come, and everyone who has to vote  *)
(* owns an option of their own.                                              *)
BallotIsFair ==
  /\ \A p, q \in Player : ballot[p] = ballot[q] /\ ballot[p] # NoMeme => p = q
  /\ \A p \in Player \ {current} : ballot[p] \notin Originals(prepared)
  /\ phase = "ROUND_VOTING" => \A p \in ActiveIn(status) : ballot[p] # NoMeme

(* A PREPARATION that waits for nobody: everyone dropped out in the rounds   *)
(* of an earlier cycle, and the next was begun all the same.  Only an        *)
(* infinite game has a next.                                                 *)
Deserted ==
  phase = "PREPARATION" /\ ActiveIn(status) = {} /\ InfiniteGame /\ cycle > 1

(* A phase is left with the last contribution it waits for: it is never open *)
(* with everyone done, whether they submitted, voted or left.  There are two *)
(* exceptions.  In a round whose active player is the only one ACTIVE nobody *)
(* else owes anything, and only a timeout or FORCE_RESOLVE_PHASE ends it;    *)
(* and the deserted PREPARATION of a later cycle nothing ends at all.        *)
NoIdleWait ==
  LET alone == ActiveIn(status) = {current} IN
  /\ phase = "PREPARATION" => ~AllActivePrepared(status, prepared) \/ Deserted
  /\ phase = "ROUND_SELECTION" => ~AllNonActiveSubmitted(status, submitted) \/ alone
  /\ phase = "ROUND_VOTING" => ~AllNonActiveVoted(status, votes) \/ alone

(* A missed vote costs the rest of one round and no more: SKIPPED is only    *)
(* ever seen in ROUND_RESULTS, on somebody who owed a vote and cast none.    *)
SkippedForOneRound ==
  \A p \in Player : status[p] = "SKIPPED" =>
    phase = "ROUND_RESULTS" /\ p # current /\ votes[p] = NoPlayer

(* A chain of phase changes that a command sets off does not fail halfway,   *)
(* as long as the content stays as it was: there is an active player for the *)
(* round it opens, with an original whatever memes are chosen for the late,  *)
(* and a hand for everybody else.  So for the end of the preparation, a      *)
(* leave in it, a cancelled round and a finished one (where nobody left for  *)
(* a round means the end of the cycle, not an error) and for a new cycle.    *)
(* Two chains do fail, and no others: the end of a deserted PREPARATION, and *)
(* in any PREPARATION the leave of the last who is ACTIVE.  There            *)
(* advanceToRoundSelection finds nobody, and the leave is refused.           *)
ChainsNeverFail ==
  edits = 0 =>
    /\ phase = "PREPARATION" =>
         /\ \A prep \in Filled(prepared, LatePreparations, prepHand) :
              CanStart(status, turn, prep) \/ Deserted
         /\ \A p \in Present :
              LET prep == [prepared EXCEPT ![p] = NoMeme] IN
              AllActivePrepared(Dropped(p), prep) =>
                CanStart(Dropped(p), turn, prep) \/ ActiveIn(status) \subseteq {p}
    /\ phase = "ROUND_SELECTION" =>
         CanMoveOn(Dropped(current), [turn EXCEPT ![current] = "CANCELLED"], prepared)
    /\ phase = "ROUND_RESULTS" => CanMoveOn(ResetSkipped(status), turn, prepared)
    /\ phase = "CYCLE_RESULTS" => Deals(ActiveIn(ResetSkipped(status)), enabled) # {}

(* Whoever is in the room can leave it at any time: in GAME_PREPARATION, as  *)
(* elsewhere, a leaver is taken out of the game (section 33 of the design),  *)
(* as long as the content stays as it was.                                   *)
LeaveIsAccepted == edits = 0 => \A p \in Present : ENABLED LeaveRoom(p)

(* Every open phase has a way to end: a timeout or a forced end can resolve  *)
(* it (condition 20 of the design's list), as long as the content stays as   *)
(* it was when the game started.                                             *)
PhaseCanEnd == phase \in OpenPhases /\ edits = 0 => ENABLED ResolvePhase

(* Leaving ends a participation for good (coordinator.HandleCommand): no     *)
(* phase waits for someone who has left.                                     *)
NobodyWaitsForTheGone ==
  phase \in OpenPhases => ActiveIn(status) \subseteq Present

(* A Local Admin can reset a finished room to LOBBY, so that a fresh game    *)
(* can be started with the same players (startNewGame).                      *)
FinishedRoomCanReset ==
  roomState = "CLOSED" => ENABLED \E a \in Admins : StartNewGame(a)

(* The leave that NobodyWaitsForTheGone misses is one between two cycles:    *)
(* whoever leaves in any other phase, in a round of their own or another's,  *)
(* skipped or not, no longer takes part in the game.                         *)
OnlyResultsForgetLeavers ==
  [][Playing' \ Present' \subseteq Playing \ Present
       \/ phase \in {"CYCLE_RESULTS", "GAME_RESULTS"}]_vars

(* Once voting has begun the published ballot and the votes already cast do  *)
(* not change, whoever leaves; the results are made of exactly those.        *)
BallotFrozen ==
  [][phase = "ROUND_VOTING" =>
       /\ phase' \in {"ROUND_VOTING", "ROUND_RESULTS"}
       /\ ballot' = ballot
       /\ \A p \in Player : votes[p] # NoPlayer => votes'[p] = votes[p]]_vars

(* Points change hands once per round, when its voting ends, and only for    *)
(* its active player and those who voted in it: a missed vote, a leave, a    *)
(* cancelled round or a new cycle moves no score.                            *)
ScoresSettleOnce ==
  [][roomState = "IN_GAME" =>
       \A p \in Player : score'[p] # score[p] =>
         /\ phase = "ROUND_VOTING" /\ phase' = "ROUND_RESULTS"
         /\ p = current \/ votes'[p] # NoPlayer]_vars

(* The outcome of a round decides what it pays, whoever left since they      *)
(* voted: the active player by whether all, none or some of the votes found  *)
(* the original, and a guesser who found it, and whose own meme got no vote, *)
(* by whether all did.  Of those who guessed wrong, and of votes for a       *)
(* submitted meme, it says nothing: see ScoresAsDocumented.                  *)
PaysByOutcome ==
  phase = "ROUND_VOTING" /\ phase' = "ROUND_RESULTS" =>
    LET voters == {p \in Player : votes'[p] # NoPlayer}
        guessed == {p \in voters : votes'[p] = current}
        votedFor == {votes'[p] : p \in voters}
        paid(p) == score'[p] - score[p]
    IN /\ paid(current) =
            IF guessed = {} THEN ScoreConfig.noneGuessedActivePlayer
            ELSE IF guessed = voters THEN ScoreConfig.allGuessedActivePlayer
            ELSE ScoreConfig.partialActiveBase
                   + ScoreConfig.partialActivePerGuesser * Cardinality(guessed)
       /\ \A p \in guessed \ votedFor :
            paid(p) = IF guessed = voters THEN ScoreConfig.allGuessedGuesser
                                          ELSE ScoreConfig.partialGuesser

OutcomeIsPaid == [][PaysByOutcome]_vars

(* In a round that some guessed and some did not, each guesser who guessed   *)
(* the original receives PartialGuesser, and the others do not               *)
(* (CalculateRound's rules); and a vote for a submitted meme earns its owner *)
(* or, if that is what is meant, its voter the bonus the settings have for   *)
(* it (section 39 of the design).                                            *)
ScoresAsDocumented ==
  [][phase = "ROUND_VOTING" /\ phase' = "ROUND_RESULTS" =>
       LET voters == {p \in Player : votes'[p] # NoPlayer}
           guessed == {p \in voters : votes'[p] = current}
           paid(p) == score'[p] - score[p]
           guess(p) == IF p \in guessed THEN ScoreConfig.partialGuesser ELSE 0
           votesFor(p) == Cardinality({v \in voters : votes'[v] = p})
           bonus == ScoreConfig.voteForSubmittedMeme
       IN guessed \notin {{}, voters} =>
            \/ \A p \in voters : paid(p) = guess(p) + bonus * votesFor(p)
            \/ \A p \in voters : paid(p) = IF p \in guessed THEN guess(p) ELSE bonus]_vars

(* A phase with a deadline ends, whatever the players do.                    *)
TimedPhasesEnd == \A ph \in TimedPhases : phase = ph ~> phase # ph

(* The game keeps the promises of GameFlow.                                  *)
Stage ==
  CASE roomState = "LOBBY"       -> "LOBBY"
    [] phase = "PREPARATION"     -> "PREPARING"
    [] phase \in {"ROUND_SELECTION", "ROUND_VOTING"} -> "PLAYING"
    [] phase = "ROUND_RESULTS"   -> "SHOWING"
    [] phase = "CYCLE_RESULTS"   -> "CYCLE_OVER"
    [] OTHER                     -> "GAME_OVER"

Flow == INSTANCE GameFlow WITH stage <- Stage, playing <- Playing

(* The engine implements GameFlow: in turn order, one round each, one at a   *)
(* time, and a cycle that ends when nobody is left to have a turn.           *)
ImplementsFlow == Flow!Spec

(* When a cycle ends everyone who still takes part has been the active       *)
(* player of a round that was played to its end: no cancelled round, leave   *)
(* or missed vote makes nextEligibleActivePlayer pass anybody over.          *)
CyclesAreComplete == Flow!CycleIsComplete

(* A player's row goes when they leave without a game (SaveAggregate).       *)
HasRow(p) == member[p] = "IN" \/ (member[p] = "LEFT" /\ status[p] # "NONE")

Rows == {p \in Player : HasRow(p)}
Gone == {p \in Rows : member[p] = "LEFT"}
Hosts == {p \in Rows : role[p] = "HOST"}

Room == INSTANCE RoomPlayers WITH state <- roomState, rows <- Rows, gone <- Gone, hosts <- Hosts

(* The engine does to the players of a room what RoomCoordinator takes       *)
(* commands to do: through joins, leaves and kicks in every phase, handovers *)
(* and the reset, one of them at a time, by the rules of RoomPlayers.        *)
ImplementsRoom == Room!Spec
=============================================================================
