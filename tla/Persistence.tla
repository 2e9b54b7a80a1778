---------------------------- MODULE Persistence ----------------------------
(***************************************************************************)
(* How the aggregate is stored (coordinator.SaveAggregate, the queries of  *)
(* internal/repository/sqlite and the schema of migrations/).              *)
(*                                                                         *)
(* A database is a function from tables to sets of rows.  Every row has an *)
(* id; its other columns refer to rows, except data, which holds whatever  *)
(* the constraints do not look at.  rooms and room_settings keep their one *)
(* row and are left out.  Rows are named by what they are about: those of  *)
(* players and game players by the player, a round by its active player.   *)
(***************************************************************************)
EXTENDS Projection, Sequences

(* The foreign keys: table -> column -> the table the column refers to.    *)
References ==
  [players           |-> << >>,
   player_sessions   |-> [player |-> "players"],
   games             |-> << >>,
   game_players      |-> [game |-> "games", player |-> "players"],
   game_cycles       |-> [game |-> "games"],
   prepared_turns    |-> [cycle |-> "game_cycles", holder |-> "game_players"],
   rounds            |-> [game |-> "games", cycle |-> "game_cycles",
                          holder |-> "game_players"],
   dealt_hands       |-> [cycle |-> "game_cycles", holder |-> "game_players",
                          round |-> "rounds"],
   round_submissions |-> [round |-> "rounds", holder |-> "game_players"],
   vote_options      |-> [round |-> "rounds", holder |-> "game_players"],
   votes             |-> [round |-> "rounds", holder |-> "game_players",
                          option |-> "vote_options"],
   round_scores      |-> [round |-> "rounds", holder |-> "game_players"]]

Tables == DOMAIN References
Null == 0
Ids(rows) == {r.id : r \in rows}

(* The foreign keys by the table they refer to: <<table, column>> pairs.    *)
ReferredBy ==
  [t \in Tables |-> {ref \in UNION {{c} \X DOMAIN References[c] : c \in Tables} :
                       References[ref[1]][ref[2]] = t}]

(* dealt_hands.round_id is the one foreign key that may be NULL. *)
Refers(rows, column, targets) ==
  rows = {} \/ {r[column] : r \in rows} \ (IF column = "round" THEN {Null} ELSE {})
                 \subseteq Ids(targets)

(* Mutant: the constraint of 00001_init.sql. *)
HandKeyOfCycle(r) == <<r.cycle, r.holder, r.data>>

(* The one UNIQUE constraint that the names of the rows do not imply.      *)
HandKey(r) == <<r.cycle, r.holder, r.data, r.round>>

Unique(rows, t) ==
  /\ Cardinality(Ids(rows)) = Cardinality(rows)
  /\ t = "dealt_hands" =>
       Cardinality({HandKey(r) : r \in rows}) = Cardinality(rows)

-----------------------------------------------------------------------------
(* Statements: the rows whose ids are in gone leave the table, and rows    *)
(* come instead.  A statement that breaks a constraint fails, and with it  *)
(* the transaction.                                                        *)

Failed == [failed |-> TRUE]
Delete(t, rows) == [table |-> t, gone |-> Ids(rows), rows |-> {}]
Insert(t, rows) == [table |-> t, gone |-> {}, rows |-> rows]
Update(t, rows) == [table |-> t, gone |-> Ids(rows), rows |-> rows]

Exec(db, s) ==
  LET t == s.table
      kept == {r \in db[t] : r.id \notin s.gone}
  IN IF /\ s.rows # {} =>
             /\ kept \cap s.rows = {}
             /\ Unique(kept \cup s.rows, t)
             /\ \A column \in DOMAIN References[t] :
                  Refers(s.rows, column, db[References[t][column]])
        /\ s.gone # {} =>
             \A ref \in ReferredBy[t] : Refers(db[ref[1]], ref[2], kept \cup s.rows)
     THEN [db EXCEPT ![t] = kept \cup s.rows]
     ELSE Failed

(* The transaction that executes the statements of the sequence save. *)
Transaction(db, save) ==
  LET after[n \in 0 .. Len(save)] ==
        IF n = 0 THEN db
        ELSE LET before == after[n - 1] IN
             IF before = Failed THEN Failed ELSE Exec(before, save[n])
  IN after[Len(save)]

-----------------------------------------------------------------------------
(* SaveAggregate replaces what db stores of the room by new.               *)

RoundChildren == <<"round_scores", "votes", "vote_options", "round_submissions">>

(* Mutant: the game players go first. *)
GameTablesPlayersFirst ==
  <<"game_players", "dealt_hands">> \o RoundChildren \o
  <<"rounds", "prepared_turns", "game_cycles">>

(* DeleteDealtHandsByGame, DeleteRoundsByGame, DeleteGameCyclesByGame and  *)
(* DeleteGamePlayersByGame.                                                *)
GameTables ==
  <<"dealt_hands">> \o RoundChildren \o
  <<"rounds", "prepared_turns", "game_cycles", "game_players">>

DeleteAll(db, tables) == [i \in DOMAIN tables |-> Delete(tables[i], db[tables[i]])]

(* The order of the inserts; hands refer to rounds and come after them. *)
InsertOrder ==
  <<"game_players", "game_cycles", "prepared_turns", "rounds", "dealt_hands",
    "round_submissions", "vote_options", "votes", "round_scores">>

InsertAll(new, tables) == [i \in DOMAIN tables |-> Insert(tables[i], new[tables[i]])]

(* Without a game the players who left go for good. *)
SavePlayers(db, new) ==
  LET goes(r) == new.games = {} /\ r.id \notin Ids(new.players) IN
  <<Delete("player_sessions", {s \in db.player_sessions : goes(s)}),
    Delete("players", {r \in db.players : goes(r)}),
    Update("players", new.players)>>

(* CreateGame or UpdateGame, and UpdateGamePhase. *)
SaveGame(db, new) ==
  IF db.games = {} THEN Insert("games", new.games) ELSE Update("games", new.games)

SaveAggregate(db, new) ==
  SavePlayers(db, new) \o
  (IF new.games = {}
   THEN DeleteAll(db, GameTables \o <<"games">>)
   ELSE <<SaveGame(db, new)>> \o DeleteAll(db, GameTables)
        \o InsertAll(new, InsertOrder))

-----------------------------------------------------------------------------
(* The rows of the aggregate.  GameEngine forgets what happened in a round *)
(* once the next one begins; the rows of a past round are taken to be as   *)
(* many as there can be, and its hands the same as in the current round.   *)
(* The loops insert row by row and round by round; no row refers to one of *)
(* its own table, so each table is written in one go here.                 *)

InGame == roomState # "LOBBY"
Holders == {p \in Player : status[p] # "NONE"}
Rounds == {p \in Player : turn[p] # "NONE"}
RoundChild(r, p, data) ==
  [id |-> <<r, p>>, round |-> r, holder |-> p, data |-> data]

(* Who has a submission, an option and a vote in the round r. *)
Submitters(r) == IF r = current THEN {p \in Player : submitted[p] # NoMeme}
                                ELSE Holders \ {r}
Owners(r) == IF r = current THEN {p \in Player : ballot[p] # NoMeme} ELSE Holders
Voters(r) == IF r = current THEN {p \in Player : votes[p] # NoPlayer}
                            ELSE Holders \ {r}
VotedFor(r, p) == IF r = current THEN votes[p] ELSE r

PlayerRows == {[id |-> p, data |-> <<member[p], role[p]>>] : p \in {q \in Player : HasRow(q)}}
SessionRows == {[id |-> p, player |-> p] : p \in {q \in Player : HasRow(q)}}
GameRows ==
  IF InGame THEN {[id |-> 1, phase |-> <<roomState, phase>>, cycle |-> cycle, round |-> current]}
            ELSE {}
GamePlayerRows ==
  {[id |-> p, game |-> 1, player |-> p, data |-> <<score[p], status[p]>>] : p \in Holders}
CycleRows == IF InGame THEN {[id |-> cycle, game |-> 1]} ELSE {}
PreparedTurnRows ==
  {[id |-> p, cycle |-> cycle, holder |-> p, data |-> prepared[p]] :
     p \in {q \in Player : prepared[q] # NoMeme}}
RoundRows ==
  {[id |-> p, game |-> 1, cycle |-> cycle, holder |-> p, data |-> turn[p]] : p \in Rounds}

(* One row for each meme; round_id is NULL in a preparation hand. *)
HandRows(hand, holders, round) ==
  UNION {{[id |-> <<round, p, m>>, cycle |-> cycle, holder |-> p, data |-> m, round |-> round] :
            m \in hand[p]} : p \in holders}

SubmissionRows(r) == {RoundChild(r, p, submitted[p]) : p \in Submitters(r)}
OptionRows(r) == {RoundChild(r, p, ballot[p]) : p \in Owners(r)}
VoteRows(r) ==
  {[id |-> <<r, p>>, round |-> r, holder |-> p, option |-> <<r, VotedFor(r, p)>>] :
     p \in Voters(r)}
ScoreRows(r) ==
  IF turn[r] = "FINISHED" THEN {RoundChild(r, p, 0) : p \in Voters(r) \cup {r}} ELSE {}

Stored ==
  [players |-> PlayerRows, player_sessions |-> SessionRows, games |-> GameRows,
   game_players |-> GamePlayerRows, game_cycles |-> CycleRows,
   prepared_turns |-> PreparedTurnRows, rounds |-> RoundRows,
   dealt_hands |-> HandRows(prepHand, Player, Null)
                     \cup UNION {HandRows(roundHand, Player \ {r}, r) : r \in Rounds},
   round_submissions |-> UNION {SubmissionRows(r) : r \in Rounds},
   vote_options |-> UNION {OptionRows(r) : r \in Rounds},
   votes |-> UNION {VoteRows(r) : r \in Rounds},
   round_scores |-> UNION {ScoreRows(r) : r \in Rounds}]

(* groupHands, and likewise for the tables with one meme for each player. *)
HandOf(rows, p) == {r.data : r \in {q \in rows : q.holder = p}}

(* loadAggregate: what the next command finds, in the fields of Aggregate. *)
Load(db) ==
  LET now == {g.round : g \in db.games} \ {Null}
      of(t) == {r \in db[t] : r.round \in now}
      column(rows) ==
        [p \in Player |-> IF HandOf(rows, p) = {} THEN NoMeme
                          ELSE CHOOSE m \in HandOf(rows, p) : TRUE]
  IN [prepHand |-> [p \in Player |->
                      HandOf({r \in db.dealt_hands : r.round = Null}, p)],
      roundHand |-> [p \in Player |-> HandOf(of("dealt_hands"), p)],
      prepared |-> column(db.prepared_turns),
      submitted |-> column(of("round_submissions")),
      ballot |-> column(of("vote_options")),
      votes |-> [p \in Player |->
                   Max({v.option[2] : v \in {q \in of("votes") : q.holder = p}}
                       \cup {NoPlayer})]]

(* CreatePlayer and CreateSession, all that JoinRoom writes. *)
SaveJoin(db, new) ==
  <<Insert("players", new.players \ db.players),
    Insert("player_sessions", new.player_sessions \ db.player_sessions)>>

(* What is to be stored of a finished room that START_NEW_GAME has reset. *)
ResetRoom ==
  [t \in Tables |-> IF t \in {"players", "player_sessions"}
                    THEN {r \in Stored[t] : member[r.id] = "IN"} ELSE {}]

-----------------------------------------------------------------------------
(* No command fails in the save, whatever rows the earlier ones have left:  *)
(* each delete comes before the rows it would orphan are missed, each       *)
(* insert after the rows it refers to, no row clashes with another, and     *)
(* what is stored afterwards is the new aggregate, no more and no less: the *)
(* next command loads it as this one left it.                               *)
(* The one save that fails is the reset of a room that somebody who played  *)
(* has left (SaveAggregate, DeleteGameByRoom, 00003_dealt_hands_round.sql). *)
StoredExactly ==
  [][\A db \in {Stored}, new \in {Stored'} :
       /\ edits' = edits =>
            /\ Transaction(db, IF Cardinality(new.players) > Cardinality(db.players)
                               THEN SaveJoin(db, new) ELSE SaveAggregate(db, new)) = new
            /\ Load(new) = Aggregate'
       /\ roomState = "CLOSED" /\ ~ResetPersists =>
            Transaction(db, SaveAggregate(db, ResetRoom)) = Failed]_vars
=============================================================================
