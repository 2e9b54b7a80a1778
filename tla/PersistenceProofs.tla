-------------------------- MODULE PersistenceProofs -------------------------
(***************************************************************************)
(* Theorems about the store of a room: whatever was stored before, the     *)
(* statements of a save break no constraint, and the next command loads    *)
(* what the last one left.                                                 *)
(***************************************************************************)
EXTENDS Persistence, GameEngineProofs, SequenceTheorems

-----------------------------------------------------------------------------
(* Transactions, statement by statement.                                    *)

(* The databases that the statements of a transaction go through.            *)
Trace(at, db, save, n) ==
  /\ n \in Nat /\ Len(save) = n
  /\ at = [k \in 0 .. n |-> at[k]] /\ at[0] = db
  /\ \A k \in 1 .. n : at[k] = IF at[k - 1] = Failed THEN Failed ELSE Exec(at[k - 1], save[k])

(* A transaction ends in the last database of its trace. *)
LEMMA TransactionRuns ==
  ASSUME NEW db, NEW save, NEW n, NEW at, Trace(at, db, save, n)
  PROVE  Transaction(db, save) = at[n]
<1>. USE DEF Trace
<1> DEFINE Step(g, k) == IF k = 0 THEN db
                         ELSE IF g[k - 1] = Failed THEN Failed ELSE Exec(g[k - 1], save[k])
           Runs(g) == g = [k \in 0 .. n |-> Step(g, k)]
           after == CHOOSE g : Runs(g)
<1>1. \A k \in 0 .. n : at[k] = Step(at, k)
  <2>1. SUFFICES ASSUME NEW k \in 0 .. n  PROVE at[k] = Step(at, k)
    OBVIOUS
  <2>2. CASE k = 0
    BY <2>2
  <2>3. CASE k # 0
    <3>1. k \in 1 .. n
      BY <2>3
    <3>. QED  BY <2>3, <3>1
  <2>. QED  BY <2>2, <2>3
<1>2. Runs(at)
  <2>. HIDE DEF Step
  <2>. QED  BY <1>1
<1>3. Runs(after)
  <2>. HIDE DEF Runs
  <2>. QED  BY <1>2
<1>4. Transaction(db, save) = after[n]
  BY DEF Transaction
<1>5. \A k \in 0 .. n : after[k] = Step(after, k)
  <2>. HIDE DEF Step, after
  <2>. QED  BY <1>3
<1> DEFINE Bad == {k \in 0 .. n : after[k] # at[k]}
<1>6. ASSUME Bad # {}  PROVE FALSE
  <2>. HIDE DEF after
  <2>1. Bad \subseteq Nat
    OBVIOUS
  <2>2. PICK m \in Bad : \A k \in Bad : m <= k
    <3>. HIDE DEF Bad
    <3>. QED  BY <1>6, <2>1, MinIsFirst
  <2>3. m \in 0 .. n /\ after[m] # at[m]
    OBVIOUS
  <2>4. m # 0
    BY <1>1, <1>5, <2>3
  <2>5. m - 1 \in 0 .. n /\ m - 1 \notin Bad
    BY <2>2, <2>3, <2>4
  <2>6. after[m - 1] = at[m - 1]
    BY <2>5
  <2>. QED  BY <1>1, <1>5, <2>3, <2>4, <2>6
<1>7. n \in 0 .. n
  OBVIOUS
<1>. HIDE DEF after
<1>. QED  BY <1>4, <1>6, <1>7

(* A sequence of n elements. *)
HasLength(s, n) == n \in Nat /\ s = [i \in 1 .. n |-> s[i]]

(* \o under a name of its own, which the provers leave as it is. *)
Join(s, t) == s \o t

(* The elements of two sequences in a row, by their positions. *)
LEMMA SequencesJoin ==
  ASSUME NEW m \in Nat, NEW n \in Nat, NEW s, NEW t, HasLength(s, m), HasLength(t, n)
  PROVE  /\ HasLength(Join(s, t), m + n)
         /\ \A i \in 1 .. m : Join(s, t)[i] = s[i]
         /\ \A i \in 1 .. n : Join(s, t)[m + i] = t[i]
<1> DEFINE S == {s[i] : i \in 1 .. m} \cup {t[i] : i \in 1 .. n}
<1>1. s \in Seq(S) /\ Len(s) = m
  <2>. \A i \in 1 .. m : s[i] \in S
    OBVIOUS
  <2>. HIDE DEF S
  <2>. QED  BY DEF HasLength
<1>2. t \in Seq(S) /\ Len(t) = n
  <2>. \A i \in 1 .. n : t[i] \in S
    OBVIOUS
  <2>. HIDE DEF S
  <2>. QED  BY DEF HasLength
<1>. HIDE DEF S
<1>3. s \o t \in Seq(S) /\ Len(s \o t) = m + n
  BY <1>1, <1>2
<1>4. HasLength(s \o t, m + n)
  BY <1>3 DEF HasLength
<1>. QED  BY <1>1, <1>2, <1>4 DEF Join

(* A sequence known by its elements has a length. *)
LEMMA LengthIs ==
  ASSUME NEW s, NEW n, HasLength(s, n)
  PROVE  n \in Nat /\ Len(s) = n /\ DOMAIN s = 1 .. n
BY DEF HasLength

-----------------------------------------------------------------------------

(* The tables of the schema, by name. *)
LEMMA TableNames ==
  Tables = {"players", "player_sessions", "games", "game_players", "game_cycles", "prepared_turns",
            "rounds", "dealt_hands", "round_submissions", "vote_options", "votes", "round_scores"}
BY DEF Tables, References

(* The foreign keys, one by one. *)
LEMMA ForeignKeys ==
  ASSUME NEW c \in Tables, NEW column \in DOMAIN References[c]
  PROVE  /\ References[c][column] \in Tables
         /\ <<c, column, References[c][column]>> \in
              {<<"player_sessions", "player", "players">>,
               <<"game_players", "game", "games">>, <<"game_players", "player", "players">>,
               <<"game_cycles", "game", "games">>,
               <<"prepared_turns", "cycle", "game_cycles">>,
               <<"prepared_turns", "holder", "game_players">>,
               <<"rounds", "game", "games">>, <<"rounds", "cycle", "game_cycles">>,
               <<"rounds", "holder", "game_players">>,
               <<"dealt_hands", "cycle", "game_cycles">>,
               <<"dealt_hands", "holder", "game_players">>, <<"dealt_hands", "round", "rounds">>,
               <<"round_submissions", "round", "rounds">>,
               <<"round_submissions", "holder", "game_players">>,
               <<"vote_options", "round", "rounds">>, <<"vote_options", "holder", "game_players">>,
               <<"votes", "round", "rounds">>, <<"votes", "holder", "game_players">>,
               <<"votes", "option", "vote_options">>,
               <<"round_scores", "round", "rounds">>, <<"round_scores", "holder", "game_players">>}
BY DEF Tables, References

(* The keys that a delete or an update has to look at are the foreign keys. *)
LEMMA ReferredByKeys ==
  ASSUME NEW t \in Tables, NEW ref \in ReferredBy[t]
  PROVE  /\ ref[1] \in Tables /\ ref[2] \in DOMAIN References[ref[1]]
         /\ References[ref[1]][ref[2]] = t
BY DEF ReferredBy

(* A database has all the tables. *)
IsDb(db) == db = [t \in Tables |-> db[t]]

(* What the constraints of the schema ask of a database.                     *)
WellFormed(db) ==
  /\ IsDb(db)
  /\ \A t \in Tables : Unique(db[t], t)
  /\ \A t \in Tables : \A column \in DOMAIN References[t] :
       Refers(db[t], column, db[References[t][column]])

(* A statement goes through if the rows it leaves satisfy them.              *)
Kept(db, t, rows) == {r \in db[t] : r.id \notin Ids(rows)}

(* A delete goes through when no other row refers to a row it takes. *)
LEMMA DeleteWorks ==
  ASSUME NEW db, IsDb(db), NEW t \in Tables, NEW rows,
         NEW kept, kept = Kept(db, t, rows),
         \A c \in Tables : \A column \in DOMAIN References[c] :
           References[c][column] = t => Refers(db[c], column, kept)
  PROVE  Exec(db, Delete(t, rows)) = [db EXCEPT ![t] = kept]
<1> DEFINE s == Delete(t, rows)
<1>1. s.table = t /\ s.gone = Ids(rows) /\ s.rows = {}
  BY DEF Delete
<1>2. kept \cup {} = kept
  OBVIOUS
<1>3. \A ref \in ReferredBy[t] : Refers(db[ref[1]], ref[2], kept)
  BY ReferredByKeys
<1>. HIDE DEF s
<1>4. Exec(db, s) = [db EXCEPT ![t] = kept]
  BY <1>1, <1>2, <1>3 DEF Exec, Kept
<1>. QED  BY <1>4 DEF s

(* So does the delete of a whole table that nothing refers to. *)
LEMMA DeleteAllWorks ==
  ASSUME NEW db, IsDb(db), NEW t \in Tables,
         \A c \in Tables : \A column \in DOMAIN References[c] :
           References[c][column] = t => Refers(db[c], column, {})
  PROVE  Exec(db, Delete(t, db[t])) = [db EXCEPT ![t] = {}]
<1> DEFINE s == Delete(t, db[t])
<1>1. s.table = t /\ s.gone = Ids(db[t]) /\ s.rows = {}
  BY DEF Delete
<1>2. {r \in db[t] : r.id \notin s.gone} = {}
  BY <1>1 DEF Ids
<1>3. \A ref \in ReferredBy[t] : Refers(db[ref[1]], ref[2], {} \cup {})
  BY ReferredByKeys
<1>. HIDE DEF s
<1>4. Exec(db, s) = [db EXCEPT ![t] = {} \cup {}]
  BY <1>1, <1>2, <1>3 DEF Exec
<1>. QED  BY <1>4 DEF s

(* A delete of no rows changes nothing. *)
LEMMA DeleteNothing ==
  ASSUME NEW db, IsDb(db), NEW t \in Tables
  PROVE  Exec(db, Delete(t, {})) = db
<1> DEFINE s == Delete(t, {})
<1>1. s.table = t /\ s.gone = {} /\ s.rows = {} /\ db[t] = {r \in db[t] : r.id \notin s.gone}
  BY DEF Delete, Ids
<1>. HIDE DEF s
<1>2. db[t] \cup {} = db[t]
  OBVIOUS
<1>3. Exec(db, s) = [db EXCEPT ![t] = db[t]]
  BY <1>1, <1>2 DEF Exec
<1>. QED  BY <1>3 DEF s, IsDb

(* An insert goes through when its rows are new and refer to rows that exist. *)
LEMMA InsertWorks ==
  ASSUME NEW db, IsDb(db), NEW t \in Tables, NEW rows,
         db[t] \cap rows = {}, Unique(db[t] \cup rows, t),
         \A column \in DOMAIN References[t] : Refers(rows, column, db[References[t][column]])
  PROVE  Exec(db, Insert(t, rows)) = [db EXCEPT ![t] = db[t] \cup rows]
<1> DEFINE s == Insert(t, rows)
<1>1. s.table = t /\ s.gone = {} /\ s.rows = rows /\ db[t] = {r \in db[t] : r.id \notin s.gone}
  BY DEF Insert
<1>. HIDE DEF s
<1>2. Exec(db, s) = [db EXCEPT ![t] = db[t] \cup rows]
  BY <1>1 DEF Exec
<1>. QED  BY <1>2 DEF s

(* So does the insert that fills an empty table. *)
LEMMA InsertFirstWorks ==
  ASSUME NEW db, IsDb(db), NEW t \in Tables, NEW rows, db[t] = {}, Unique(rows, t),
         \A column \in DOMAIN References[t] : Refers(rows, column, db[References[t][column]])
  PROVE  Exec(db, Insert(t, rows)) = [db EXCEPT ![t] = rows]
<1>1. db[t] \cap rows = {} /\ db[t] \cup rows = rows
  OBVIOUS
<1>2. Unique(db[t] \cup rows, t)
  BY <1>1
<1>3. Exec(db, Insert(t, rows)) = [db EXCEPT ![t] = db[t] \cup rows]
  <2>. HIDE <1>1
  <2>. QED  BY <1>1, <1>2, InsertWorks
<1>. QED  BY <1>1, <1>3

(* An update of every row. *)
LEMMA UpdateWorks ==
  ASSUME NEW db, IsDb(db), NEW t \in Tables, NEW rows,
         Ids(db[t]) \subseteq Ids(rows), Unique(rows, t),
         \A column \in DOMAIN References[t] : Refers(rows, column, db[References[t][column]]),
         \A c \in Tables : \A column \in DOMAIN References[c] :
           References[c][column] = t => Refers(db[c], column, rows)
  PROVE  Exec(db, Update(t, rows)) = [db EXCEPT ![t] = rows]
<1> DEFINE s == Update(t, rows)
<1>1. s.table = t /\ s.gone = Ids(rows) /\ s.rows = rows
  BY DEF Update
<1>2. {} = {r \in db[t] : r.id \notin Ids(rows)}
  BY DEF Ids
<1>3. {} \cup rows = rows /\ {} \cap rows = {}
  OBVIOUS
<1>4. \A ref \in ReferredBy[t] : Refers(db[ref[1]], ref[2], rows)
  BY ReferredByKeys
<1>. HIDE DEF s
<1>5. {r \in db[t] : r.id \notin s.gone} = {}
  BY <1>1, <1>2
<1>6. Exec(db, s) = [db EXCEPT ![t] = {} \cup rows]
  <2>1. Unique({} \cup rows, t) /\ \A ref \in ReferredBy[t] : Refers(db[ref[1]], ref[2], {} \cup rows)
    BY <1>3, <1>4
  <2>. QED  BY <1>1, <1>3, <1>5, <2>1 DEF Exec
<1>. QED  BY <1>3, <1>6 DEF s

(* No database is mistaken for a failed transaction. *)
LEMMA NotFailed ==
  ASSUME NEW db, IsDb(db)  PROVE db # Failed
<1>1. DOMAIN db = Tables /\ DOMAIN Failed = {"failed"}
  BY DEF Failed, IsDb
<1>. QED  BY <1>1, TableNames

-----------------------------------------------------------------------------
(* When the statements of a save delete and write each table.                *)

DeletedAt ==
  [players |-> 23, player_sessions |-> 23, games |-> 14, game_players |-> 13, game_cycles |-> 12,
   prepared_turns |-> 11, rounds |-> 10, dealt_hands |-> 5, round_submissions |-> 9,
   vote_options |-> 8, votes |-> 7, round_scores |-> 6]
WrittenAt ==
  [players |-> 3, player_sessions |-> 0, games |-> 4, game_players |-> 14, game_cycles |-> 15,
   prepared_turns |-> 16, rounds |-> 17, dealt_hands |-> 18, round_submissions |-> 19,
   vote_options |-> 20, votes |-> 21, round_scores |-> 22]

(* A save deletes nine tables in the order of DeletedAt. *)
LEMMA GameTablesAre ==
  /\ HasLength(GameTables, 9)
  /\ \A i \in 1 .. 9 : /\ GameTables[i] \in Tables /\ DeletedAt[GameTables[i]] = 4 + i
                       /\ \A t \in Tables : DeletedAt[t] = 4 + i => t = GameTables[i]
<1> DEFINE first == <<"dealt_hands">>
           last == <<"rounds", "prepared_turns", "game_cycles", "game_players">>
           begin == Join(first, RoundChildren)
<1>1. HasLength(first, 1) /\ HasLength(RoundChildren, 4) /\ HasLength(last, 4)
  BY DEF RoundChildren, HasLength
<1>2. /\ HasLength(begin, 5)
      /\ \A i \in 1 .. 1 : begin[i] = first[i]
      /\ \A i \in 1 .. 4 : begin[1 + i] = RoundChildren[i]
  <2>. HIDE DEF first
  <2>. QED  BY <1>1, SequencesJoin
<1>3. /\ HasLength(GameTables, 9)
      /\ \A i \in 1 .. 5 : GameTables[i] = begin[i]
      /\ \A i \in 1 .. 4 : GameTables[5 + i] = last[i]
  <2>1. GameTables = Join(begin, last)
    BY DEF GameTables, Join
  <2>. HIDE DEF begin, last
  <2>. QED  BY <1>1, <1>2, <2>1, SequencesJoin
<1>4. /\ GameTables[1] = "dealt_hands" /\ GameTables[2] = "round_scores" /\ GameTables[3] = "votes"
      /\ GameTables[4] = "vote_options" /\ GameTables[5] = "round_submissions"
  <2>. HIDE DEF begin
  <2>. QED  BY <1>2, <1>3 DEF RoundChildren
<1>5. /\ GameTables[6] = "rounds" /\ GameTables[7] = "prepared_turns"
      /\ GameTables[8] = "game_cycles" /\ GameTables[9] = "game_players"
  BY <1>3
<1>. QED  BY <1>3, <1>4, <1>5, TableNames DEF DeletedAt

(* It fills the same nine in the order of WrittenAt. *)
LEMMA InsertOrderIs ==
  /\ HasLength(InsertOrder, 9)
  /\ \A i \in 1 .. 9 : /\ InsertOrder[i] \in Tables /\ WrittenAt[InsertOrder[i]] = 13 + i
                       /\ \A t \in Tables : WrittenAt[t] = 13 + i => t = InsertOrder[i]
BY TableNames DEF InsertOrder, WrittenAt, HasLength

(* Whatever refers to a table is deleted before it and written after it.     *)
LEMMA OrderIsSafe ==
  ASSUME NEW c \in Tables, NEW column \in DOMAIN References[c]
  PROVE  LET t == References[c][column] IN
         /\ DeletedAt[t] \in 5 .. 14 => DeletedAt[c] < DeletedAt[t] /\ DeletedAt[c] \in 5 .. 13
         /\ WrittenAt[c] \in 14 .. 22 => WrittenAt[t] < WrittenAt[c]
BY ForeignKeys DEF DeletedAt, WrittenAt

(* A table is rewritten as a whole, or it is one of the first three. *)
LEMMA OrderTypes ==
  \A t \in Tables : /\ DeletedAt[t] \in 5 .. 14 \cup {23}
                    /\ WrittenAt[t] \in {0, 3, 4} \cup 14 .. 22
                    /\ DeletedAt[t] \in 5 .. 13 <=> WrittenAt[t] \in 14 .. 22
                    /\ WrittenAt[t] = 0 => t = "player_sessions"
                    /\ WrittenAt[t] = 3 => t = "players"
                    /\ WrittenAt[t] = 4 => t = "games"
BY TableNames DEF DeletedAt, WrittenAt

-----------------------------------------------------------------------------
(* The save of a game: players, game, then every row of the game anew.       *)

GameSaved(db, new, n) ==
  [t \in Tables |-> IF WrittenAt[t] <= n THEN new[t] ELSE IF DeletedAt[t] <= n THEN {} ELSE db[t]]

(* The statements of the save of a game, by their positions. *)
LEMMA GameStatements ==
  ASSUME NEW db, NEW new, new.games # {}
  PROVE  LET save == SaveAggregate(db, new) IN
         /\ Len(save) = 22
         /\ save[1] = Delete("player_sessions", {}) /\ save[2] = Delete("players", {})
         /\ save[3] = Update("players", new.players) /\ save[4] = SaveGame(db, new)
         /\ \A i \in 1 .. 9 : save[4 + i] = Delete(GameTables[i], db[GameTables[i]])
         /\ \A i \in 1 .. 9 : save[13 + i] = Insert(InsertOrder[i], new[InsertOrder[i]])
<1> DEFINE first == SavePlayers(db, new)
           game == <<SaveGame(db, new)>>
           deletes == DeleteAll(db, GameTables)
           inserts == InsertAll(new, InsertOrder)
           cleared == Join(game, deletes)
           rest == Join(cleared, inserts)
<1>1. /\ HasLength(first, 3)
      /\ first[1] = Delete("player_sessions", {}) /\ first[2] = Delete("players", {})
      /\ first[3] = Update("players", new.players)
  BY DEF SavePlayers, HasLength
<1>2. HasLength(game, 1) /\ game[1] = SaveGame(db, new)
  BY DEF HasLength
<1>3. /\ HasLength(deletes, 9)
      /\ \A i \in 1 .. 9 : deletes[i] = Delete(GameTables[i], db[GameTables[i]])
  <2>1. DOMAIN GameTables = 1 .. 9
    BY GameTablesAre, LengthIs
  <2>. QED  BY <2>1 DEF DeleteAll, HasLength
<1>4. /\ HasLength(inserts, 9)
      /\ \A i \in 1 .. 9 : inserts[i] = Insert(InsertOrder[i], new[InsertOrder[i]])
  <2>1. DOMAIN InsertOrder = 1 .. 9
    BY InsertOrderIs, LengthIs
  <2>. QED  BY <2>1 DEF InsertAll, HasLength
<1>5. SaveAggregate(db, new) = Join(first, rest)
  BY DEF SaveAggregate, Join
<1>. HIDE DEF first, game, deletes, inserts
<1>6. /\ HasLength(cleared, 10) /\ cleared[1] = game[1]
      /\ \A i \in 1 .. 9 : cleared[1 + i] = deletes[i]
  <2>1. 1 \in 1 .. 1
    OBVIOUS
  <2>. QED  BY <1>2, <1>3, <2>1, SequencesJoin
<1>. HIDE DEF cleared
<1>7. /\ HasLength(rest, 19)
      /\ \A i \in 1 .. 10 : rest[i] = cleared[i]
      /\ \A i \in 1 .. 9 : rest[10 + i] = inserts[i]
  BY <1>4, <1>6, SequencesJoin
<1>. HIDE DEF rest
<1> DEFINE save == Join(first, rest)
<1>8. /\ HasLength(save, 22)
      /\ \A i \in 1 .. 3 : save[i] = first[i]
      /\ \A i \in 1 .. 19 : save[3 + i] = rest[i]
  BY <1>1, <1>7, SequencesJoin
<1>. HIDE DEF save
<1>9. save[4] = SaveGame(db, new)
  <2>1. 1 \in 1 .. 10 /\ 1 \in 1 .. 19
    OBVIOUS
  <2>2. save[3 + 1] = rest[1] /\ rest[1] = cleared[1]
    BY <1>7, <1>8, <2>1
  <2>. QED  BY <1>2, <1>6, <2>2
<1>10. \A i \in 1 .. 9 : save[4 + i] = deletes[i]
  <2>1. \A i \in 1 .. 9 : /\ 1 + i \in 1 .. 10 /\ 1 + i \in 1 .. 19 /\ 4 + i = 3 + (1 + i)
    OBVIOUS
  <2>. QED  BY <1>6, <1>7, <1>8, <2>1
<1>11. \A i \in 1 .. 9 : save[13 + i] = inserts[i]
  <2>1. \A i \in 1 .. 9 : 10 + i \in 1 .. 19 /\ 13 + i = 3 + (10 + i)
    OBVIOUS
  <2>. QED  BY <1>7, <1>8, <2>1
<1>12. /\ \A i \in {1, 2, 3} : save[i] = first[i]
       /\ Len(save) = 22 /\ SaveAggregate(db, new) = save
  <2>1. Len(save) = 22
    BY <1>8, LengthIs
  <2>2. SaveAggregate(db, new) = save
    BY <1>5 DEF save
  <2>. QED  BY <1>8, <2>1, <2>2, 1 \in 1 .. 3, 2 \in 1 .. 3, 3 \in 1 .. 3
<1>. QED  BY <1>1, <1>3, <1>4, <1>9, <1>10, <1>11, <1>12

(* References survive when the rows they point at keep their ids. *)
LEMMA RefersToMore ==
  ASSUME NEW rows, NEW column, NEW targets, NEW more, Ids(targets) \subseteq Ids(more),
         Refers(rows, column, targets)
  PROVE  Refers(rows, column, more)
BY DEF Refers

(* A game that is stored over another, or over a lobby, of the same players. *)
LEMMA GameSaveWorks ==
  ASSUME NEW db, NEW new, WellFormed(db), WellFormed(new), new.games # {},
         Ids(db.players) = Ids(new.players), new.player_sessions = db.player_sessions,
         Ids(db.games) \subseteq Ids(new.games)
  PROVE  Transaction(db, SaveAggregate(db, new)) = new
<1> DEFINE at == [n \in 0 .. 22 |-> GameSaved(db, new, n)]
           save == SaveAggregate(db, new)
<1>1. \A n \in 0 .. 22 : IsDb(at[n])
  BY DEF GameSaved, IsDb
<1>2. \A n \in 0 .. 22, t \in Tables :
        at[n][t] = IF WrittenAt[t] <= n THEN new[t] ELSE IF DeletedAt[t] <= n THEN {} ELSE db[t]
  BY DEF GameSaved
<1>3. at[0] = db /\ at[22] = new
  <2>1. \A t \in Tables : at[0][t] = db[t] /\ at[22][t] = new[t]
    BY <1>2, OrderTypes
  <2>. QED  BY <1>1, <2>1 DEF WellFormed, IsDb
<1>. HIDE DEF at
<1>4. ASSUME NEW n \in 1 .. 22
      PROVE  at[n] = Exec(at[n - 1], save[n])
  <2>0. n - 1 \in 0 .. 22 /\ n \in 0 .. 22
    OBVIOUS
  <2>1. CASE n \in {1, 2}
    <3>1. PICK t \in Tables : save[n] = Delete(t, {})
      BY <2>1, GameStatements, TableNames
    <3>2. Exec(at[n - 1], save[n]) = at[n - 1]
      BY <1>1, <2>0, <3>1, DeleteNothing
    <3>3. \A u \in Tables : at[n][u] = at[n - 1][u]
      BY <1>2, <2>0, <2>1, OrderTypes
    <3>. QED  BY <1>1, <2>0, <3>2, <3>3 DEF IsDb
  <2>2. CASE n = 3
    <3>0. n - 1 = 2 /\ 2 \in 0 .. 22 /\ 3 \in 0 .. 22 /\ "players" \in Tables
      BY <2>2, TableNames
    <3>1. save[n] = Update("players", new.players)
      BY <2>2, GameStatements
    <3>2. \A u \in Tables : u # "players" => at[3][u] = at[2][u]
      BY <1>2, <3>0, OrderTypes
    <3>3. /\ \A u \in Tables : WrittenAt[u] > 2 => at[2][u] = db[u]
          /\ at[2].player_sessions = db.player_sessions /\ at[3].players = new.players
          /\ WrittenAt["players"] = 3
      <4>1. "player_sessions" \in Tables /\ WrittenAt["player_sessions"] = 0
            /\ WrittenAt["players"] = 3
        BY TableNames DEF WrittenAt
      <4>. QED  BY <1>2, <3>0, <4>1, OrderTypes
    <3>4. ASSUME NEW c \in Tables, NEW column \in DOMAIN References[c], References[c][column] = "players"
          PROVE  Refers(at[2][c], column, new.players)
      <4>1. at[2][c] = db[c]
        BY <3>3, <3>4, OrderTypes
      <4>2. Refers(db[c], column, db.players)
        BY <3>4 DEF WellFormed
      <4>. QED  BY <4>1, <4>2, RefersToMore
    <3>5. Ids(at[2].players) \subseteq Ids(new.players) /\ Unique(new.players, "players")
      BY <3>0, <3>3 DEF WellFormed
    <3>6. \A column \in DOMAIN References["players"] : FALSE
      BY <3>0, ForeignKeys
    <3>7. Exec(at[2], Update("players", new.players))
            = [at[2] EXCEPT !["players"] = new.players]
      BY <1>1, <3>0, <3>4, <3>5, <3>6, UpdateWorks
    <3>. QED  BY <1>1, <2>2, <3>0, <3>1, <3>2, <3>3, <3>7 DEF IsDb
  <2>3. CASE n = 4
    <3>0. n - 1 = 3 /\ 3 \in 0 .. 22 /\ 4 \in 0 .. 22 /\ "games" \in Tables
      BY <2>3, TableNames
    <3>1. save[n] = SaveGame(db, new)
      BY <2>3, GameStatements
    <3>2. \A u \in Tables : u # "games" => at[4][u] = at[3][u]
      BY <1>2, <3>0, OrderTypes
    <3>3. /\ \A u \in Tables : WrittenAt[u] > 3 => at[3][u] = db[u]
          /\ at[4].games = new.games /\ WrittenAt["games"] = 4
      <4>1. WrittenAt["games"] = 4
        BY DEF WrittenAt
      <4>. QED  BY <1>2, <3>0, <4>1, OrderTypes
    <3>4. ASSUME NEW c \in Tables, NEW column \in DOMAIN References[c], References[c][column] = "games"
          PROVE  Refers(at[3][c], column, new.games)
      <4>1. c \in {"game_players", "game_cycles", "rounds"}
        BY <3>4, ForeignKeys
      <4>2. at[3][c] = db[c]
        BY <3>3, <4>1 DEF WrittenAt
      <4>3. Refers(db[c], column, db.games)
        BY <3>4 DEF WellFormed
      <4>. QED  BY <4>2, <4>3, RefersToMore
    <3>5. /\ at[3].games = db.games /\ Unique(new.games, "games")
          /\ \A column \in DOMAIN References["games"] : FALSE
      BY <3>0, <3>3, ForeignKeys DEF WellFormed
    <3>6. Exec(at[3], SaveGame(db, new)) = [at[3] EXCEPT !["games"] = new.games]
      <4>1. CASE db.games = {}
        <5>1. SaveGame(db, new) = Insert("games", new.games) /\ at[3].games = {}
          BY <3>5, <4>1 DEF SaveGame
        <5>2. Exec(at[3], Insert("games", new.games)) = [at[3] EXCEPT !["games"] = new.games]
          BY <1>1, <3>0, <3>5, <5>1, InsertFirstWorks
        <5>. QED  BY <5>1, <5>2
      <4>2. CASE db.games # {}
        <5>1. SaveGame(db, new) = Update("games", new.games)
          BY <4>2 DEF SaveGame
        <5>2. Exec(at[3], Update("games", new.games))
                = [at[3] EXCEPT !["games"] = new.games]
          BY <1>1, <3>0, <3>4, <3>5, UpdateWorks
        <5>. QED  BY <5>1, <5>2
      <4>. QED  BY <4>1, <4>2
    <3>. QED  BY <1>1, <2>3, <3>0, <3>1, <3>2, <3>3, <3>6 DEF IsDb
  <2>4. CASE n \in 5 .. 13
    <3> DEFINE t == GameTables[n - 4]
    <3>1. /\ n - 4 \in 1 .. 9 /\ 4 + (n - 4) = n /\ t \in Tables /\ DeletedAt[t] = n
          /\ \A u \in Tables : DeletedAt[u] = n => u = t
      BY <2>4, GameTablesAre
    <3>. HIDE DEF t
    <3>2. save[n] = Delete(t, db[t])
      BY <3>1, GameStatements DEF t
    <3>3. at[n - 1][t] = db[t] /\ at[n][t] = {}
      BY <1>2, <2>0, <2>4, <3>1, OrderTypes
    <3>5. ASSUME NEW c \in Tables, NEW column \in DOMAIN References[c], References[c][column] = t
          PROVE  Refers(at[n - 1][c], column, {})
      <4>1. DeletedAt[c] \in 5 .. 13 /\ DeletedAt[c] < n
        BY <2>4, <3>1, <3>5, OrderIsSafe
      <4>2. at[n - 1][c] = {}
        BY <1>2, <2>0, <2>4, <4>1, OrderTypes
      <4>. QED  BY <4>2 DEF Refers
    <3>6. Exec(at[n - 1], save[n]) = [at[n - 1] EXCEPT ![t] = {}]
      <4>1. save[n] = Delete(t, at[n - 1][t]) /\ IsDb(at[n - 1])
        BY <1>1, <2>0, <3>2, <3>3
      <4>2. Exec(at[n - 1], Delete(t, at[n - 1][t])) = [at[n - 1] EXCEPT ![t] = {}]
        BY <3>1, <3>5, <4>1, DeleteAllWorks
      <4>. QED  BY <4>1, <4>2
    <3>7. \A u \in Tables : u # t => at[n][u] = at[n - 1][u]
      BY <1>2, <2>0, <2>4, <3>1, OrderTypes
    <3>. QED  BY <1>1, <2>0, <3>3, <3>6, <3>7 DEF IsDb
  <2>5. CASE n \in 14 .. 22
    <3> DEFINE t == InsertOrder[n - 13]
    <3>1. /\ n - 13 \in 1 .. 9 /\ 13 + (n - 13) = n /\ t \in Tables /\ WrittenAt[t] = n
          /\ \A u \in Tables : WrittenAt[u] = n => u = t
      BY <2>5, InsertOrderIs
    <3>. HIDE DEF t
    <3>2. save[n] = Insert(t, new[t])
      BY <3>1, GameStatements DEF t
    <3>3. at[n - 1][t] = {} /\ at[n][t] = new[t]
      BY <1>2, <2>0, <2>5, <3>1, OrderTypes
    <3>5. ASSUME NEW column \in DOMAIN References[t]
          PROVE  Refers(new[t], column, at[n - 1][References[t][column]])
      <4>1. References[t][column] \in Tables /\ WrittenAt[References[t][column]] < n
        BY <2>5, <3>1, <3>5, OrderIsSafe, ForeignKeys
      <4>2. at[n - 1][References[t][column]] = new[References[t][column]]
        BY <1>2, <2>0, <2>5, <4>1, OrderTypes
      <4>. QED  BY <3>1, <4>2 DEF WellFormed
    <3>7. Exec(at[n - 1], save[n]) = [at[n - 1] EXCEPT ![t] = new[t]]
      <4>1. Unique(new[t], t)
        BY <3>1 DEF WellFormed
      <4>. QED  BY <1>1, <2>0, <3>1, <3>2, <3>3, <3>5, <4>1, InsertFirstWorks
    <3>8. \A u \in Tables : u # t => at[n][u] = at[n - 1][u]
      BY <1>2, <2>0, <2>5, <3>1, OrderTypes
    <3>. QED  BY <1>1, <2>0, <3>3, <3>7, <3>8 DEF IsDb
  <2>. QED  BY <2>1, <2>2, <2>3, <2>4, <2>5
<1>5. \A n \in 1 .. 22 : at[n - 1] # Failed
  <2>1. \A n \in 1 .. 22 : n - 1 \in 0 .. 22
    OBVIOUS
  <2>. QED  BY <1>1, <2>1, NotFailed
<1>6. at = [n \in 0 .. 22 |-> at[n]]
  BY DEF at
<1>7. Len(save) = 22
  BY GameStatements
<1>. HIDE DEF save
<1>8. Trace(at, db, save, 22)
  BY <1>3, <1>4, <1>5, <1>6, <1>7 DEF Trace
<1>9. Transaction(db, save) = new
  BY <1>3, <1>8, TransactionRuns
<1>. QED  BY <1>9 DEF save

-----------------------------------------------------------------------------
(* The save of a lobby: whoever left goes, and with the reset of the room    *)
(* the game does.                                                            *)

Remaining(rows, new) == {r \in rows : r.id \in Ids(new.players)}
Going(rows, new) == {r \in rows : r.id \notin Ids(new.players)}

(* The statements of the save of a lobby, by their positions. *)
LEMMA LobbyStatements ==
  ASSUME NEW db, NEW new, new.games = {}
  PROVE  LET save == SaveAggregate(db, new) IN
         /\ Len(save) = 13
         /\ save[1] = Delete("player_sessions", Going(db.player_sessions, new))
         /\ save[2] = Delete("players", Going(db.players, new))
         /\ save[3] = Update("players", new.players)
         /\ \A i \in 1 .. 9 : save[3 + i] = Delete(GameTables[i], db[GameTables[i]])
         /\ save[13] = Delete("games", db["games"])
<1> DEFINE first == SavePlayers(db, new)
           tables == Join(GameTables, <<"games">>)
           deletes == DeleteAll(db, tables)
<1>1. /\ HasLength(first, 3)
      /\ first[1] = Delete("player_sessions", Going(db.player_sessions, new))
      /\ first[2] = Delete("players", Going(db.players, new))
      /\ first[3] = Update("players", new.players)
  BY DEF SavePlayers, HasLength, Going
<1>2. /\ HasLength(tables, 10) /\ \A i \in 1 .. 9 : tables[i] = GameTables[i]
      /\ tables[10] = "games"
  <2> DEFINE last == <<"games">>
  <2>1. HasLength(last, 1) /\ last[1] = "games"
    BY DEF HasLength
  <2>. HIDE DEF last
  <2>2. /\ HasLength(Join(GameTables, last), 10)
        /\ \A i \in 1 .. 9 : Join(GameTables, last)[i] = GameTables[i]
        /\ \A i \in 1 .. 1 : Join(GameTables, last)[9 + i] = last[i]
    BY <2>1, GameTablesAre, SequencesJoin
  <2>3. Join(GameTables, last)[9 + 1] = last[1]
    BY <2>2, 1 \in 1 .. 1
  <2>. QED  BY <2>1, <2>2, <2>3 DEF last
<1>. HIDE DEF tables
<1>3. /\ HasLength(deletes, 10)
      /\ \A i \in 1 .. 10 : deletes[i] = Delete(tables[i], db[tables[i]])
  <2>1. DOMAIN tables = 1 .. 10
    BY <1>2, LengthIs
  <2>. QED  BY <2>1 DEF DeleteAll, HasLength
<1>4. SaveAggregate(db, new) = Join(first, deletes)
  BY DEF SaveAggregate, Join, tables
<1>. HIDE DEF first, deletes
<1> DEFINE save == Join(first, deletes)
<1>5. /\ HasLength(save, 13)
      /\ \A i \in 1 .. 3 : save[i] = first[i]
      /\ \A i \in 1 .. 10 : save[3 + i] = deletes[i]
  BY <1>1, <1>3, SequencesJoin
<1>. HIDE DEF save
<1>6. \A i \in 1 .. 9 : save[3 + i] = Delete(GameTables[i], db[GameTables[i]])
  <2>1. \A i \in 1 .. 9 : i \in 1 .. 10
    OBVIOUS
  <2>. QED  BY <1>2, <1>3, <1>5, <2>1
<1>7. save[13] = Delete("games", db["games"])
  <2>1. save[3 + 10] = deletes[10]
    BY <1>5, 10 \in 1 .. 10
  <2>. QED  BY <1>2, <1>3, <2>1, 10 \in 1 .. 10
<1>8. SaveAggregate(db, new) = save /\ Len(save) = 13
  <2>1. Len(save) = 13
    <3>1. HasLength(save, 13)
      BY <1>5
    <3>. QED  BY <3>1, LengthIs
  <2>. QED  BY <1>4, <2>1 DEF save
<1>. QED  BY <1>1, <1>5, <1>6, <1>7, <1>8, 1 \in 1 .. 3, 2 \in 1 .. 3, 3 \in 1 .. 3

LobbySaved(db, new, n) ==
  [t \in Tables |->
     CASE t = "player_sessions" -> IF n = 0 THEN db[t] ELSE new[t]
       [] t = "players" -> IF n <= 1 THEN db[t] ELSE IF n = 2 THEN Remaining(db[t], new) ELSE new[t]
       [] OTHER -> IF DeletedAt[t] <= n + 1 THEN {} ELSE db[t]]

(* A lobby stored over a game: those who have left go with their sessions. *)
LEMMA LobbySaveWorks ==
  ASSUME NEW db, NEW new, WellFormed(db), WellFormed(new),
         \A t \in Tables \ {"players", "player_sessions"} : new[t] = {},
         Ids(new.players) \subseteq Ids(db.players),
         new.player_sessions = Remaining(db.player_sessions, new),
         Refers(db.game_players, "player", new.players)
  PROVE  Transaction(db, SaveAggregate(db, new)) = new
<1> DEFINE at == [n \in 0 .. 13 |-> LobbySaved(db, new, n)]
           save == SaveAggregate(db, new)
<1>0. new.games = {} /\ "players" \in Tables /\ "player_sessions" \in Tables /\ "games" \in Tables
  BY TableNames
<1>1. \A n \in 0 .. 13 : IsDb(at[n])
  BY DEF LobbySaved, IsDb
<1>2. \A n \in 0 .. 13, t \in Tables \ {"players", "player_sessions"} :
        at[n][t] = IF DeletedAt[t] <= n + 1 THEN {} ELSE db[t]
  BY DEF LobbySaved
<1>3. \A n \in 0 .. 13 :
        /\ at[n]["player_sessions"] = IF n = 0 THEN db["player_sessions"] ELSE new["player_sessions"]
        /\ at[n]["players"] = IF n <= 1 THEN db["players"]
                              ELSE IF n = 2 THEN Remaining(db["players"], new) ELSE new["players"]
  BY <1>0 DEF LobbySaved
<1>4. \A t \in Tables \ {"players", "player_sessions"} : DeletedAt[t] \in 5 .. 14
  BY TableNames DEF DeletedAt
<1>5. at[0] = db /\ at[13] = new
  <2>1. \A t \in Tables : at[0][t] = db[t] /\ at[13][t] = new[t]
    <3>1. 0 \in 0 .. 13 /\ 13 \in 0 .. 13
      OBVIOUS
    <3>. HIDE DEF at
    <3>2. at[0]["players"] = db["players"] /\ at[0]["player_sessions"] = db["player_sessions"]
          /\ at[13]["players"] = new["players"] /\ at[13]["player_sessions"] = new["player_sessions"]
      BY <1>3, <3>1
    <3>3. ASSUME NEW t \in Tables \ {"players", "player_sessions"}
          PROVE  at[0][t] = db[t] /\ at[13][t] = {}
      BY <1>2, <1>4, <3>1
    <3>. QED  BY <3>2, <3>3
  <2>2. IsDb(at[0]) /\ IsDb(at[13])
    BY <1>1
  <2>. HIDE DEF at
  <2>. QED  BY <2>1, <2>2 DEF WellFormed, IsDb
<1>. HIDE DEF at
<1>6. ASSUME NEW n \in 1 .. 13
      PROVE  at[n] = Exec(at[n - 1], save[n])
  <2>0. n - 1 \in 0 .. 13 /\ n \in 0 .. 13 /\ IsDb(at[n - 1]) /\ IsDb(at[n])
    BY <1>1
  <2>1. CASE n = 1
    <3>1. save[1] = Delete("player_sessions", Going(db.player_sessions, new)) /\ at[n - 1] = db
      BY <1>0, <1>5, <2>1, LobbyStatements
    <3>2. Remaining(db.player_sessions, new)
            = Kept(db, "player_sessions", Going(db.player_sessions, new))
      BY DEF Remaining, Going, Ids, Kept
    <3>3. \A c \in Tables : \A column \in DOMAIN References[c] : References[c][column] # "player_sessions"
      BY ForeignKeys
    <3>4. Exec(db, Delete("player_sessions", Going(db.player_sessions, new)))
            = [db EXCEPT !["player_sessions"] = Remaining(db.player_sessions, new)]
      <4>1. IsDb(db)
        BY DEF WellFormed
      <4>. QED  BY <1>0, <3>2, <3>3, <4>1, DeleteWorks
    <3>5. \A t \in Tables : t # "player_sessions" => at[1][t] = db[t]
      BY <1>2, <1>3, <1>4, 1 \in 0 .. 13
    <3>6. at[1]["player_sessions"] = Remaining(db.player_sessions, new)
      BY <1>3, 1 \in 0 .. 13
    <3>. QED  BY <1>0, <2>0, <2>1, <3>1, <3>4, <3>5, <3>6 DEF IsDb
  <2>2. CASE n = 2
    <3>1. save[2] = Delete("players", Going(db.players, new))
      BY <1>0, LobbyStatements
    <3>2. /\ at[1]["players"] = db.players /\ at[2]["players"] = Remaining(db.players, new)
          /\ at[1]["player_sessions"] = new.player_sessions
          /\ \A t \in Tables : t # "players" => at[2][t] = at[1][t]
      <4>1. 1 \in 0 .. 13 /\ 2 \in 0 .. 13
        OBVIOUS
      <4>. QED  BY <1>2, <1>3, <1>4, <4>1
    <3>3. Remaining(db.players, new) = Kept(at[1], "players", Going(db.players, new))
      BY <3>2 DEF Remaining, Going, Ids, Kept
    <3>4. Ids(new.players) \subseteq Ids(Remaining(db.players, new))
      BY DEF Remaining, Ids
    <3>5. ASSUME NEW c \in Tables, NEW column \in DOMAIN References[c], References[c][column] = "players"
          PROVE  Refers(at[1][c], column, Remaining(db.players, new))
      <4>1. c \in {"player_sessions", "game_players"} /\ column = "player"
        BY <3>5, ForeignKeys
      <4>2. CASE c = "player_sessions"
        <5>1. Refers(new["player_sessions"], column, new["players"])
          BY <3>5, <4>2 DEF WellFormed
        <5>. QED  BY <3>2, <3>4, <4>2, <5>1, RefersToMore
      <4>3. CASE c = "game_players"
        <5>1. at[1]["game_players"] = db.game_players
          BY <1>2, <4>3, 1 \in 0 .. 13 DEF DeletedAt
        <5>. QED  BY <3>4, <4>1, <4>3, <5>1, RefersToMore
      <4>. QED  BY <4>1, <4>2, <4>3
    <3>6. IsDb(at[1]) /\ n - 1 = 1
      BY <2>0, <2>2
    <3>7. Exec(at[1], Delete("players", Going(db.players, new)))
            = [at[1] EXCEPT !["players"] = Remaining(db.players, new)]
      BY <1>0, <3>3, <3>5, <3>6, DeleteWorks
    <3>. QED  BY <1>0, <2>0, <2>2, <3>1, <3>2, <3>6, <3>7 DEF IsDb
  <2>3. CASE n = 3
    <3>1. save[3] = Update("players", new.players)
      BY <1>0, LobbyStatements
    <3>2. /\ at[2]["players"] = Remaining(db.players, new) /\ at[3]["players"] = new.players
          /\ at[2]["player_sessions"] = new.player_sessions
          /\ \A t \in Tables : t # "players" => at[3][t] = at[2][t]
      <4>1. 2 \in 0 .. 13 /\ 3 \in 0 .. 13
        OBVIOUS
      <4>. QED  BY <1>2, <1>3, <1>4, <4>1
    <3>3. Ids(at[2]["players"]) \subseteq Ids(new.players) /\ Unique(new.players, "players")
      BY <1>0, <3>2 DEF Remaining, Ids, WellFormed
    <3>4. \A column \in DOMAIN References["players"] : FALSE
      BY <1>0, ForeignKeys
    <3>5. ASSUME NEW c \in Tables, NEW column \in DOMAIN References[c], References[c][column] = "players"
          PROVE  Refers(at[2][c], column, new.players)
      <4>1. c \in {"player_sessions", "game_players"} /\ column = "player"
        BY <3>5, ForeignKeys
      <4>2. CASE c = "player_sessions"
        <5>1. Refers(new["player_sessions"], column, new["players"])
          BY <3>5, <4>2 DEF WellFormed
        <5>. QED  BY <3>2, <4>2, <5>1
      <4>3. CASE c = "game_players"
        <5>1. at[2]["game_players"] = db.game_players
          BY <1>2, <4>3, 2 \in 0 .. 13 DEF DeletedAt
        <5>. QED  BY <4>1, <4>3, <5>1
      <4>. QED  BY <4>1, <4>2, <4>3
    <3>6. IsDb(at[2]) /\ n - 1 = 2
      BY <2>0, <2>3
    <3>7. Exec(at[2], Update("players", new.players)) = [at[2] EXCEPT !["players"] = new.players]
      BY <1>0, <3>3, <3>4, <3>5, <3>6, UpdateWorks
    <3>. QED  BY <1>0, <2>0, <2>3, <3>1, <3>2, <3>6, <3>7 DEF IsDb
  <2>4. CASE n \in 4 .. 13
    <3>1. PICK t \in Tables : /\ save[n] = Delete(t, db[t]) /\ DeletedAt[t] = n + 1
                              /\ t \notin {"players", "player_sessions"}
                              /\ \A u \in Tables : DeletedAt[u] = n + 1 => u = t
      <4>1. CASE n = 13
        <5>1. \A u \in Tables : DeletedAt[u] = 14 <=> u = "games"
          BY TableNames DEF DeletedAt
        <5>. QED  BY <1>0, <4>1, <5>1, LobbyStatements
      <4>2. CASE n \in 4 .. 12
        <5> DEFINE u == GameTables[n - 3]
        <5>1. /\ n - 3 \in 1 .. 9 /\ 3 + (n - 3) = n /\ u \in Tables /\ DeletedAt[u] = n + 1
              /\ \A v \in Tables : DeletedAt[v] = n + 1 => v = u
          <6>1. n - 3 \in 1 .. 9 /\ 4 + (n - 3) = n + 1
            BY <4>2
          <6>. QED  BY <6>1, GameTablesAre
        <5>. HIDE DEF u
        <5>2. save[n] = Delete(u, db[u])
          BY <1>0, <5>1, LobbyStatements DEF u
        <5>3. u \notin {"players", "player_sessions"}
          BY <4>2, <5>1 DEF DeletedAt
        <5>. QED  BY <5>1, <5>2, <5>3
      <4>. QED  BY <2>4, <4>1, <4>2
    <3>2. at[n - 1][t] = db[t] /\ at[n][t] = {}
      BY <1>2, <2>0, <2>4, <3>1
    <3>3. ASSUME NEW c \in Tables, NEW column \in DOMAIN References[c], References[c][column] = t
          PROVE  Refers(at[n - 1][c], column, {})
      <4>1. DeletedAt[c] \in 5 .. 13 /\ DeletedAt[c] < n + 1
        BY <2>4, <3>1, <3>3, OrderIsSafe
      <4>2. c \notin {"players", "player_sessions"}
        BY <4>1 DEF DeletedAt
      <4>3. at[n - 1][c] = {}
        BY <1>2, <2>0, <2>4, <4>1, <4>2
      <4>. QED  BY <4>3 DEF Refers
    <3>4. Exec(at[n - 1], save[n]) = [at[n - 1] EXCEPT ![t] = {}]
      <4>1. save[n] = Delete(t, at[n - 1][t])
        BY <3>1, <3>2
      <4>2. Exec(at[n - 1], Delete(t, at[n - 1][t])) = [at[n - 1] EXCEPT ![t] = {}]
        BY <2>0, <3>1, <3>3, DeleteAllWorks
      <4>. QED  BY <4>1, <4>2
    <3>5. \A u \in Tables : u # t => at[n][u] = at[n - 1][u]
      <4>1. \A u \in Tables \ {"players", "player_sessions"} : u # t => at[n][u] = at[n - 1][u]
        BY <1>2, <1>4, <2>0, <2>4, <3>1
      <4>2. /\ at[n]["players"] = at[n - 1]["players"]
            /\ at[n]["player_sessions"] = at[n - 1]["player_sessions"]
        BY <1>3, <2>0, <2>4
      <4>. QED  BY <4>1, <4>2
    <3>. QED  BY <2>0, <3>2, <3>4, <3>5 DEF IsDb
  <2>. QED  BY <2>1, <2>2, <2>3, <2>4
<1>7. \A n \in 1 .. 13 : at[n - 1] # Failed
  <2>1. \A n \in 1 .. 13 : n - 1 \in 0 .. 13
    OBVIOUS
  <2>. QED  BY <1>1, <2>1, NotFailed
<1>8. at = [n \in 0 .. 13 |-> at[n]]
  BY DEF at
<1>9. Len(save) = 13
  BY <1>0, LobbyStatements
<1>. HIDE DEF save
<1>10. Trace(at, db, save, 13)
  BY <1>5, <1>6, <1>7, <1>8, <1>9 DEF Trace
<1>11. Transaction(db, save) = new
  BY <1>5, <1>10, TransactionRuns
<1>. QED  BY <1>11 DEF save

-----------------------------------------------------------------------------
(* A join writes what is new in two tables.                                  *)
LEMMA JoinSaveWorks ==
  ASSUME NEW db, NEW new, IsDb(db), WellFormed(new),
         \A t \in Tables \ {"players", "player_sessions"} : new[t] = db[t],
         db.players \subseteq new.players, db.player_sessions \subseteq new.player_sessions
  PROVE  Transaction(db, SaveJoin(db, new)) = new
<1> DEFINE mid == [db EXCEPT !["players"] = new["players"]]
           joined == new.players \ db.players
           opened == new.player_sessions \ db.player_sessions
           at == [n \in 0 .. 2 |-> IF n = 0 THEN db ELSE IF n = 1 THEN mid ELSE new]
           save == SaveJoin(db, new)
<1>1. /\ Len(save) = 2 /\ save[1] = Insert("players", joined)
      /\ save[2] = Insert("player_sessions", opened)
  BY DEF SaveJoin
<1>2. "players" \in Tables /\ "player_sessions" \in Tables
  BY TableNames
<1>3. IsDb(mid) /\ IsDb(new)
  BY DEF IsDb, WellFormed
<1>4. /\ db["players"] \cap joined = {} /\ db["players"] \cup joined = new["players"]
      /\ mid["player_sessions"] \cap opened = {}
      /\ mid["player_sessions"] \cup opened = new["player_sessions"]
      /\ mid["players"] = new["players"]
  BY <1>2 DEF IsDb
<1>. HIDE DEF joined, opened, save
<1>5. Exec(db, Insert("players", joined)) = mid
  <2>1. Unique(db["players"] \cup joined, "players")
    BY <1>2, <1>4 DEF WellFormed
  <2>2. \A column \in DOMAIN References["players"] : FALSE
    BY <1>2, ForeignKeys
  <2>3. Exec(db, Insert("players", joined)) = [db EXCEPT !["players"] = db["players"] \cup joined]
    <3>. HIDE <1>4
    <3>. QED  BY <1>2, <1>4, <2>1, <2>2, InsertWorks
  <2>. QED  BY <1>4, <2>3
<1>6. Exec(mid, Insert("player_sessions", opened)) = new
  <2>1. Unique(mid["player_sessions"] \cup opened, "player_sessions")
    BY <1>2, <1>4 DEF WellFormed
  <2>2. ASSUME NEW column \in DOMAIN References["player_sessions"]
        PROVE  Refers(opened, column, mid[References["player_sessions"][column]])
    <3>1. References["player_sessions"][column] = "players"
      BY <1>2, ForeignKeys
    <3>2. Refers(new["player_sessions"], column, new["players"])
      BY <1>2, <3>1 DEF WellFormed
    <3>3. opened \subseteq new["player_sessions"]
      BY DEF opened
    <3>4. Refers(opened, column, new["players"])
      BY <3>2, <3>3 DEF Refers
    <3>. QED  BY <1>4, <3>1, <3>4
  <2>. HIDE DEF mid
  <2>3. Exec(mid, Insert("player_sessions", opened))
          = [mid EXCEPT !["player_sessions"] = mid["player_sessions"] \cup opened]
    BY <1>2, <1>3, <1>4, <2>1, <2>2, InsertWorks
  <2>4. \A t \in Tables :
          [mid EXCEPT !["player_sessions"] = mid["player_sessions"] \cup opened][t] = new[t]
    <3>1. \A t \in Tables \ {"players", "player_sessions"} : mid[t] = new[t]
      BY DEF mid, IsDb
    <3>. QED  BY <1>2, <1>3, <1>4, <3>1 DEF IsDb
  <2>. QED  BY <1>3, <2>3, <2>4 DEF IsDb
<1>7. mid # Failed /\ db # Failed
  BY <1>3, NotFailed
<1>8. Trace(at, db, save, 2)
  <2>. HIDE DEF mid
  <2>1. at[0] = db /\ at[1] = mid /\ at[2] = new /\ at = [n \in 0 .. 2 |-> at[n]]
    OBVIOUS
  <2>. HIDE DEF at
  <2>2. ASSUME NEW k \in 1 .. 2
        PROVE  at[k] = IF at[k - 1] = Failed THEN Failed ELSE Exec(at[k - 1], save[k])
    <3>1. CASE k = 1
      BY <1>1, <1>5, <1>7, <2>1, <3>1
    <3>2. CASE k = 2
      BY <1>1, <1>6, <1>7, <2>1, <3>2
    <3>. QED  BY <3>1, <3>2
  <2>. QED  BY <1>1, <2>1, <2>2 DEF Trace
<1>9. at[2] = new
  OBVIOUS
<1>. HIDE DEF at
<1>. QED  BY <1>8, <1>9, TransactionRuns DEF save

(* The reset of a room fails over somebody who played and has left.          *)
LEMMA ResetFails ==
  ASSUME NEW db, NEW new, WellFormed(db), new.games = {},
         NEW r \in db.game_players, NEW q \in db.players,
         r.player = q.id, q.id \notin Ids(new.players)
  PROVE  Transaction(db, SaveAggregate(db, new)) = Failed
<1> DEFINE mid == [db EXCEPT !["player_sessions"] = Remaining(db["player_sessions"], new)]
           at == [n \in 0 .. 13 |-> IF n = 0 THEN db ELSE IF n = 1 THEN mid ELSE Failed]
           save == SaveAggregate(db, new)
           s == Delete("players", Going(db.players, new))
<1>1. /\ Len(save) = 13
      /\ save[1] = Delete("player_sessions", Going(db.player_sessions, new)) /\ save[2] = s
  BY LobbyStatements
<1>2. "players" \in Tables /\ "player_sessions" \in Tables /\ "game_players" \in Tables
  BY TableNames
<1>3. IsDb(db) /\ IsDb(mid)
  BY DEF IsDb, WellFormed
<1>. HIDE DEF save
<1>4. Exec(db, Delete("player_sessions", Going(db.player_sessions, new))) = mid
  <2>1. Remaining(db["player_sessions"], new)
          = Kept(db, "player_sessions", Going(db.player_sessions, new))
    BY DEF Remaining, Going, Ids, Kept
  <2>2. \A c \in Tables : \A column \in DOMAIN References[c] : References[c][column] # "player_sessions"
    BY ForeignKeys
  <2>. QED  BY <1>2, <1>3, <2>1, <2>2, DeleteWorks
<1>5. Exec(mid, s) = Failed
  <2>1. s.table = "players" /\ s.gone = Ids(Going(db.players, new)) /\ s.rows = {}
    BY DEF Delete
  <2>2. q.id \in s.gone
    BY <2>1 DEF Going, Ids
  <2>3. mid["players"] = db["players"] /\ mid["game_players"] = db["game_players"]
    BY <1>2, <1>3 DEF IsDb
  <2> DEFINE kept == {x \in mid["players"] : x.id \notin s.gone}
  <2>4. q.id \notin Ids(kept)
    BY <2>2 DEF Ids
  <2>5. ~Refers(mid["game_players"], "player", kept \cup {})
    BY <2>3, <2>4 DEF Refers
  <2>6. <<"game_players", "player">> \in ReferredBy["players"]
    BY <1>2 DEF ReferredBy, References, Tables
  <2>. HIDE DEF s, kept, mid
  <2>7. kept = {x \in mid["players"] : x.id \notin s.gone}
    BY DEF kept
  <2>8. ~ \A ref \in ReferredBy["players"] : Refers(mid[ref[1]], ref[2], kept \cup {})
    BY <2>5, <2>6
  <2>. QED  BY <2>1, <2>2, <2>7, <2>8 DEF Exec
<1>6. mid # Failed /\ db # Failed
  BY <1>3, NotFailed
<1>7. Trace(at, db, save, 13)
  <2>. HIDE DEF mid, s
  <2>1. /\ at[0] = db /\ at[1] = mid /\ \A n \in 2 .. 13 : at[n] = Failed
        /\ at = [n \in 0 .. 13 |-> at[n]]
    OBVIOUS
  <2>. HIDE DEF at
  <2>2. ASSUME NEW k \in 1 .. 13
        PROVE  at[k] = IF at[k - 1] = Failed THEN Failed ELSE Exec(at[k - 1], save[k])
    <3>1. CASE k = 1
      BY <1>1, <1>4, <1>6, <2>1, <3>1
    <3>2. CASE k = 2
      BY <1>1, <1>5, <1>6, <2>1, <3>2
    <3>3. CASE k \in 3 .. 13
      <4>1. k - 1 \in 2 .. 13 /\ k \in 2 .. 13
        BY <3>3
      <4>. QED  BY <2>1, <4>1
    <3>. QED  BY <3>1, <3>2, <3>3
  <2>. QED  BY <1>1, <2>1, <2>2 DEF Trace
<1>8. at[13] = Failed
  OBVIOUS
<1>. HIDE DEF at
<1>. QED  BY <1>7, <1>8, TransactionRuns DEF save

-----------------------------------------------------------------------------
(* What can be stored of the aggregate: hands, turns and votes belong to     *)
(* players of the game, players of the game to members of the room, votes to *)
(* options, and what there is of a round to the current one.                 *)

PlayersAreMembers == \A p \in Player : status[p] # "NONE" => member[p] # "OUT"

HeldByPlayers ==
  \A p \in Player :
    prepHand[p] # {} \/ roundHand[p] # {} \/ turn[p] # "NONE" \/ votes[p] # NoPlayer
      => status[p] # "NONE"

RoundIsCurrent ==
  IF phase \in {"NONE", "PREPARATION"}
  THEN current = NoPlayer /\ votes = NoVotes
  ELSE current \in Player /\ turn[current] # "NONE"

VotesAreForOptions == \A p \in Player : votes[p] # NoPlayer => ballot[votes[p]] # NoMeme

StoreInv == PlayersAreMembers /\ HeldByPlayers /\ RoundIsCurrent /\ VotesAreForOptions

MembersStay == \A p \in Player : member[p] # "OUT" => member'[p] # "OUT"
VotesCount(vt, options) ==
  \A p \in Player : vt[p] # NoPlayer => status[p] # "NONE" /\ options[vt[p]] # NoMeme

(* A new round starts with no votes, and its hands go to the active. *)
LEMMA StartRoundStores ==
  ASSUME TypeOK, StoreInv, GameGoesOn, MembersStay, UNCHANGED prepHand,
         NEW p \in Player, NEW st \in [Player -> Statuses], NEW tn \in [Player -> Turns], NEW prep,
         StartRound(p, st, tn, prep), st[p] = "ACTIVE",
         \A q \in Player : tn[q] # "NONE" => status[q] # "NONE"
  PROVE  StoreInv'
<1> DEFINE ps == ActiveIn(ResetSkipped(st)) \ {p}
           pool == RoundPool(p, prep)
<1>1. /\ phase' = "ROUND_SELECTION" /\ current' = p /\ status' = ResetSkipped(st)
      /\ turn' = [tn EXCEPT ![p] = "ACTIVE"] /\ votes' = NoVotes
  BY DEF StartRound
<1>2. PICK deal \in Deals(ps, pool) : roundHand' = HandsFor(deal)
  BY DEF StartRound
<1>3. ps \in SUBSET Player /\ pool \in SUBSET Meme
  BY DEF ActiveIn, RoundPool, TypeOK
<1>4. status'[p] = "ACTIVE" /\ \A q \in ps : status'[q] = "ACTIVE"
  BY <1>1 DEF ActiveIn, ResetSkipped
<1>. HIDE DEF ps, pool
<1>5. \A q \in Player : roundHand'[q] # {} => status'[q] = "ACTIVE"
  BY <1>2, <1>3, <1>4, DealtApart
<1>6. \A q \in Player : status'[q] = "NONE" <=> status[q] = "NONE"
  BY DEF GameGoesOn, SamePlayers
<1>7. HeldByPlayers'
  BY <1>1, <1>4, <1>5, <1>6 DEF StoreInv, HeldByPlayers, NoVotes
<1>8. PlayersAreMembers' /\ RoundIsCurrent' /\ VotesAreForOptions'
  BY <1>1, <1>6
  DEF StoreInv, PlayersAreMembers, MembersStay, RoundIsCurrent, VotesAreForOptions, NoVotes
<1>. QED  BY <1>7, <1>8 DEF StoreInv

(* Steps that deal nothing and change no round keep what is stored           *)
(* consistent.                                                               *)
LEMMA SameRoundStores ==
  ASSUME StoreInv, GameGoesOn, MembersStay, UNCHANGED <<prepHand, roundHand, current>>,
         phase \in {"NONE", "PREPARATION"} => phase' \in {"NONE", "PREPARATION"} /\ UNCHANGED votes,
         phase' \in {"NONE", "PREPARATION"} => phase \in {"NONE", "PREPARATION"},
         \A q \in Player : turn'[q] = "NONE" <=> turn[q] = "NONE",
         VotesCount(votes', ballot')
  PROVE  StoreInv'
<1>1. \A q \in Player : status'[q] = "NONE" <=> status[q] = "NONE"
  BY DEF GameGoesOn, SamePlayers
<1>2. PlayersAreMembers' /\ HeldByPlayers'
  BY <1>1 DEF StoreInv, PlayersAreMembers, MembersStay, HeldByPlayers, VotesCount
<1>3. RoundIsCurrent'
  BY DEF StoreInv, RoundIsCurrent
<1>4. VotesAreForOptions'
  BY DEF VotesAreForOptions, VotesCount
<1>. QED  BY <1>2, <1>3, <1>4 DEF StoreInv

(* A new cycle deals to the active players and has no rounds yet. *)
LEMMA BeginCycleStores ==
  ASSUME TypeOK, NEW st \in [Player -> Statuses], NEW n, BeginCycle(st, n), PlayersAreMembers'
  PROVE  StoreInv'
<1>1. /\ phase' = "PREPARATION" /\ status' = st /\ turn' = NoTurns /\ current' = NoPlayer
      /\ roundHand' = NoHands /\ votes' = NoVotes
  BY DEF BeginCycle
<1>2. PICK deal \in Deals(ActiveIn(st), enabled) : prepHand' = HandsFor(deal)
  BY DEF BeginCycle
<1>3. ActiveIn(st) \in SUBSET Player /\ enabled \in SUBSET Meme
  BY DEF ActiveIn, TypeOK
<1>4. \A q \in Player : prepHand'[q] # {} => q \in ActiveIn(st)
  BY <1>2, <1>3, DealtApart
<1>5. HeldByPlayers'
  BY <1>1, <1>4 DEF HeldByPlayers, ActiveIn, NoTurns, NoHands, NoVotes
<1>6. RoundIsCurrent' /\ VotesAreForOptions'
  BY <1>1 DEF RoundIsCurrent, VotesAreForOptions, NoVotes
<1>. QED  BY <1>5, <1>6 DEF StoreInv

(* What the steps find of a stored aggregate. *)
LEMMA StoredTypes ==
  ASSUME EngineInv, StoreInv
  PROVE  /\ TypeOK /\ status \in [Player -> Statuses] /\ turn \in [Player -> Turns]
         /\ \A q \in Player : turn[q] # "NONE" => status[q] # "NONE"
         /\ VotesCount(votes, ballot)
         /\ phase \in {"NONE", "PREPARATION"} => turn = NoTurns
BY AggregateTypes
  DEF EngineInv, StoreInv, HeldByPlayers, VotesAreForOptions, VotesCount, RoomMatchesPhase, CycleBegins

(* The first round of a cycle. *)
LEMMA AdvanceToRoundSelectionStores ==
  ASSUME EngineInv, StoreInv, GameGoesOn, MembersStay,
         NEW st \in [Player -> Statuses], NEW prep, AdvanceToRoundSelection(st, prep)
  PROVE  StoreInv'
<1>1. /\ StartRound(NextEligible(st, turn), st, turn, prep) /\ UNCHANGED prepHand
      /\ NextEligible(st, turn) \in Player /\ st[NextEligible(st, turn)] = "ACTIVE"
  BY NextEligiblePlayer DEF AdvanceToRoundSelection, Eligible, ActiveIn
<1>. QED  BY <1>1, StoredTypes, StartRoundStores

(* The next round, or the end of the cycle. *)
LEMMA NextRoundOrFinishStores ==
  ASSUME EngineInv, StoreInv, GameGoesOn, MembersStay,
         phase \notin {"NONE", "PREPARATION"},
         NEW st \in [Player -> Statuses], NEW tn \in [Player -> Turns], NextRoundOrFinish(st, tn),
         \A q \in Player : tn[q] = "NONE" <=> turn[q] = "NONE"
  PROVE  StoreInv'
<1>1. CASE Eligible(st, tn) # {}
  <2>1. /\ StartRound(NextEligible(st, tn), st, tn, prepared) /\ UNCHANGED prepHand
        /\ NextEligible(st, tn) \in Player /\ st[NextEligible(st, tn)] = "ACTIVE"
    BY <1>1, NextEligiblePlayer DEF NextRoundOrFinish, Eligible, ActiveIn
  <2>. QED  BY <2>1, StoredTypes, StartRoundStores
<1>2. CASE Eligible(st, tn) = {}
  <2>1. /\ phase' \in {"CYCLE_RESULTS", "GAME_RESULTS"} /\ turn' = tn
        /\ UNCHANGED <<prepHand, roundHand, current, ballot, votes>>
    BY <1>2 DEF NextRoundOrFinish, FinishCycle
  <2>. QED  BY <2>1, StoredTypes, SameRoundStores
<1>. QED  BY <1>1, <1>2

(* Voting opens with no votes. *)
LEMMA AdvanceToRoundVotingStores ==
  ASSUME EngineInv, DealInv, StoreInv, GameGoesOn, MembersStay, phase = "ROUND_SELECTION",
         NEW sub, AdvanceToRoundVoting(sub)
  PROVE  StoreInv'
<1>1. /\ phase' = "ROUND_VOTING"
      /\ UNCHANGED <<prepHand, roundHand, current, turn, votes>> /\ votes = NoVotes
  BY DEF AdvanceToRoundVoting, DealInv, RoundIsDealt
<1>2. VotesCount(votes', ballot')
  BY <1>1 DEF VotesCount, NoVotes
<1>. QED  BY <1>1, <1>2, SameRoundStores

(* The results keep the votes and the options they are for. *)
LEMMA AdvanceToRoundResultsStores ==
  ASSUME EngineInv, StoreInv, GameGoesOn, MembersStay, phase = "ROUND_VOTING",
         NEW vt, AdvanceToRoundResults(vt), VotesCount(vt, ballot)
  PROVE  StoreInv'
<1>1. /\ phase' = "ROUND_RESULTS" /\ votes' = vt /\ turn' = [turn EXCEPT ![current] = "FINISHED"]
      /\ UNCHANGED <<prepHand, roundHand, current, ballot>>
  BY DEF AdvanceToRoundResults
<1>2. current \in Player /\ turn[current] # "NONE" /\ turn \in [Player -> Turns]
  BY StoredTypes DEF EngineInv, RoundIsOpen
<1>. QED  BY <1>1, <1>2, SameRoundStores

(* The commands of one player in a phase. *)
LEMMA SubmitStores ==
  ASSUME EngineInv, DealInv, ContentInv, StoreInv, NEW p \in Player,
         \/ \E m \in Meme : SubmitPreparation(p, m)
         \/ \E m \in Meme : SubmitRoundMeme(p, m)
         \/ \E o \in Player : SubmitVote(p, o)
  PROVE  StoreInv'
<1>1. GameGoesOn
  BY SubmitGoesOn
<1>2. MembersStay
  BY DEF SubmitPreparation, SubmitRoundMeme, SubmitVote, MembersStay
<1>3. /\ status \in [Player -> Statuses] /\ votes \in [Player -> Player \cup {NoPlayer}]
      /\ VotesCount(votes, ballot)
  BY StoredTypes DEF EngineInv, TypeOK
<1>4. ASSUME NEW m \in Meme, SubmitPreparation(p, m)  PROVE StoreInv'
  <2> DEFINE prep == [prepared EXCEPT ![p] = m]
  <2>1. CASE AdvanceToRoundSelection(status, prep)
    BY <1>1, <1>2, <1>3, <2>1, AdvanceToRoundSelectionStores
  <2>2. CASE UNCHANGED <<phase, prepHand, turn, current, roundHand, roundVars>>
    BY <1>1, <1>2, <1>3, <2>2, SameRoundStores DEF roundVars
  <2>. QED  BY <1>4, <2>1, <2>2 DEF SubmitPreparation
<1>5. ASSUME NEW m \in Meme, SubmitRoundMeme(p, m)  PROVE StoreInv'
  <2> DEFINE sub == [submitted EXCEPT ![p] = m]
  <2>1. CASE AdvanceToRoundVoting(sub)
    BY <1>1, <1>2, <1>5, <2>1, AdvanceToRoundVotingStores DEF SubmitRoundMeme
  <2>2. CASE UNCHANGED <<phase, handVars, turn, current, ballot, votes>>
    BY <1>1, <1>2, <1>3, <2>2, SameRoundStores DEF handVars
  <2>. QED  BY <1>5, <2>1, <2>2 DEF SubmitRoundMeme
<1>6. ASSUME NEW o \in Player, SubmitVote(p, o)  PROVE StoreInv'
  <2> DEFINE vt == [votes EXCEPT ![p] = o]
  <2>1. phase = "ROUND_VOTING" /\ VotesCount(vt, ballot)
    BY <1>3, <1>6 DEF SubmitVote, VotesCount
  <2>2. CASE AdvanceToRoundResults(vt)
    BY <1>1, <1>2, <2>1, <2>2, AdvanceToRoundResultsStores
  <2>3. CASE votes' = vt /\ UNCHANGED <<phase, handVars, turn, current, ballot>>
    <3>. HIDE DEF vt
    <3>. QED  BY <1>1, <1>2, <2>1, <2>3, SameRoundStores DEF handVars
  <2>. QED  BY <1>6, <2>2, <2>3 DEF SubmitVote
<1>. QED  BY <1>4, <1>5, <1>6

(* The end of a phase, by its last act or by the timeout. *)
LEMMA ResolveStores ==
  ASSUME EngineInv, DealInv, ContentInv, StoreInv, ResolvePhase
  PROVE  StoreInv'
<1>1. GameGoesOn
  BY ResolveGoesOn
<1>2. MembersStay
  BY DEF ResolvePhase, MembersStay
<1>3. CASE ResolvePreparation
  BY <1>1, <1>2, <1>3, StoredTypes, AdvanceToRoundSelectionStores DEF ResolvePreparation
<1>4. CASE ResolveSelection
  BY <1>1, <1>2, <1>4, AdvanceToRoundVotingStores DEF ResolveSelection
<1>5. CASE ResolveVoting
  BY <1>1, <1>2, <1>5, StoredTypes, AdvanceToRoundResultsStores DEF ResolveVoting
<1>. QED  BY <1>3, <1>4, <1>5 DEF ResolvePhase

(* Whoever leaves stays a player of the game, and a member. *)
LEMMA LeaveStores ==
  ASSUME EngineInv, DealInv, ContentInv, StoreInv, NEW p \in Player, ApplyLeave(p)
  PROVE  StoreInv'
<1>1. MembersStay
  BY DEF ApplyLeave, MembersStay, EngineInv, TypeOK
<1>2. /\ Dropped(p) \in [Player -> Statuses] /\ turn \in [Player -> Turns]
      /\ VotesCount(votes, ballot) /\ GameGoesOn
  BY StoredTypes, DroppedType, LeaveGoesOn DEF EngineInv
<1>3. CASE LeavePreparation(p)
  <2> DEFINE prep == [prepared EXCEPT ![p] = NoMeme]
  <2>1. CASE AdvanceToRoundSelection(Dropped(p), prep)
    BY <1>1, <1>2, <2>1, AdvanceToRoundSelectionStores
  <2>2. CASE UNCHANGED <<phase, prepHand, turn, current, roundHand, roundVars>>
    BY <1>1, <1>2, <2>2, SameRoundStores DEF roundVars
  <2>. QED  BY <1>3, <2>1, <2>2 DEF LeavePreparation
<1>4. CASE LeaveOwnRound(p)
  <2> DEFINE tn == [turn EXCEPT ![p] = "CANCELLED"]
  <2>1. /\ phase = "ROUND_SELECTION" /\ p = current /\ NextRoundOrFinish(Dropped(p), tn)
        /\ turn[p] # "NONE"
    BY <1>4 DEF LeaveOwnRound, EngineInv, RoundIsOpen
  <2>2. tn \in [Player -> Turns] /\ \A q \in Player : tn[q] = "NONE" <=> turn[q] = "NONE"
    BY <1>2, <2>1 DEF Turns
  <2>. HIDE DEF tn
  <2>. QED  BY <1>1, <1>2, <2>1, <2>2, NextRoundOrFinishStores
<1>5. CASE LeaveSelection(p)
  <2> DEFINE sub == [submitted EXCEPT ![p] = NoMeme]
  <2>1. CASE AdvanceToRoundVoting(sub)
    BY <1>1, <1>2, <1>5, <2>1, AdvanceToRoundVotingStores DEF LeaveSelection
  <2>2. CASE UNCHANGED <<phase, handVars, turn, current, ballot, votes>>
    BY <1>1, <1>2, <2>2, SameRoundStores DEF handVars
  <2>. QED  BY <1>5, <2>1, <2>2 DEF LeaveSelection
<1>6. CASE LeaveVoting(p)
  <2>1. CASE AdvanceToRoundResults(votes)
    BY <1>1, <1>2, <1>6, <2>1, AdvanceToRoundResultsStores DEF LeaveVoting
  <2>2. CASE UNCHANGED <<phase, handVars, turn, current, roundVars>>
    BY <1>1, <1>2, <2>2, SameRoundStores DEF handVars, roundVars
  <2>. QED  BY <1>6, <2>1, <2>2 DEF LeaveVoting
<1>7. CASE LeaveBetweenRounds(p)
  BY <1>1, <1>2, <1>7, SameRoundStores DEF LeaveBetweenRounds, handVars, roundVars
<1>. QED  BY <1>3, <1>4, <1>5, <1>6, <1>7 DEF ApplyLeave

(* The commands of the host, and a reset. *)
LEMMA PrivilegedStores ==
  ASSUME EngineInv, DealInv, ContentInv, StoreInv, NEW a \in Actors, PrivilegedStep(a)
  PROVE  StoreInv'
<1>1. /\ TypeOK /\ ResetSkipped(status) \in [Player -> Statuses] /\ turn \in [Player -> Turns]
      /\ SamePlayers(ResetSkipped(status))
  BY StoredTypes DEF TypeOK, ResetSkipped, Statuses, SamePlayers
<1>2. CASE StartGame(a)
  <2> DEFINE st == [p \in Player |-> IF p \in Present THEN "ACTIVE" ELSE "NONE"]
  <2>1. st \in [Player -> Statuses] /\ BeginCycle(st, 1) /\ UNCHANGED member
    BY <1>2 DEF StartGame, Statuses
  <2>2. PlayersAreMembers'
    BY <2>1 DEF BeginCycle, PlayersAreMembers, Present
  <2>. HIDE DEF st
  <2>. QED  BY <1>1, <2>1, <2>2, BeginCycleStores
<1>3. CASE NextRound(a)
  <2>1. GameGoesOn
    BY <1>1, <1>3, NextRoundOrFinishGoesOn DEF NextRound
  <2>2. MembersStay /\ phase \notin {"NONE", "PREPARATION"}
    BY <1>3 DEF NextRound, MembersStay
  <2>. QED  BY <1>1, <1>3, <2>1, <2>2, NextRoundOrFinishStores DEF NextRound
<1>4. CASE StartNextCycle(a)
  <2>1. BeginCycle(ResetSkipped(status), cycle + 1) /\ UNCHANGED member
    BY <1>4 DEF StartNextCycle
  <2>2. PlayersAreMembers'
    BY <2>1 DEF BeginCycle, StoreInv, PlayersAreMembers, ResetSkipped
  <2>. QED  BY <1>1, <2>1, <2>2, BeginCycleStores
<1>5. CASE ForceResolvePhase(a)
  BY <1>5, ResolveStores DEF ForceResolvePhase
<1>6. ASSUME NEW p \in Player, KickPlayer(a, p)  PROVE StoreInv'
  BY <1>6, LeaveStores DEF KickPlayer
<1>7. CASE StartNewGame(a)
  BY <1>7
  DEF StartNewGame, StoreInv, PlayersAreMembers, HeldByPlayers, RoundIsCurrent,
      VotesAreForOptions, NoHands, NoTurns, NoVotes
<1>. QED  BY <1>2, <1>3, <1>4, <1>5, <1>6, <1>7 DEF PrivilegedStep

(* Every step keeps what can be stored of the aggregate. *)
LEMMA StoreStep ==
  EngineInv /\ DealInv /\ ContentInv /\ StoreInv /\ [Next]_vars => StoreInv'
<1>. SUFFICES ASSUME EngineInv, DealInv, ContentInv, StoreInv, [Next]_vars  PROVE StoreInv'
  OBVIOUS
<1>1. CASE UNCHANGED <<phase, status, turn, current, handVars, roundVars>> /\ MembersStay
  <2>1. GameGoesOn
    BY <1>1
    DEF GameGoesOn, SamePlayers, PreparedByPlayers, handVars, ContentInv, OriginalsOfParticipants
  <2>. QED  BY <1>1, <2>1, StoredTypes, SameRoundStores DEF handVars, roundVars
<1>2. ASSUME NEW p \in Player, PlayerStep(p)  PROVE StoreInv'
  <2>1. CASE JoinRoom(p)
    <3>1. MembersStay
      BY <2>1 DEF JoinRoom, MembersStay, EngineInv, TypeOK
    <3>. QED  BY <1>1, <2>1, <3>1 DEF JoinRoom
  <2>. QED  BY <1>2, <2>1, SubmitStores, LeaveStores DEF PlayerStep, LeaveRoom
<1>3. ASSUME NEW m \in Meme, SetMemeEnabled(m)  PROVE StoreInv'
  BY <1>1, <1>3 DEF SetMemeEnabled, MembersStay
<1>4. CASE UNCHANGED vars
  BY <1>1, <1>4 DEF vars, handVars, roundVars, MembersStay
<1>. QED
  BY <1>2, <1>3, <1>4, PrivilegedStores, ResolveStores DEF Next, TimeoutPhase

(* A new room has nothing of a game to store. *)
LEMMA StoreInit == Init => StoreInv
BY DEF Init, StoreInv, PlayersAreMembers, HeldByPlayers, RoundIsCurrent, VotesAreForOptions,
       NoHands, NoTurns, NoVotes

(* A vote that is stored names an option that is stored, and every row of a  *)
(* round, a hand or a game belongs to somebody who has a row: the foreign    *)
(* keys of round_submissions, votes and game_players hold by this invariant. *)
THEOREM StoreInvariant == Spec => []StoreInv
<1>1. Spec => []ContentInv
  BY EngineInvariant, ContentInit, ContentStep, PTL DEF Spec
<1>. QED  BY <1>1, EngineInvariant, DealInvariant, StoreInit, StoreStep, PTL DEF Spec

-----------------------------------------------------------------------------
(* What is stored satisfies the constraints.                                 *)

(* Rows that their ids tell apart are unique. *)
LEMMA UniqueRows ==
  ASSUME NEW rows, NEW t \in Tables, IsFiniteSet(Ids(rows)),
         \A r, s \in rows : r.id = s.id => r = s,
         t = "dealt_hands" => \A r, s \in rows : HandKey(r) = HandKey(s) => r = s
  PROVE  Unique(rows, t)
<1> DEFINE byId == [r \in rows |-> r.id]
           keys == {HandKey(r) : r \in rows}
           byKey == [r \in rows |-> HandKey(r)]
<1>1. byId \in Injection(rows, Ids(rows)) /\ byId \in Surjection(rows, Ids(rows))
  BY DEF Injection, IsInjective, Surjection, Ids
<1>2. IsFiniteSet(rows) /\ Cardinality(Ids(rows)) = Cardinality(rows)
  BY <1>1, FS_Injection
<1>3. byKey \in Surjection(rows, keys)
  BY DEF Surjection
<1>4. t = "dealt_hands" => byKey \in Injection(rows, keys)
  BY DEF Injection, IsInjective
<1>. HIDE DEF byKey, keys
<1>5. t = "dealt_hands" => Cardinality(keys) = Cardinality(rows)
  BY <1>2, <1>3, <1>4, FS_Surjection
<1>. QED  BY <1>2, <1>5 DEF Unique, keys

(* A column refers when each row names the id of another, or none for a hand. *)
LEMMA RefersToRows ==
  ASSUME NEW rows, NEW column, NEW targets,
         \A r \in rows : r[column] \in Ids(targets) \/ (column = "round" /\ r[column] = Null)
  PROVE  Refers(rows, column, targets)
BY DEF Refers

(* The ids are few. *)
LEMMA RowIdsAreFinite ==
  /\ IsFiniteSet(Player) /\ IsFiniteSet(Player \X Player)
  /\ IsFiniteSet((Player \cup {Null}) \X Player \X Meme) /\ IsFiniteSet({1}) /\ IsFiniteSet({cycle})
<1>1. IsFiniteSet(Player) /\ IsFiniteSet(Player \X Player) /\ IsFiniteSet(Player \cup {Null})
  BY PlayersAreNumbers, FS_Product, FS_AddElement
<1> DEFINE A == (Player \cup {Null}) \X (Player \X Meme)
           B == (Player \cup {Null}) \X Player \X Meme
           f == [x \in A |-> <<x[1], x[2][1], x[2][2]>>]
<1>2. IsFiniteSet(Player \X Meme)
  BY <1>1, FS_Product, ContentAssumption
<1>3. IsFiniteSet(A)
  BY <1>1, <1>2, FS_Product
<1>4. f \in Surjection(A, B)
  <2>1. f \in [A -> B]
    OBVIOUS
  <2>2. ASSUME NEW y \in B  PROVE \E x \in A : f[x] = y
    <3>1. PICK r \in Player \cup {Null}, p \in Player, m \in Meme : y = <<r, p, m>>
      OBVIOUS
    <3>2. <<r, <<p, m>>>> \in A /\ f[<<r, <<p, m>>>>] = y
      BY <3>1
    <3>. QED  BY <3>2
  <2>. QED  BY <2>1, <2>2 DEF Surjection
<1>. HIDE DEF A, B, f
<1>5. IsFiniteSet(B)
  BY <1>3, <1>4, FS_Surjection
<1>. QED  BY <1>1, <1>5, FS_Singleton DEF B

(* Everything there is in a game belongs to its players. *)
LEMMA RowsHaveHolders ==
  ASSUME EngineInv, DealInv, ContentInv, StoreInv
  PROVE  /\ Holders \subseteq Player /\ Rounds \subseteq Holders
         /\ Holders # {} => InGame
         /\ \A p \in Player : prepHand[p] # {} \/ prepared[p] # NoMeme \/ roundHand[p] # {}
                                => p \in Holders
         /\ \A r \in Rounds : /\ Submitters(r) \subseteq Holders /\ Owners(r) \subseteq Holders
                              /\ Voters(r) \subseteq Holders
                              /\ \A p \in Voters(r) : VotedFor(r, p) \in Owners(r)
<1>1. Holders \subseteq Player /\ Rounds \subseteq Holders
  BY DEF Holders, Rounds, StoreInv, HeldByPlayers
<1>2. Holders # {} => InGame
  BY DEF Holders, InGame, EngineInv, RoomMatchesPhase
<1>3. \A p \in Player : prepHand[p] # {} \/ prepared[p] # NoMeme \/ roundHand[p] # {}
                          => p \in Holders
  BY DEF Holders, StoreInv, HeldByPlayers, ContentInv, OriginalsOfParticipants
<1>4. ASSUME NEW r \in Rounds
      PROVE  /\ Submitters(r) \subseteq Holders /\ Owners(r) \subseteq Holders
             /\ Voters(r) \subseteq Holders
             /\ \A p \in Voters(r) : VotedFor(r, p) \in Owners(r)
  <2>1. CASE r = current
    <3>1. \A p \in Player : submitted[p] # NoMeme \/ ballot[p] # NoMeme => p \in Holders
      BY <1>3 DEF DealInv, BallotFromHands
    <3>2. \A p \in Player : votes[p] # NoPlayer =>
            p \in Holders /\ votes[p] \in Player /\ ballot[votes[p]] # NoMeme
      BY DEF StoreInv, HeldByPlayers, VotesAreForOptions, Holders, EngineInv, TypeOK
    <3>. QED  BY <2>1, <3>1, <3>2 DEF Submitters, Owners, Voters, VotedFor
  <2>2. CASE r # current
    BY <1>1, <2>2 DEF Submitters, Owners, Voters, VotedFor
  <2>. QED  BY <2>1, <2>2
<1>. QED  BY <1>1, <1>2, <1>3, <1>4

(* The rows one by one, with what their columns hold. *)
HandRow(r, round) ==
  /\ r.id = <<round, r.holder, r.data>> /\ r.cycle = cycle /\ r.round = round
  /\ r = [id |-> <<round, r.holder, r.data>>, cycle |-> cycle, holder |-> r.holder,
          data |-> r.data, round |-> round]
  /\ r.holder \in Holders /\ r.data \in Meme

(* A stored hand belongs to the preparation or to a round. *)
LEMMA StoredHands ==
  ASSUME EngineInv, DealInv, ContentInv, StoreInv, NEW h \in Stored.dealt_hands
  PROVE  \E round \in Rounds \cup {Null} : HandRow(h, round)
<1>1. /\ \A p \in Player : prepHand[p] \subseteq Meme /\ roundHand[p] \subseteq Meme
      /\ \A p \in Player : prepHand[p] # {} \/ roundHand[p] # {} => p \in Holders
  BY AggregateTypes, RowsHaveHolders DEF EngineInv
<1>2. CASE h \in HandRows(prepHand, Player, Null)
  <2>1. PICK p \in Player : \E m \in prepHand[p] :
          h = [id |-> <<Null, p, m>>, cycle |-> cycle, holder |-> p, data |-> m, round |-> Null]
    BY <1>2 DEF HandRows
  <2>2. p \in Holders /\ \A m \in prepHand[p] \cup roundHand[p] : m \in Meme
    BY <1>1, <2>1
  <2>3. HandRow(h, Null)
    BY <2>1, <2>2 DEF HandRow
  <2>. QED  BY <2>3
<1>3. ASSUME NEW r \in Rounds, h \in HandRows(roundHand, Player \ {r}, r)
      PROVE  HandRow(h, r)
  <2>1. PICK p \in Player : \E m \in roundHand[p] :
          h = [id |-> <<r, p, m>>, cycle |-> cycle, holder |-> p, data |-> m, round |-> r]
    BY <1>3 DEF HandRows
  <2>2. p \in Holders /\ \A m \in prepHand[p] \cup roundHand[p] : m \in Meme
    BY <1>1, <2>1
  <2>. QED  BY <2>1, <2>2 DEF HandRow
<1>. QED  BY <1>2, <1>3 DEF Stored

ChildRow(c, r) ==
  /\ c.id = <<r, c.holder>> /\ c.round = r /\ c.holder \in Holders

(* The rows of a round are those of its players. *)
LEMMA StoredChildren ==
  ASSUME EngineInv, DealInv, ContentInv, StoreInv
  PROVE  /\ \A c \in Stored.round_submissions : \E r \in Rounds :
              ChildRow(c, r) /\ c = RoundChild(r, c.holder, submitted[c.holder])
         /\ \A c \in Stored.vote_options : \E r \in Rounds :
              ChildRow(c, r) /\ c = RoundChild(r, c.holder, ballot[c.holder])
         /\ \A c \in Stored.round_scores : \E r \in Rounds :
              ChildRow(c, r) /\ c = RoundChild(r, c.holder, 0)
<1>1. ASSUME NEW c \in Stored.round_submissions
      PROVE  \E r \in Rounds : ChildRow(c, r) /\ c = RoundChild(r, c.holder, submitted[c.holder])
  <2>1. PICK r \in Rounds : \E p \in Submitters(r) : c = RoundChild(r, p, submitted[p])
    BY DEF Stored, SubmissionRows
  <2>. QED  BY <2>1, RowsHaveHolders DEF RoundChild, ChildRow
<1>2. ASSUME NEW c \in Stored.vote_options
      PROVE  \E r \in Rounds : ChildRow(c, r) /\ c = RoundChild(r, c.holder, ballot[c.holder])
  <2>1. PICK r \in Rounds : \E p \in Owners(r) : c = RoundChild(r, p, ballot[p])
    BY DEF Stored, OptionRows
  <2>. QED  BY <2>1, RowsHaveHolders DEF RoundChild, ChildRow
<1>3. ASSUME NEW c \in Stored.round_scores
      PROVE  \E r \in Rounds : ChildRow(c, r) /\ c = RoundChild(r, c.holder, 0)
  <2>1. PICK r \in Rounds : \E p \in Voters(r) \cup {r} : c = RoundChild(r, p, 0)
    BY DEF Stored, ScoreRows
  <2>2. \A p \in Voters(r) \cup {r} : p \in Holders
    BY RowsHaveHolders
  <2>. QED  BY <2>1, <2>2 DEF RoundChild, ChildRow
<1>. QED  BY <1>1, <1>2, <1>3

VoteRow(v, r) ==
  v = [id |-> <<r, v.holder>>, round |-> r, holder |-> v.holder, option |-> <<r, VotedFor(r, v.holder)>>]

(* A stored vote is of a voter, and for an option that is stored too. *)
LEMMA StoredVotes ==
  ASSUME EngineInv, DealInv, ContentInv, StoreInv, NEW v \in Stored.votes
  PROVE  \E r \in Rounds : /\ VoteRow(v, r) /\ ChildRow(v, r)
                           /\ v.holder \in Voters(r) /\ v.option = <<r, VotedFor(r, v.holder)>>
                           /\ VotedFor(r, v.holder) \in Owners(r)
<1>1. PICK r \in Rounds : \E p \in Voters(r) :
        v = [id |-> <<r, p>>, round |-> r, holder |-> p, option |-> <<r, VotedFor(r, p)>>]
  BY DEF Stored, VoteRows
<1>. QED  BY <1>1, RowsHaveHolders DEF VoteRow, ChildRow

(* The rows of a table are known by their ids. *)
LEMMA StoredUnique ==
  ASSUME EngineInv, DealInv, ContentInv, StoreInv, NEW t \in Tables
  PROVE  Unique(Stored[t], t)
<1> DEFINE IdsIn(rows, set) == Ids(rows) \subseteq set /\ \A r, s \in rows : r.id = s.id => r = s
<1>1. ASSUME NEW rows, NEW set, IsFiniteSet(set), IdsIn(rows, set), t # "dealt_hands"
      PROVE  Unique(rows, t)
  <2>1. IsFiniteSet(Ids(rows))
    BY <1>1, FS_Subset
  <2>. QED  BY <1>1, <2>1, UniqueRows
<1>2. CASE t \in {"players", "player_sessions", "game_players", "prepared_turns", "rounds"}
  <2>1. /\ IdsIn(Stored.players, Player) /\ IdsIn(Stored.player_sessions, Player)
        /\ IdsIn(Stored.game_players, Player)
        /\ IdsIn(Stored.prepared_turns, Player) /\ IdsIn(Stored.rounds, Player)
    <3>1. IdsIn(PlayerRows, Player)
      BY DEF Ids, PlayerRows
    <3>2. IdsIn(SessionRows, Player)
      BY DEF Ids, SessionRows
    <3>3. IdsIn(GamePlayerRows, Player)
      BY DEF Ids, GamePlayerRows, Holders
    <3>4. IdsIn(PreparedTurnRows, Player)
      BY DEF Ids, PreparedTurnRows
    <3>5. IdsIn(RoundRows, Player)
      BY DEF Ids, RoundRows, Rounds
    <3>. QED  BY <3>1, <3>2, <3>3, <3>4, <3>5 DEF Stored
  <2>. HIDE DEF IdsIn
  <2>. QED  BY <1>1, <1>2, <2>1, RowIdsAreFinite
<1>3. CASE t \in {"games", "game_cycles"}
  <2>1. IdsIn(Stored.games, {1}) /\ IdsIn(Stored.game_cycles, {cycle})
    BY DEF Stored, Ids, GameRows, CycleRows
  <2>. HIDE DEF IdsIn
  <2>. QED  BY <1>1, <1>3, <2>1, RowIdsAreFinite
<1>4. CASE t = "dealt_hands"
  <2>1. ASSUME NEW h \in Stored.dealt_hands
        PROVE  /\ h.id \in (Player \cup {Null}) \X Player \X Meme
               /\ h.id = <<h.round, h.holder, h.data>>
               /\ h = [id |-> <<h.round, h.holder, h.data>>, cycle |-> cycle, holder |-> h.holder,
                       data |-> h.data, round |-> h.round]
    <3>1. PICK round \in Rounds \cup {Null} : HandRow(h, round)
      BY StoredHands
    <3>2. h.holder \in Player /\ round \in Player \cup {Null}
      BY <3>1 DEF HandRow, Holders, Rounds
    <3>. QED  BY <3>1, <3>2 DEF HandRow
  <2>2. IsFiniteSet(Ids(Stored.dealt_hands))
    <3>1. Ids(Stored.dealt_hands) \subseteq (Player \cup {Null}) \X Player \X Meme
      BY <2>1 DEF Ids
    <3>. QED  BY <3>1, RowIdsAreFinite, FS_Subset
  <2>3. \A r, s \in Stored.dealt_hands : r.id = s.id => r = s
    BY <2>1
  <2>4. \A r, s \in Stored.dealt_hands : HandKey(r) = HandKey(s) => r = s
    BY <2>1 DEF HandKey
  <2>. QED  BY <1>4, <2>2, <2>3, <2>4, UniqueRows
<1>5. CASE t \in {"round_submissions", "vote_options", "votes", "round_scores"}
  <2>1. \A c, r : ChildRow(c, r) /\ r \in Rounds => c.id \in Player \X Player
    BY DEF ChildRow, Rounds, Holders
  <2>2. IdsIn(Stored.round_submissions, Player \X Player)
    <3>1. Ids(Stored.round_submissions) \subseteq Player \X Player
      BY <2>1, StoredChildren DEF Ids
    <3>2. \A c \in Stored.round_submissions :
            c = RoundChild(c.id[1], c.id[2], submitted[c.id[2]])
      BY StoredChildren DEF ChildRow
    <3>. QED  BY <3>1, <3>2
  <2>3. IdsIn(Stored.vote_options, Player \X Player)
    <3>1. Ids(Stored.vote_options) \subseteq Player \X Player
      BY <2>1, StoredChildren DEF Ids
    <3>2. \A c \in Stored.vote_options : c = RoundChild(c.id[1], c.id[2], ballot[c.id[2]])
      BY StoredChildren DEF ChildRow
    <3>. QED  BY <3>1, <3>2
  <2>4. IdsIn(Stored.round_scores, Player \X Player)
    <3>1. Ids(Stored.round_scores) \subseteq Player \X Player
      BY <2>1, StoredChildren DEF Ids
    <3>2. \A c \in Stored.round_scores : c = RoundChild(c.id[1], c.id[2], 0)
      BY StoredChildren DEF ChildRow
    <3>. QED  BY <3>1, <3>2
  <2>5. IdsIn(Stored.votes, Player \X Player)
    <3>1. Ids(Stored.votes) \subseteq Player \X Player
      BY <2>1, StoredVotes DEF Ids
    <3>2. \A v \in Stored.votes : VoteRow(v, v.id[1]) /\ v.holder = v.id[2]
      BY StoredVotes DEF ChildRow
    <3>. QED  BY <3>1, <3>2 DEF VoteRow
  <2>. HIDE DEF IdsIn
  <2>. QED  BY <1>1, <1>5, <2>2, <2>3, <2>4, <2>5, RowIdsAreFinite
<1>. QED  BY <1>2, <1>3, <1>4, <1>5, TableNames

(* The ids that foreign keys find. *)
LEMMA StoredIds ==
  ASSUME EngineInv, DealInv, ContentInv, StoreInv
  PROVE  /\ \A p \in Player : p \in Ids(Stored.players) <=> HasRow(p)
         /\ Holders \subseteq Ids(Stored.players) /\ Holders = Ids(Stored.game_players)
         /\ Holders # {} => 1 \in Ids(Stored.games) /\ cycle \in Ids(Stored.game_cycles)
         /\ InGame => 1 \in Ids(Stored.games)
         /\ Rounds = Ids(Stored.rounds)
         /\ \A r \in Rounds : \A p \in Owners(r) : <<r, p>> \in Ids(Stored.vote_options)
<1>1. \A p \in Player : p \in Ids(Stored.players) <=> HasRow(p)
  <2>1. Stored.players = PlayerRows
    BY DEF Stored
  <2>2. ASSUME NEW p \in Player, HasRow(p)  PROVE p \in Ids(PlayerRows)
    <3>1. [id |-> p, data |-> <<member[p], role[p]>>] \in PlayerRows
      BY <2>2 DEF PlayerRows
    <3>. QED  BY <3>1 DEF Ids
  <2>3. \A p \in Ids(PlayerRows) : HasRow(p)
    BY DEF Ids, PlayerRows
  <2>. QED  BY <2>1, <2>2, <2>3
<1>2. \A p \in Holders : p \in Player /\ HasRow(p)
  BY DEF Holders, HasRow, StoreInv, PlayersAreMembers, EngineInv, TypeOK
<1>3. Holders = Ids(Stored.game_players)
  <2>1. Stored.game_players = GamePlayerRows
    BY DEF Stored
  <2>2. ASSUME NEW p \in Holders  PROVE p \in Ids(GamePlayerRows)
    <3>1. [id |-> p, game |-> 1, player |-> p, data |-> <<score[p], status[p]>>] \in GamePlayerRows
      BY DEF GamePlayerRows
    <3>. QED  BY <3>1 DEF Ids
  <2>3. \A p \in Ids(GamePlayerRows) : p \in Holders
    BY DEF Ids, GamePlayerRows
  <2>. QED  BY <2>1, <2>2, <2>3
<1>4. InGame => 1 \in Ids(Stored.games) /\ cycle \in Ids(Stored.game_cycles)
  BY DEF Stored, GameRows, CycleRows, Ids
<1>5. Rounds = Ids(Stored.rounds)
  <2>1. Stored.rounds = RoundRows
    BY DEF Stored
  <2>2. ASSUME NEW p \in Rounds  PROVE p \in Ids(RoundRows)
    <3>1. [id |-> p, game |-> 1, cycle |-> cycle, holder |-> p, data |-> turn[p]] \in RoundRows
      BY DEF RoundRows
    <3>. QED  BY <3>1 DEF Ids
  <2>3. \A p \in Ids(RoundRows) : p \in Rounds
    BY DEF Ids, RoundRows
  <2>. QED  BY <2>1, <2>2, <2>3
<1>6. ASSUME NEW r \in Rounds, NEW p \in Owners(r)
      PROVE  <<r, p>> \in Ids(Stored.vote_options)
  <2>1. RoundChild(r, p, ballot[p]) \in Stored.vote_options
    BY DEF Stored, OptionRows
  <2>2. RoundChild(r, p, ballot[p]).id = <<r, p>>
    BY DEF RoundChild
  <2>. QED  BY <2>1, <2>2 DEF Ids
<1>. QED  BY <1>1, <1>2, <1>3, <1>4, <1>5, <1>6, RowsHaveHolders

(* Every foreign key of the stored rows holds. *)
LEMMA StoredRefers ==
  ASSUME EngineInv, DealInv, ContentInv, StoreInv,
         NEW c \in Tables, NEW column \in DOMAIN References[c]
  PROVE  Refers(Stored[c], column, Stored[References[c][column]])
<1> DEFINE target == Stored[References[c][column]]
<1>1. SUFFICES ASSUME NEW r \in Stored[c]
               PROVE  r[column] \in Ids(target) \/ (column = "round" /\ r[column] = Null)
  BY RefersToRows DEF target
<1>. HIDE DEF target
<1>2. CASE c = "player_sessions"
  <2>1. column = "player" /\ target = Stored.players
    BY <1>2, ForeignKeys DEF target
  <2>2. \E p \in Player : HasRow(p) /\ r.player = p
    BY <1>2 DEF Stored, SessionRows
  <2>. QED  BY <2>1, <2>2, StoredIds
<1>3. CASE c = "game_players"
  <2>1. r.game = 1 /\ r.player \in Holders
    BY <1>3 DEF Stored, GamePlayerRows
  <2>2. \/ column = "game" /\ target = Stored.games
        \/ column = "player" /\ target = Stored.players
    BY <1>3, ForeignKeys DEF target
  <2>. QED  BY <2>1, <2>2, StoredIds
<1>4. CASE c = "game_cycles"
  <2>1. r.game = 1 /\ InGame
    BY <1>4 DEF Stored, CycleRows
  <2>2. column = "game" /\ target = Stored.games
    BY <1>4, ForeignKeys DEF target
  <2>. QED  BY <2>1, <2>2, StoredIds
<1>5. CASE c = "prepared_turns"
  <2>1. r.cycle = cycle /\ r.holder \in Holders
    BY <1>5, RowsHaveHolders DEF Stored, PreparedTurnRows
  <2>2. \/ column = "cycle" /\ target = Stored.game_cycles
        \/ column = "holder" /\ target = Stored.game_players
    BY <1>5, ForeignKeys DEF target
  <2>. QED  BY <2>1, <2>2, StoredIds
<1>6. CASE c = "rounds"
  <2>1. r.game = 1 /\ r.cycle = cycle /\ r.holder \in Holders
    BY <1>6, RowsHaveHolders DEF Stored, RoundRows
  <2>2. \/ column = "game" /\ target = Stored.games
        \/ column = "cycle" /\ target = Stored.game_cycles
        \/ column = "holder" /\ target = Stored.game_players
    BY <1>6, ForeignKeys DEF target
  <2>. QED  BY <2>1, <2>2, StoredIds
<1>7. CASE c = "dealt_hands"
  <2>1. PICK round \in Rounds \cup {Null} : HandRow(r, round)
    BY <1>7, StoredHands
  <2>2. r.cycle = cycle /\ r.holder \in Holders /\ r.round \in Rounds \cup {Null}
    BY <2>1 DEF HandRow
  <2>3. \/ column = "cycle" /\ target = Stored.game_cycles
        \/ column = "holder" /\ target = Stored.game_players
        \/ column = "round" /\ target = Stored.rounds
    BY <1>7, ForeignKeys DEF target
  <2>. QED  BY <2>2, <2>3, StoredIds
<1>8. CASE c \in {"round_submissions", "vote_options", "round_scores"}
  <2>1. r.round \in Rounds /\ r.holder \in Holders
    BY <1>8, StoredChildren DEF ChildRow
  <2>2. \/ column = "round" /\ target = Stored.rounds
        \/ column = "holder" /\ target = Stored.game_players
    BY <1>8, ForeignKeys DEF target
  <2>. QED  BY <2>1, <2>2, StoredIds
<1>9. CASE c = "votes"
  <2>1. PICK round \in Rounds :
          /\ ChildRow(r, round) /\ r.option = <<round, VotedFor(round, r.holder)>>
          /\ VotedFor(round, r.holder) \in Owners(round)
    BY <1>9, StoredVotes
  <2>2. r.round \in Rounds /\ r.holder \in Holders /\ r.option \in Ids(Stored.vote_options)
    BY <2>1, StoredIds DEF ChildRow
  <2>3. \/ column = "round" /\ target = Stored.rounds
        \/ column = "holder" /\ target = Stored.game_players
        \/ column = "option" /\ target = Stored.vote_options
    BY <1>9, ForeignKeys DEF target
  <2>. QED  BY <2>2, <2>3, StoredIds
<1>10. c \notin {"players", "games"}
  BY ForeignKeys
<1>. QED  BY <1>2, <1>3, <1>4, <1>5, <1>6, <1>7, <1>8, <1>9, <1>10, TableNames

(* All the tables are stored. *)
LEMMA StoredIsDb == IsDb(Stored)
BY DEF IsDb, Stored, Tables, References

(* The rows of an aggregate satisfy every constraint of the schema. *)
LEMMA StoredWellFormed ==
  ASSUME EngineInv, DealInv, ContentInv, StoreInv
  PROVE  WellFormed(Stored)
BY StoredIsDb, StoredUnique, StoredRefers DEF WellFormed

-----------------------------------------------------------------------------
(* The next command loads what the last one left.                            *)

(* The hands that are read are the ones that were dealt. *)
LEMMA StoredHandsAre ==
  ASSUME EngineInv, DealInv, ContentInv, StoreInv, NEW p \in Player
  PROVE  /\ HandOf({r \in Stored.dealt_hands : r.round = Null}, p) = prepHand[p]
         /\ current \in Rounds =>
              HandOf({r \in Stored.dealt_hands : r.round = current}, p) = roundHand[p]
<1> DEFINE row(round, m) ==
             [id |-> <<round, p, m>>, cycle |-> cycle, holder |-> p, data |-> m, round |-> round]
<1>1. Stored.dealt_hands = HandRows(prepHand, Player, Null)
                             \cup UNION {HandRows(roundHand, Player \ {r}, r) : r \in Rounds}
  BY DEF Stored
<1>2. Null \notin Rounds
  BY PlayersAreNumbers DEF Null, Rounds, NoPlayer
<1>3. ASSUME NEW hand, NEW holders, NEW round, NEW h \in HandRows(hand, holders, round)
      PROVE  h.round = round /\ h.holder \in holders /\ h.data \in hand[h.holder]
  BY <1>3 DEF HandRows
<1>4. ASSUME NEW hand, NEW holders, NEW round, p \in holders, NEW m \in hand[p]
      PROVE  /\ row(round, m) \in HandRows(hand, holders, round)
             /\ row(round, m).round = round /\ row(round, m).holder = p /\ row(round, m).data = m
  BY <1>4 DEF HandRows
<1>. HIDE DEF row
<1>5. HandOf({r \in Stored.dealt_hands : r.round = Null}, p) = prepHand[p]
  <2>1. ASSUME NEW m \in prepHand[p]
        PROVE  m \in HandOf({r \in Stored.dealt_hands : r.round = Null}, p)
    <3>1. /\ row(Null, m) \in Stored.dealt_hands
          /\ row(Null, m).round = Null /\ row(Null, m).holder = p /\ row(Null, m).data = m
      BY <1>1, <1>4
    <3>. QED  BY <3>1 DEF HandOf
  <2>2. ASSUME NEW h \in Stored.dealt_hands, h.round = Null, h.holder = p
        PROVE  h.data \in prepHand[p]
    <3>1. \A r \in Rounds : h \notin HandRows(roundHand, Player \ {r}, r)
      BY <1>2, <1>3, <2>2
    <3>2. h \in HandRows(prepHand, Player, Null)
      BY <1>1, <3>1
    <3>. QED  BY <1>3, <2>2, <3>2
  <2>. QED  BY <2>1, <2>2 DEF HandOf
<1>6. ASSUME current \in Rounds
      PROVE  HandOf({r \in Stored.dealt_hands : r.round = current}, p) = roundHand[p]
  <2>1. ASSUME NEW m \in roundHand[p]
        PROVE  m \in HandOf({r \in Stored.dealt_hands : r.round = current}, p)
    <3>1. p \in Player \ {current}
      BY DEF DealInv, HandsAreSecret
    <3>2. /\ row(current, m) \in HandRows(roundHand, Player \ {current}, current)
          /\ row(current, m).round = current /\ row(current, m).holder = p
          /\ row(current, m).data = m
      BY <1>4, <3>1
    <3>3. row(current, m) \in Stored.dealt_hands
      BY <1>1, <1>6, <3>2
    <3>. QED  BY <3>2, <3>3 DEF HandOf
  <2>2. ASSUME NEW h \in Stored.dealt_hands, h.round = current, h.holder = p
        PROVE  h.data \in roundHand[p]
    <3>1. h \notin HandRows(prepHand, Player, Null)
      BY <1>2, <1>3, <1>6, <2>2
    <3>2. PICK r \in Rounds : h \in HandRows(roundHand, Player \ {r}, r)
      BY <1>1, <3>1
    <3>. QED  BY <1>3, <2>2, <3>2
  <2>. QED  BY <2>1, <2>2 DEF HandOf
<1>. QED  BY <1>5, <1>6

(* In a table with one row for each player and at most one for each round.   *)
LEMMA StoredMemesAre ==
  ASSUME EngineInv, NEW p \in Player
  PROVE  /\ HandOf(Stored.prepared_turns, p) = {prepared[p]} \ {NoMeme}
         /\ current \in Rounds =>
              /\ HandOf({r \in Stored.round_submissions : r.round = current}, p)
                   = {submitted[p]} \ {NoMeme}
              /\ HandOf({r \in Stored.vote_options : r.round = current}, p) = {ballot[p]} \ {NoMeme}
<1>1. HandOf(Stored.prepared_turns, p) = {prepared[p]} \ {NoMeme}
  <2> DEFINE row == [id |-> p, cycle |-> cycle, holder |-> p, data |-> prepared[p]]
  <2>1. Stored.prepared_turns = PreparedTurnRows
    BY DEF Stored
  <2>2. prepared[p] # NoMeme => row \in PreparedTurnRows
    BY DEF PreparedTurnRows
  <2>3. row.holder = p /\ row.data = prepared[p]
    OBVIOUS
  <2>4. \A r \in PreparedTurnRows : r.holder = p => r.data = prepared[p] /\ prepared[p] # NoMeme
    BY DEF PreparedTurnRows
  <2>. HIDE DEF row
  <2>. QED  BY <2>1, <2>2, <2>3, <2>4 DEF HandOf
<1>2. ASSUME current \in Rounds
      PROVE  HandOf({r \in Stored.round_submissions : r.round = current}, p) = {submitted[p]} \ {NoMeme}
  <2> DEFINE row == RoundChild(current, p, submitted[p])
  <2>1. row.round = current /\ row.holder = p /\ row.data = submitted[p]
    BY DEF RoundChild
  <2>2. submitted[p] # NoMeme => row \in Stored.round_submissions
    BY <1>2 DEF Stored, SubmissionRows, Submitters
  <2>3. ASSUME NEW s \in Stored.round_submissions, s.round = current, s.holder = p
        PROVE  s.data = submitted[p] /\ submitted[p] # NoMeme
    <3>1. PICK r \in Rounds : s \in SubmissionRows(r)
      BY DEF Stored
    <3>2. PICK q \in Submitters(r) : s = RoundChild(r, q, submitted[q])
      BY <3>1 DEF SubmissionRows
    <3>3. r = current /\ q = p /\ s.data = submitted[p]
      BY <2>3, <3>2 DEF RoundChild
    <3>. QED  BY <3>2, <3>3 DEF Submitters
  <2>. HIDE DEF row
  <2>. QED  BY <2>1, <2>2, <2>3 DEF HandOf
<1>3. ASSUME current \in Rounds
      PROVE  HandOf({r \in Stored.vote_options : r.round = current}, p) = {ballot[p]} \ {NoMeme}
  <2> DEFINE row == RoundChild(current, p, ballot[p])
  <2>1. row.round = current /\ row.holder = p /\ row.data = ballot[p]
    BY DEF RoundChild
  <2>2. ballot[p] # NoMeme => row \in Stored.vote_options
    BY <1>3 DEF Stored, OptionRows, Owners
  <2>3. ASSUME NEW s \in Stored.vote_options, s.round = current, s.holder = p
        PROVE  s.data = ballot[p] /\ ballot[p] # NoMeme
    <3>1. PICK r \in Rounds : s \in OptionRows(r)
      BY DEF Stored
    <3>2. PICK q \in Owners(r) : s = RoundChild(r, q, ballot[q])
      BY <3>1 DEF OptionRows
    <3>3. r = current /\ q = p /\ s.data = ballot[p]
      BY <2>3, <3>2 DEF RoundChild
    <3>. QED  BY <3>2, <3>3 DEF Owners
  <2>. HIDE DEF row
  <2>. QED  BY <2>1, <2>2, <2>3 DEF HandOf
<1>. QED  BY <1>1, <1>2, <1>3

(* So are the votes. *)
LEMMA StoredVotesAre ==
  ASSUME EngineInv, NEW p \in Player, current \in Rounds
  PROVE  {v.option[2] : v \in {q \in {r \in Stored.votes : r.round = current} : q.holder = p}}
           = {votes[p]} \ {NoPlayer}
<1> DEFINE row == [id |-> <<current, p>>, round |-> current, holder |-> p, option |-> <<current, votes[p]>>]
<1>1. row.round = current /\ row.holder = p /\ row.option[2] = votes[p]
  OBVIOUS
<1>2. votes[p] # NoPlayer => row \in Stored.votes
  <2>1. votes[p] # NoPlayer => row \in VoteRows(current)
    BY DEF VoteRows, Voters, VotedFor
  <2>. HIDE DEF row
  <2>. QED  BY <2>1 DEF Stored
<1>3. ASSUME NEW s \in Stored.votes, s.round = current, s.holder = p
      PROVE  s.option[2] = votes[p] /\ votes[p] # NoPlayer
  <2>1. PICK r \in Rounds : s \in VoteRows(r)
    BY DEF Stored
  <2>2. PICK q \in Voters(r) :
          s = [id |-> <<r, q>>, round |-> r, holder |-> q, option |-> <<r, VotedFor(r, q)>>]
    BY <2>1 DEF VoteRows
  <2>3. r = current /\ q = p /\ s.option[2] = VotedFor(r, q)
    BY <1>3, <2>2
  <2>. QED  BY <2>2, <2>3 DEF Voters, VotedFor
<1>. HIDE DEF row
<1>. QED  BY <1>1, <1>2, <1>3

(* What is read of a vote, or of none. *)
LEMMA MaxIsVote == \A v \in Nat : Max(({v} \ {NoPlayer}) \cup {NoPlayer}) = v
<1>. SUFFICES ASSUME NEW v \in Nat  PROVE Max(({v} \ {NoPlayer}) \cup {NoPlayer}) = v
  OBVIOUS
<1> DEFINE S == ({v} \ {NoPlayer}) \cup {NoPlayer}
<1>1. v \in S => \A y \in S : v >= y
  BY DEF NoPlayer
<1>2. \A x \in S : (\A y \in S : x >= y) => x = v
  BY DEF NoPlayer
<1>3. v \in S
  BY DEF NoPlayer
<1>. HIDE DEF S
<1>4. Max(S) = v
  BY <1>1, <1>2, <1>3 DEF Max
<1>. QED  BY <1>4 DEF S

(* The aggregate that is read is the aggregate that was stored. *)
LEMMA StoredLoads ==
  ASSUME EngineInv, DealInv, ContentInv, StoreInv
  PROVE  Load(Stored) = Aggregate
<1> DEFINE now == {g.round : g \in Stored.games} \ {Null}
           of(t) == {r \in Stored[t] : r.round \in now}
           column(rows) == [p \in Player |-> IF HandOf(rows, p) = {} THEN NoMeme
                                             ELSE CHOOSE m \in HandOf(rows, p) : TRUE]
           voted == [p \in Player |->
                       Max({v.option[2] : v \in {q \in of("votes") : q.holder = p}} \cup {NoPlayer})]
<1>1. /\ prepHand = [p \in Player |-> prepHand[p]] /\ roundHand = [p \in Player |-> roundHand[p]]
      /\ prepared = [p \in Player |-> prepared[p]] /\ submitted = [p \in Player |-> submitted[p]]
      /\ ballot = [p \in Player |-> ballot[p]] /\ votes = [p \in Player |-> votes[p]]
      /\ \A p \in Player : votes[p] \in Nat
  <2>1. \A p \in Player : votes[p] \in Player \cup {NoPlayer}
    BY DEF EngineInv, TypeOK
  <2>2. \A p \in Player : votes[p] \in Nat
    <3>1. \A p \in Player : p \in Nat
      BY PlayersAreNumbers
    <3>2. NoPlayer \in Nat
      BY DEF NoPlayer
    <3>. QED  BY <2>1, <3>1, <3>2
  <2>. QED  BY <2>2 DEF EngineInv, TypeOK
<1>2. now = {current} \ {NoPlayer} \/ (now = {} /\ current = NoPlayer)
  <2>1. Stored.games = GameRows
    BY DEF Stored
  <2>2. CASE InGame
    <3>1. \A g \in GameRows : g.round = current
      BY <2>2 DEF GameRows
    <3>2. GameRows # {}
      BY <2>2 DEF GameRows
    <3>. QED  BY <2>1, <3>1, <3>2 DEF Null, NoPlayer
  <2>3. CASE ~InGame
    <3>1. GameRows = {}
      BY <2>3 DEF GameRows
    <3>2. current = NoPlayer
      BY <2>3 DEF InGame, EngineInv, RoomMatchesPhase, StoreInv, RoundIsCurrent
    <3>. QED  BY <2>1, <3>1, <3>2
  <2>. QED  BY <2>2, <2>3
<1>3. CASE current = NoPlayer
  <2>1. /\ votes = NoVotes /\ roundHand = NoHands /\ submitted = NoMemes /\ ballot = NoMemes
    BY <1>3, PlayersAreNumbers DEF StoreInv, RoundIsCurrent, DealInv, TableIsClear
  <2>2. now = {}
    BY <1>2, <1>3
  <2>3. \A t : of(t) = {}
    BY <2>2
  <2>4. \A p : HandOf({}, p) = {}
    BY DEF HandOf
  <2>. HIDE DEF now, of
  <2>5. \A p \in Player : HandOf(of("dealt_hands"), p) = roundHand[p]
    BY <2>1, <2>3, <2>4 DEF NoHands
  <2>6. column(of("round_submissions")) = submitted /\ column(of("vote_options")) = ballot
    BY <2>1, <2>3, <2>4 DEF NoMemes
  <2>7. voted = votes
    <3>1. \A p \in Player : {v.option[2] : v \in {q \in of("votes") : q.holder = p}} = {}
      BY <2>3
    <3>2. Max({} \cup {NoPlayer}) = NoPlayer
      <4>1. {} \cup {NoPlayer} = ({0} \ {NoPlayer}) \cup {NoPlayer} /\ 0 \in Nat
        BY DEF NoPlayer
      <4>. QED  BY <4>1, MaxIsVote DEF NoPlayer
    <3>. QED  BY <2>1, <3>1, <3>2 DEF NoVotes
  <2>8. column(Stored.prepared_turns) = prepared
    <3>1. \A p \in Player : HandOf(Stored.prepared_turns, p) = {prepared[p]} \ {NoMeme}
      BY StoredMemesAre
    <3>. QED  BY <1>1, <3>1
  <2>9. \A p \in Player : HandOf({r \in Stored.dealt_hands : r.round = Null}, p) = prepHand[p]
    BY StoredHandsAre
  <2>. QED  BY <1>1, <2>5, <2>6, <2>7, <2>8, <2>9 DEF Load, Aggregate, now, of
<1>4. CASE current # NoPlayer
  <2>1. current \in Rounds /\ now = {current}
    BY <1>2, <1>4 DEF StoreInv, RoundIsCurrent, Rounds
  <2>2. \A t : of(t) = {r \in Stored[t] : r.round = current}
    BY <2>1
  <2>. HIDE DEF now, of
  <2>5. \A p \in Player : HandOf(of("dealt_hands"), p) = roundHand[p]
    BY <2>1, <2>2, StoredHandsAre
  <2>6. column(of("round_submissions")) = submitted /\ column(of("vote_options")) = ballot
    <3>1. \A p \in Player : /\ HandOf(of("round_submissions"), p) = {submitted[p]} \ {NoMeme}
                            /\ HandOf(of("vote_options"), p) = {ballot[p]} \ {NoMeme}
      BY <2>1, <2>2, StoredMemesAre
    <3>. QED  BY <1>1, <3>1
  <2>7. voted = votes
    <3>1. \A p \in Player :
            {v.option[2] : v \in {q \in of("votes") : q.holder = p}} = {votes[p]} \ {NoPlayer}
      BY <2>1, <2>2, StoredVotesAre
    <3>2. \A p \in Player : voted[p] = votes[p]
      BY <1>1, <3>1, MaxIsVote
    <3>. QED  BY <1>1, <3>2
  <2>8. column(Stored.prepared_turns) = prepared
    <3>1. \A p \in Player : HandOf(Stored.prepared_turns, p) = {prepared[p]} \ {NoMeme}
      BY StoredMemesAre
    <3>. QED  BY <1>1, <3>1
  <2>9. \A p \in Player : HandOf({r \in Stored.dealt_hands : r.round = Null}, p) = prepHand[p]
    BY StoredHandsAre
  <2>. QED  BY <1>1, <2>5, <2>6, <2>7, <2>8, <2>9 DEF Load, Aggregate, now, of
<1>. QED  BY <1>3, <1>4

-----------------------------------------------------------------------------
(* From one stored aggregate to the next.                                    *)

StoreOK ==
  /\ WellFormed(Stored) /\ Load(Stored) = Aggregate
  /\ Ids(Stored.players) = {p \in Player : HasRow(p)}
  /\ Stored.player_sessions = {[id |-> p, player |-> p] : p \in Ids(Stored.players)}
  /\ Ids(Stored.games) = IF roomState = "LOBBY" THEN {} ELSE {1}
  /\ roomState = "LOBBY" => \A t \in Tables \ {"players", "player_sessions"} : Stored[t] = {}
  /\ \A r \in Stored.game_players : r.player \in Holders

(* A lobby has rows of players and sessions, and no others. *)
LEMMA StoredLobby ==
  ASSUME EngineInv, DealInv, ContentInv, StoreInv, roomState = "LOBBY",
         NEW t \in Tables \ {"players", "player_sessions"}
  PROVE  Stored[t] = {}
<1>1. Holders = {} /\ Rounds = {} /\ ~InGame
  BY RowsHaveHolders DEF InGame
<1>2. CASE t \in {"games", "game_cycles"}
  BY <1>1, <1>2 DEF Stored, GameRows, CycleRows
<1>3. CASE t \in {"game_players", "prepared_turns", "rounds"}
  BY <1>1, <1>3, RowsHaveHolders DEF Stored, GamePlayerRows, PreparedTurnRows, RoundRows
<1>4. CASE t = "dealt_hands"
  BY <1>1, <1>4, StoredHands DEF HandRow
<1>5. CASE t \in {"round_submissions", "vote_options", "votes", "round_scores"}
  BY <1>1, <1>5, StoredChildren, StoredVotes
<1>. QED  BY <1>2, <1>3, <1>4, <1>5, TableNames

(* What the cases of a save need of the rows, of the current and of the next. *)
LEMMA StoredOK ==
  EngineInv /\ DealInv /\ ContentInv /\ StoreInv => StoreOK
<1>. SUFFICES ASSUME EngineInv, DealInv, ContentInv, StoreInv  PROVE StoreOK
  OBVIOUS
<1>1. WellFormed(Stored) /\ Load(Stored) = Aggregate
  BY StoredWellFormed, StoredLoads
<1>2. Ids(Stored.players) = {p \in Player : HasRow(p)}
  <2>1. Ids(Stored.players) \subseteq Player
    BY DEF Stored, PlayerRows, Ids
  <2>. QED  BY <2>1, StoredIds
<1>3. Stored.player_sessions = {[id |-> p, player |-> p] : p \in Ids(Stored.players)}
  BY <1>2 DEF Stored, SessionRows
<1>4. Ids(Stored.games) = IF roomState = "LOBBY" THEN {} ELSE {1}
  <2>1. Stored.games = GameRows
    BY DEF Stored
  <2>2. CASE roomState = "LOBBY"
    BY <2>1, <2>2 DEF GameRows, InGame, Ids
  <2>3. CASE roomState # "LOBBY"
    <3> DEFINE row == [id |-> 1, phase |-> <<roomState, phase>>, cycle |-> cycle,
                       round |-> current]
    <3>1. GameRows = {row} /\ row.id = 1
      BY <2>3 DEF GameRows, InGame
    <3> HIDE DEF row
    <3>2. Ids({row}) = {1}
      BY <3>1 DEF Ids
    <3>. QED  BY <2>1, <2>3, <3>1, <3>2
  <2>. QED  BY <2>2, <2>3
<1>5. \A r \in Stored.game_players : r.player \in Holders
  BY DEF Stored, GamePlayerRows
<1>. QED  BY <1>1, <1>2, <1>3, <1>4, <1>5, StoredLobby DEF StoreOK

(* Only a join brings a row; nobody who is in a game loses theirs, nobody    *)
(* who played loses it before the game is gone.                              *)
RowsStay ==
  /\ \A p \in Player : HasRow(p)' => HasRow(p)
  /\ roomState' # "LOBBY" => \A p \in Player : HasRow(p) => HasRow(p)'
  /\ roomState' = "LOBBY" => \A p \in Holders : HasRow(p)'

(* A game that goes on keeps its players. *)
LEMMA GoingOnKeepsRows ==
  ASSUME EngineInv', GameGoesOn, UNCHANGED member
  PROVE  RowsStay
<1>1. Holders' = Holders
  BY DEF GameGoesOn, SamePlayers, Holders
<1>2. roomState' = "LOBBY" => Holders' = {}
  BY DEF EngineInv, RoomMatchesPhase, Holders
<1>. QED  BY <1>1, <1>2 DEF RowsStay, HasRow, Holders

(* Whoever leaves during a game keeps a row. *)
LEMMA LeaveKeepsRows ==
  ASSUME EngineInv, EngineInv', ContentInv, NEW p \in Player, ApplyLeave(p)
  PROVE  RowsStay
<1>1. Holders' = Holders
  BY LeaveGoesOn DEF GameGoesOn, SamePlayers, Holders
<1>2. roomState' = "LOBBY" => Holders' = {}
  BY DEF EngineInv, RoomMatchesPhase, Holders
<1>3. /\ member[p] = "IN" /\ member' = [member EXCEPT ![p] = "LEFT"]
      /\ \A q \in Player : q # p => member'[q] = member[q]
      /\ member'[p] = "LEFT"
  BY DEF ApplyLeave, Present, EngineInv, TypeOK
<1>4. roomState' # "LOBBY" => p \in Holders
  <2>1. roomState' # "LOBBY" => phase # "NONE"
    BY LeaverIsGone DEF EngineInv, RoomMatchesPhase
  <2>. QED  BY <1>3, <2>1 DEF ContentInv, EveryonePresentPlays, Present, Participants, Holders
<1>. QED  BY <1>1, <1>2, <1>3, <1>4 DEF RowsStay, HasRow, Holders

(* No command but a join brings a row. *)
LEMMA StepKeepsRows ==
  ASSUME EngineInv, EngineInv', ContentInv, StoreInv, [Next]_vars,
         \A p \in Player : ~JoinRoom(p)
  PROVE  RowsStay
<1>1. /\ SamePlayers(status) /\ PreparedByPlayers(prepared)
      /\ SamePlayers(ResetSkipped(status)) /\ ResetSkipped(status) \in [Player -> Statuses]
  BY AggregateTypes
  DEF EngineInv, ContentInv, OriginalsOfParticipants, SamePlayers, PreparedByPlayers, ResetSkipped,
      TypeOK, Statuses
<1>2. CASE UNCHANGED <<member, status, prepared>>
  <2>1. GameGoesOn
    BY <1>1, <1>2 DEF GameGoesOn
  <2>. QED  BY <1>2, <2>1, GoingOnKeepsRows
<1>3. CASE ResolvePhase
  BY <1>3, ResolveGoesOn, GoingOnKeepsRows DEF ResolvePhase
<1>4. ASSUME NEW p \in Player, PlayerStep(p)  PROVE RowsStay
  <2>1. CASE \/ \E m \in Meme : SubmitPreparation(p, m)
             \/ \E m \in Meme : SubmitRoundMeme(p, m)
             \/ \E o \in Player : SubmitVote(p, o)
    <3>1. UNCHANGED member
      BY <2>1 DEF SubmitPreparation, SubmitRoundMeme, SubmitVote
    <3>. QED  BY <2>1, <3>1, SubmitGoesOn, GoingOnKeepsRows
  <2>. QED  BY <1>4, <2>1, LeaveKeepsRows DEF PlayerStep, LeaveRoom
<1>5. ASSUME NEW a \in Actors, PrivilegedStep(a)  PROVE RowsStay
  <2>1. CASE StartGame(a)
    <3>1. /\ UNCHANGED member /\ roomState = "LOBBY" /\ roomState' = "IN_GAME"
          /\ status' = [p \in Player |-> IF p \in Present THEN "ACTIVE" ELSE "NONE"]
      BY <2>1 DEF StartGame, BeginCycle
    <3>2. Holders = {} /\ Holders' = Present
      BY <3>1 DEF Holders, EngineInv, RoomMatchesPhase, Present
    <3>. QED  BY <3>1, <3>2 DEF RowsStay, HasRow, Present, Holders
  <2>2. CASE NextRound(a)
    BY <1>1, <2>2, NextRoundOrFinishGoesOn, GoingOnKeepsRows DEF NextRound
  <2>3. CASE StartNextCycle(a)
    <3>1. /\ status' = ResetSkipped(status) /\ prepared' = NoMemes /\ UNCHANGED member
      BY <2>3 DEF StartNextCycle, BeginCycle
    <3>2. GameGoesOn
      BY <1>1, <3>1 DEF GameGoesOn, PreparedByPlayers, NoMemes
    <3>. QED  BY <3>1, <3>2, GoingOnKeepsRows
  <2>4. CASE ForceResolvePhase(a)
    BY <1>3, <2>4 DEF ForceResolvePhase
  <2>5. ASSUME NEW p \in Player, KickPlayer(a, p)  PROVE RowsStay
    BY <2>5, LeaveKeepsRows DEF KickPlayer
  <2>6. CASE StartNewGame(a)
    <3>1. /\ UNCHANGED member /\ roomState' = "LOBBY" /\ status' = [p \in Player |-> "NONE"]
          /\ \A p \in Player : member[p] = "LEFT" => status[p] = "NONE"
      BY <2>6 DEF StartNewGame, ResetPersists
    <3>2. \A p \in Holders : p \in Player /\ member[p] = "IN"
      BY <3>1 DEF Holders, StoreInv, PlayersAreMembers, EngineInv, TypeOK
    <3>. QED  BY <3>1, <3>2 DEF RowsStay, HasRow, Holders
  <2>. QED  BY <1>5, <2>1, <2>2, <2>3, <2>4, <2>5, <2>6 DEF PrivilegedStep
<1>6. ASSUME NEW m \in Meme, SetMemeEnabled(m)  PROVE RowsStay
  BY <1>2, <1>6 DEF SetMemeEnabled, handVars
<1>7. CASE UNCHANGED vars
  BY <1>2, <1>7 DEF vars
<1>. QED  BY <1>3, <1>4, <1>5, <1>6, <1>7 DEF Next, TimeoutPhase

(* The save of a command. *)
Save(db, new) ==
  IF Cardinality(new.players) > Cardinality(db.players) THEN SaveJoin(db, new)
                                                        ELSE SaveAggregate(db, new)

(* There are as many rows as ids. *)
LEMMA PlayerRowsCount ==
  ASSUME NEW db, WellFormed(db), NEW ids, ids = Ids(db.players), IsFiniteSet(ids)
  PROVE  Cardinality(db.players) = Cardinality(ids) /\ Cardinality(ids) \in Nat
BY TableNames, FS_CardinalityType DEF WellFormed, Unique

(* A join is stored. *)
LEMMA JoinIsStored ==
  ASSUME EngineInv, StoreOK, StoreOK', NEW p \in Player, JoinRoom(p)
  PROVE  Transaction(Stored, Save(Stored, Stored')) = Stored'
<1> DEFINE db == Stored
           new == Stored'
           now == {q \in Player : HasRow(q)}
           then == {q \in Player : HasRow(q)'}
<1>1. /\ roomState = "LOBBY" /\ roomState' = "LOBBY" /\ member[p] = "OUT"
      /\ member' = [member EXCEPT ![p] = "IN"] /\ UNCHANGED status
      /\ \A q \in Player : q # p => member'[q] = member[q] /\ role'[q] = role[q]
      /\ member'[p] = "IN"
  BY DEF JoinRoom, EngineInv, TypeOK
<1>2. then = now \cup {p} /\ p \notin now
  BY <1>1 DEF HasRow, Holders
<1>3. /\ WellFormed(db) /\ WellFormed(new) /\ IsDb(db)
      /\ Ids(db.players) = now /\ Ids(new.players) = then
      /\ db.player_sessions = {[id |-> q, player |-> q] : q \in now}
      /\ new.player_sessions = {[id |-> q, player |-> q] : q \in then}
      /\ \A t \in Tables \ {"players", "player_sessions"} : new[t] = db[t]
  <2>1. WellFormed(db) /\ WellFormed(new) /\ IsDb(db)
    BY DEF StoreOK, WellFormed
  <2>2. Ids(db.players) = now /\ Ids(new.players) = then
    BY DEF StoreOK
  <2>3. /\ db.player_sessions = {[id |-> q, player |-> q] : q \in Ids(db.players)}
        /\ new.player_sessions = {[id |-> q, player |-> q] : q \in Ids(new.players)}
    BY DEF StoreOK
  <2>4. \A t \in Tables \ {"players", "player_sessions"} : db[t] = {} /\ new[t] = {}
    BY <1>1 DEF StoreOK
  <2>. HIDE DEF db, new, now, then
  <2>. QED  BY <2>1, <2>2, <2>3, <2>4
<1>4. db.players \subseteq new.players
  <2>1. db.players = PlayerRows /\ new.players = PlayerRows'
    BY DEF Stored
  <2>2. \A q \in now : q \in then /\ member'[q] = member[q] /\ role'[q] = role[q]
    BY <1>1, <1>2
  <2>. QED  BY <2>1, <2>2 DEF PlayerRows
<1>5. IsFiniteSet(now) /\ IsFiniteSet(then)
  BY PlayersAreNumbers, FS_Subset
<1>. HIDE DEF db, new, now, then
<1>6. db.player_sessions \subseteq new.player_sessions
  BY <1>2, <1>3
<1>7. Cardinality(new.players) > Cardinality(db.players)
  <2>1. Cardinality(then) = Cardinality(now) + 1
    BY <1>2, <1>5, FS_AddElement
  <2>. QED  BY <1>3, <1>5, <2>1, PlayerRowsCount
<1>8. Transaction(db, SaveJoin(db, new)) = new
  BY <1>3, <1>4, <1>6, JoinSaveWorks
<1>. QED  BY <1>7, <1>8 DEF Save, db, new

(* Any other command is stored: as a game, or as a lobby. *)
LEMMA CommandIsStored ==
  ASSUME StoreOK, StoreOK', RowsStay
  PROVE  Transaction(Stored, Save(Stored, Stored')) = Stored'
<1> DEFINE db == Stored
           new == Stored'
           now == {q \in Player : HasRow(q)}
           then == {q \in Player : HasRow(q)'}
<1>1. /\ then \subseteq now /\ (roomState' # "LOBBY" => then = now)
      /\ (roomState' = "LOBBY" => Holders \subseteq then)
  BY DEF RowsStay, Holders
<1>2. /\ WellFormed(db) /\ WellFormed(new)
      /\ Ids(db.players) = now /\ Ids(new.players) = then
  BY DEF StoreOK
<1>3. /\ db.player_sessions = {[id |-> q, player |-> q] : q \in Ids(db.players)}
      /\ new.player_sessions = {[id |-> q, player |-> q] : q \in Ids(new.players)}
  BY DEF StoreOK
<1>4. /\ Ids(db.games) \subseteq {1} /\ (roomState' # "LOBBY" => Ids(new.games) = {1})
      /\ (roomState' = "LOBBY" =>
            \A t \in Tables \ {"players", "player_sessions"} : new[t] = {})
      /\ \A r \in db.game_players : r.player \in Holders
  BY DEF StoreOK
<1>5. IsFiniteSet(now) /\ IsFiniteSet(then)
  BY PlayersAreNumbers, FS_Subset
<1>. HIDE DEF db, new, now, then
<1>6. ~(Cardinality(new.players) > Cardinality(db.players))
  <2>1. Cardinality(then) <= Cardinality(now)
    BY <1>1, <1>5, FS_Subset
  <2>. QED  BY <1>2, <1>5, <2>1, PlayerRowsCount
<1>7. CASE roomState' # "LOBBY"
  <2>1. new.games # {}
    BY <1>4, <1>7 DEF Ids
  <2>2. Transaction(db, SaveAggregate(db, new)) = new
    BY <1>1, <1>2, <1>3, <1>4, <1>7, <2>1, GameSaveWorks
  <2>. QED  BY <1>6, <2>2 DEF Save, db, new
<1>8. CASE roomState' = "LOBBY"
  <2>1. new.player_sessions = Remaining(db.player_sessions, new)
    BY <1>1, <1>2, <1>3 DEF Remaining
  <2>2. Refers(db.game_players, "player", new.players)
    BY <1>1, <1>2, <1>4, <1>8 DEF Refers
  <2>3. Transaction(db, SaveAggregate(db, new)) = new
    BY <1>1, <1>2, <1>4, <1>8, <2>1, <2>2, LobbySaveWorks
  <2>. QED  BY <1>6, <2>3 DEF Save, db, new
<1>. QED  BY <1>7, <1>8

(* The reset of a closed room fails while someone who left has rows in its   *)
(* game.                                                                     *)
LEMMA ResetIsRefused ==
  ASSUME EngineInv, StoreInv, StoreOK, ~ResetPersists
  PROVE  Transaction(Stored, SaveAggregate(Stored, ResetRoom)) = Failed
<1>1. PICK p \in Player : member[p] = "LEFT" /\ status[p] # "NONE"
  BY DEF ResetPersists
<1> DEFINE r == [id |-> p, game |-> 1, player |-> p, data |-> <<score[p], status[p]>>]
           q == [id |-> p, data |-> <<member[p], role[p]>>]
           db == Stored
           new == ResetRoom
<1>2. WellFormed(db)
  BY DEF StoreOK
<1>3. r \in db.game_players /\ q \in db.players
  BY <1>1 DEF Stored, GamePlayerRows, PlayerRows, HasRow, Holders
<1>4. r.player = p /\ q.id = p
  OBVIOUS
<1>5. new.games = {} /\ new.players = {x \in db.players : member[x.id] = "IN"}
  BY TableNames DEF ResetRoom
<1>6. p \notin Ids(new.players)
  BY <1>1, <1>5 DEF Ids
<1>. HIDE DEF r, q, db, new
<1>7. Transaction(db, SaveAggregate(db, new)) = Failed
  BY <1>2, <1>3, <1>4, <1>5, <1>6, ResetFails
<1>. QED  BY <1>7 DEF db, new

(* Whatever the rows and the command, the save works and leaves the new      *)
(* aggregate, except for the reset of a room that a player has left.         *)
StoresStep ==
  \A db \in {Stored}, new \in {Stored'} :
    /\ edits' = edits =>
         /\ Transaction(db, IF Cardinality(new.players) > Cardinality(db.players)
                            THEN SaveJoin(db, new) ELSE SaveAggregate(db, new)) = new
         /\ Load(new) = Aggregate'
    /\ roomState = "CLOSED" /\ ~ResetPersists =>
         Transaction(db, SaveAggregate(db, ResetRoom)) = Failed

(* A step of the room is stored and read back. *)
LEMMA StepIsStored ==
  ASSUME EngineInv, EngineInv', ContentInv, StoreInv, StoreOK, StoreOK', [Next]_vars
  PROVE  StoresStep
<1>1. Transaction(Stored, Save(Stored, Stored')) = Stored'
  <2>1. CASE \E p \in Player : JoinRoom(p)
    BY <2>1, JoinIsStored
  <2>2. CASE \A p \in Player : ~JoinRoom(p)
    BY <2>2, StepKeepsRows, CommandIsStored
  <2>. QED  BY <2>1, <2>2
<1>2. Load(Stored') = Aggregate'
  BY DEF StoreOK
<1>3. ~ResetPersists => Transaction(Stored, SaveAggregate(Stored, ResetRoom)) = Failed
  BY ResetIsRefused
<1>. QED  BY <1>1, <1>2, <1>3 DEF StoresStep, Save

(* Whatever rows the earlier commands have left, the statements of a save    *)
(* break no constraint, and what is stored is the new aggregate, which the   *)
(* next command loads as it is.                                              *)
THEOREM EngineStoredExactly == Spec => StoredExactly
<1>1. Spec => []ContentInv
  BY EngineInvariant, ContentInit, ContentStep, PTL DEF Spec
<1>2. Spec => []StoreOK
  BY <1>1, EngineInvariant, DealInvariant, StoreInvariant, StoredOK, PTL
<1>3. EngineInv /\ EngineInv' /\ ContentInv /\ StoreInv /\ StoreOK /\ StoreOK' /\ [Next]_vars
        => [StoresStep]_vars
  BY StepIsStored
<1>4. Spec => [][StoresStep]_vars
  BY <1>1, <1>2, <1>3, EngineInvariant, StoreInvariant, PTL DEF Spec
<1>. QED  BY <1>4 DEF StoredExactly, StoresStep
=============================================================================
