-------------------------- MODULE RoomCoordinator --------------------------
(***************************************************************************)
(* One room of the coordinator (internal/coordinator) with its requests    *)
(* running concurrently: commands, joins, reconnects, disconnects, settings *)
(* patches, the deletion of the room, and a crash of the server.           *)
(*                                                                         *)
(* The database has one connection: a statement outside a transaction is   *)
(* one step, and so is a whole transaction.  Everything between two steps  *)
(* of a request can be interleaved with the other requests.  A request     *)
(* that fails goes on to its unlock, or ends.                              *)
(*                                                                         *)
(* GameEngine is what a command does to the game; here the game is         *)
(* abstracted to the number of changes its rows have seen (step), and the  *)
(* reset of a finished room is left to GameEngine.  The phase deadlines    *)
(* are the business of TimeoutScheduler, whose commands run under the same *)
(* lock, and the broadcasts that of WsHub.                                 *)
(***************************************************************************)
EXTENDS Integers, FiniteSets, FiniteSetsExt

CONSTANTS
  NumPlayers,   \* bound: how many players ever join the room
  Request,      \* bound: the requests that run at the same time
  CommandId,    \* bound: the commands clients ever send, by commandId
  Command,      \* the commands clients may send: actor, type, target, and
                \* whether they name the revision they expect or not (blind)
  ValidCaps,    \* the valid values of RoomSettings.maxPlayers
  OtherCaps,    \* values a patch may carry that Validate refuses
  None          \* no row, lock, request, command or snapshot

Player == 1 .. NumPlayers
Admin == 0                    \* the Local Admin as a command's actor
AnyRevision == -1             \* a negative expectedRevision is not compared
Lock == 1 .. Cardinality(Request) + 1

CommandTypes == {"START_GAME", "PLAY", "LEAVE_ROOM", "KICK_PLAYER"}
Kinds == {"COMMAND", "JOIN", "RECONNECT", "DISCONNECT", "SETTINGS", "DELETE"}
RoomStates == {"LOBBY", "IN_GAME", "CLOSED", "DELETED"}

ASSUME BoundsAssumption ==
  /\ NumPlayers \in Nat \ {0}
  /\ IsFiniteSet(Request) /\ Request # {} /\ IsFiniteSet(CommandId)
  /\ ValidCaps # {} /\ ValidCaps \subseteq Nat /\ OtherCaps \cap ValidCaps = {}

ASSUME CommandAssumption ==
  Command \subseteq [actor : Player \cup {Admin}, type : CommandTypes, target : Player,
                blind : BOOLEAN]

(* The players rows and the settings row, the requests and the commands.    *)
RowRecords == [role : {"HOST", "PLAYER"}, connected : BOOLEAN, left : BOOLEAN]
SettingsRecords == [cap : ValidCaps, other : {0, 1}]
RequestRecords ==
  [kind : Kinds \cup {"NONE"},
   pc : {"IDLE", "AUTH", "AUTHENTICATED", "ROOM", "LOCK_FOR", "LOCK", "INSIDE", "FORGET",
         "LOOK", "CHECK", "WRITE"},
   who : Player \cup {Admin}, id : CommandId \cup {None}, lock : Lock \cup {None},
   row : RowRecords \cup {None}, at : Nat, settings : SettingsRecords \cup {None}]
SentRecords == [cmd : Command, expected : Nat \cup {AnyRevision}, saw : Nat]

ASSUME NoneAssumption ==
  None \notin Request \cup CommandId \cup Lock \cup RowRecords \cup SentRecords

VARIABLES
  room,         \* the rooms row: state and revision
  step,         \* how often the game's rows have changed, 0 without a game
  settings,     \* the room_settings row
  snapshot,     \* games.settings_snapshot, and the revision START_GAME met
  row,          \* the players rows
  session,      \* the player_sessions rows: VALID or REVOKED
  processed,    \* the processed_commands rows
  lockEntry,    \* Coordinator.rooms[room]
  owner,        \* who holds each roomLock
  req,          \* the requests the server is working on
  sent,         \* the commands the clients have composed
  applied,      \* history: how often each command took effect
  ended,        \* history: the players who left or were kicked
  overwritten   \* history: the players whose newer row or session a request
                \* has overwritten with what it had read before

dbVars == <<room, step, settings, snapshot, row, session, processed>>
lockVars == <<lockEntry, owner>>
historyVars == <<applied, ended, overwritten>>
vars == <<dbVars, lockVars, req, sent, historyVars>>

Idle == [kind |-> "NONE", pc |-> "IDLE", who |-> Admin, id |-> None,
         lock |-> None, row |-> None, at |-> 0, settings |-> None]

At(r, kind, pc) == req[r].kind = kind /\ req[r].pc = pc
Goto(r, pc) == req' = [req EXCEPT ![r].pc = pc]
Done(r) == req' = [req EXCEPT ![r] = Idle]
Begin(r, kind, pc, who) ==
  /\ req[r] = Idle
  /\ req' = [req EXCEPT ![r] = [Idle EXCEPT !.kind = kind, !.pc = pc, !.who = who]]

Live == room.state # "DELETED"
Rows == {p \in Player : row[p] # None}
Members == {p \in Rows : ~row[p].left}
IsHostOrAdmin(a) == a = Admin \/ (a \in Members /\ row[a].role = "HOST")

-----------------------------------------------------------------------------
(* What every request has in common.                                       *)

(* Authenticate reads the session; a revoked one ends the request.         *)
AuthRead(r) ==
  /\ req[r].pc = "AUTH"
  /\ IF session[req[r].who] = "VALID" THEN Goto(r, "AUTHENTICATED") ELSE Done(r)
  /\ UNCHANGED <<dbVars, lockVars, sent, historyVars>>

(* It then writes the whole row back, with a new last_seen_at and revoked_at *)
(* as it was read.  Requests for a snapshot do these two steps and no more   *)
(* to the database: they are the beginning of a Reconnect here.              *)
AuthWrite(r) ==
  LET p == req[r].who IN
  /\ req[r].pc = "AUTHENTICATED"
  /\ session' = [session EXCEPT ![p] = IF @ = "NONE" THEN "NONE" ELSE "VALID"]
  /\ overwritten' = IF session[p] = "REVOKED" THEN overwritten \cup {p} ELSE overwritten
  /\ Goto(r, "ROOM")
  /\ UNCHANGED <<room, step, settings, snapshot, row, processed, lockVars, sent,
                 applied, ended>>

(* GetRoomByCode; JoinRoom looks at the state too. *)
FindRoom(r) ==
  /\ req[r].pc = "ROOM"
  /\ IF Live /\ (req[r].kind = "JOIN" => room.state = "LOBBY")
     THEN Goto(r, "LOCK_FOR") ELSE Done(r)
  /\ UNCHANGED <<dbVars, lockVars, sent, historyVars>>

(* A roomLock nobody refers to. *)
FreeLock == CHOOSE l \in Lock : l # lockEntry /\ \A r \in Request : req[r].lock # l

(* Mutant: every request gets a lock of its own. *)
LockForNew(r) ==
  /\ req[r].pc = "LOCK_FOR"
  /\ lockEntry' = FreeLock
  /\ req' = [req EXCEPT ![r].lock = FreeLock, ![r].pc = "LOCK"]
  /\ UNCHANGED <<dbVars, owner, sent, historyVars>>

LockFor(r) ==
  LET l == IF lockEntry = None THEN FreeLock ELSE lockEntry IN
  /\ req[r].pc = "LOCK_FOR"
  /\ lockEntry' = l
  /\ req' = [req EXCEPT ![r].lock = l, ![r].pc = "LOCK"]
  /\ UNCHANGED <<dbVars, owner, sent, historyVars>>

Acquire(r) ==
  /\ req[r].pc = "LOCK"
  /\ owner[req[r].lock] = None
  /\ owner' = [owner EXCEPT ![req[r].lock] = r]
  /\ Goto(r, "INSIDE")
  /\ UNCHANGED <<dbVars, lockEntry, sent, historyVars>>

(* The deferred Unlock, with which a request ends.  It follows the request's *)
(* last change in one step with it: nothing else is left to change.          *)
Unlock(r) ==
  /\ owner' = [owner EXCEPT ![req[r].lock] = None]
  /\ Done(r)

-----------------------------------------------------------------------------
(* JoinRoom, Reconnect and MarkDisconnected.                               *)

(* The players who have not joined yet (a bound). *)
Newcomers == {p \in Player : row[p] = None /\ p \notin ended}

Join(r) ==
  /\ Newcomers # {}
  /\ Begin(r, "JOIN", "ROOM", Admin)
  /\ UNCHANGED <<dbVars, lockVars, sent, historyVars>>

(* The transaction: seats and names are free again once somebody has left; *)
(* the host is whoever finds no player at all.                             *)
JoinTx(r) ==
  LET p == Min(Newcomers) IN
  /\ At(r, "JOIN", "INSIDE")
  /\ IF room.state = "LOBBY" /\ Cardinality(Members) < settings.cap
        /\ Newcomers # {}
     THEN /\ row' = [row EXCEPT ![p] = [role |-> IF Rows = {} THEN "HOST" ELSE "PLAYER",
                                       connected |-> TRUE, left |-> FALSE]]
          /\ session' = [session EXCEPT ![p] = "VALID"]
     ELSE UNCHANGED <<row, session>>
  /\ Unlock(r)
  /\ UNCHANGED <<room, step, settings, snapshot, processed, lockEntry, sent,
                 historyVars>>

(* handleReconnect, and handleJoin of a browser that has a session, which   *)
(* authenticates once more before (the beginning of another Reconnect).     *)
Reconnect(r, p) ==
  /\ session[p] # "NONE"
  /\ Begin(r, "RECONNECT", "AUTH", p)
  /\ UNCHANGED <<dbVars, lockVars, sent, historyVars>>

(* GetPlayer and UpdatePlayer: under the lock nobody writes in between.    *)
ReconnectRow(r) ==
  LET p == req[r].who IN
  /\ At(r, "RECONNECT", "INSIDE")
  /\ row' = IF p \in Members THEN [row EXCEPT ![p].connected = TRUE] ELSE row
  /\ Unlock(r)
  /\ UNCHANGED <<room, step, settings, snapshot, session, processed, lockEntry, sent,
                 historyVars>>

(* A connection of p has closed: MarkDisconnected reads the row...         *)
Disconnect(r, p) ==
  /\ p \in Rows
  /\ req[r] = Idle
  /\ req' = [req EXCEPT ![r] = [Idle EXCEPT !.kind = "DISCONNECT", !.who = p,
                                            !.pc = "LOCK_FOR", !.row = row[p]]]
  /\ UNCHANGED <<dbVars, lockVars, sent, historyVars>>

(* ...before it takes the lock, and writes all of it back. *)
DisconnectRow(r) ==
  LET p == req[r].who
      old == req[r].row IN
  /\ At(r, "DISCONNECT", "INSIDE")
  /\ row' = IF p \in Rows THEN [row EXCEPT ![p] = [old EXCEPT !.connected = FALSE]]
                          ELSE row
  /\ overwritten' = IF p \in Rows /\ (row[p].left # old.left \/ row[p].role # old.role)
                    THEN overwritten \cup {p} ELSE overwritten
  /\ Unlock(r)
  /\ UNCHANGED <<room, step, settings, snapshot, session, processed, lockEntry,
                 sent, applied, ended>>

-----------------------------------------------------------------------------
(* Commands.  A client composes a command c from a snapshot; what it sees  *)
(* is assembled by LoadAggregate outside a transaction, the revision first *)
(* and the game's rows later.                                              *)

Unsent(c) == sent[c] = None /\ \A r \in Request : req[r].id # c

Look(r, c) ==
  /\ Live /\ Unsent(c)
  /\ req[r] = Idle
  /\ req' = [req EXCEPT ![r] = [Idle EXCEPT !.kind = "COMMAND", !.pc = "LOOK",
                                            !.id = c, !.at = room.revision]]
  /\ UNCHANGED <<dbVars, lockVars, sent, historyVars>>

Compose(r) ==
  /\ At(r, "COMMAND", "LOOK")
  /\ \E cmd \in Command :
       /\ sent' = [sent EXCEPT ![req[r].id] =
                      [cmd |-> cmd,
                       expected |-> IF cmd.blind THEN AnyRevision ELSE req[r].at,
                       saw |-> step]]
       /\ req' = [req EXCEPT ![r].who = cmd.actor, ![r].at = 0,
                             ![r].pc = IF cmd.actor = Admin THEN "ROOM" ELSE "AUTH"]
  /\ UNCHANGED <<dbVars, lockVars, historyVars>>

(* The same command once more: a retry, or a duplicate of the request.     *)
Resend(r, c) ==
  /\ sent[c] # None
  /\ LET a == sent[c].cmd.actor IN
     /\ req[r] = Idle
     /\ req' = [req EXCEPT ![r] = [Idle EXCEPT !.kind = "COMMAND", !.id = c, !.who = a,
                                    !.pc = IF a = Admin THEN "ROOM" ELSE "AUTH"]]
  /\ UNCHANGED <<dbVars, lockVars, sent, historyVars>>

(* What the engine asks of each command. *)
Permitted(cmd) ==
  CASE cmd.type = "START_GAME" ->
         IsHostOrAdmin(cmd.actor) /\ room.state = "LOBBY" /\ Cardinality(Members) >= 2
    [] cmd.type = "PLAY"           -> cmd.actor \in Members /\ room.state = "IN_GAME"
    [] cmd.type = "LEAVE_ROOM"     -> cmd.actor \in Members
    [] cmd.type = "KICK_PLAYER"    -> cmd.actor = Admin /\ cmd.target \in Members

(* Mutant: a leaving host hands over to nobody. *)
RowsWithoutHeir(p) ==
  [q \in Player |->
     IF row[q] = None \/ (q = p /\ room.state = "LOBBY") THEN None
     ELSE IF q = p THEN [row[q] EXCEPT !.connected = FALSE, !.left = TRUE]
     ELSE row[q]]

(* applyLeave and SaveAggregate: without a game the row goes, with its      *)
(* sessions; else it is marked.  A leaving host hands over to the oldest.   *)
RowsWithout(p) ==
  LET others == Members \ {p}
      handover == row[p].role = "HOST" /\ others # {}
      role(q) == IF ~handover THEN row[q].role
                 ELSE IF q = Min(others) THEN "HOST" ELSE "PLAYER"
  IN [q \in Player |->
        IF row[q] = None \/ (q = p /\ room.state = "LOBBY") THEN None
        ELSE IF q = p THEN [role |-> role(q), connected |-> FALSE, left |-> TRUE]
        ELSE [row[q] EXCEPT !.role = role(q)]]

(* Mutant: sessions are not revoked. *)
SessionsKept(p) ==
  [session EXCEPT ![p] = IF room.state = "LOBBY" THEN "NONE" ELSE @]

(* revokeSessions finds none to revoke where the row has gone. *)
SessionsWithout(p) ==
  [session EXCEPT ![p] = IF room.state = "LOBBY" \/ @ = "NONE" THEN "NONE" ELSE "REVOKED"]

(* What the command does to the room's rows, but for the revision.          *)
Effect(cmd, state) ==
  CASE cmd.type = "START_GAME" ->
         /\ state = "IN_GAME"
         /\ step' = 1
         /\ snapshot' = [settings |-> settings, at |-> room.revision]
         /\ UNCHANGED <<row, session, ended>>
    [] cmd.type = "PLAY" ->
         /\ state \in {"IN_GAME", "CLOSED"}
         /\ step' = step + 1
         /\ UNCHANGED <<snapshot, row, session, ended>>
    [] cmd.type \in {"LEAVE_ROOM", "KICK_PLAYER"} ->
         LET p == IF cmd.type = "LEAVE_ROOM" THEN cmd.actor ELSE cmd.target IN
         /\ state = room.state \/ (room.state = "IN_GAME" /\ state = "CLOSED")
         /\ step' = IF room.state = "LOBBY" THEN 0 ELSE step + 1
         /\ row' = RowsWithout(p)
         /\ session' = SessionsWithout(p)
         /\ ended' = ended \cup {p}
         /\ UNCHANGED snapshot

(* Mutants: the expected revision is not compared; the commandId is not    *)
(* looked up.                                                              *)
CanApplyToAny(c) ==
  /\ Live
  /\ c \notin processed
  /\ Permitted(sent[c].cmd)

CanApplyAgain(c) ==
  /\ Live
  /\ sent[c].expected \in {AnyRevision, room.revision}
  /\ Permitted(sent[c].cmd)

CanApply(c) ==
  /\ Live
  /\ c \notin processed
  /\ sent[c].expected \in {AnyRevision, room.revision}
  /\ Permitted(sent[c].cmd)

(* The transaction of HandleCommand. *)
CommandTx(r) ==
  LET c == req[r].id IN
  /\ At(r, "COMMAND", "INSIDE")
  /\ CanApply(c)
  /\ \E state \in RoomStates :
       /\ Effect(sent[c].cmd, state)
       /\ room' = [state |-> state, revision |-> room.revision + 1]
  /\ processed' = processed \cup {c}
  /\ applied' = [applied EXCEPT ![c] = @ + 1]
  /\ Unlock(r)
  /\ UNCHANGED <<settings, lockEntry, sent, overwritten>>

(* The transaction is rolled back: CanApply does not hold, or the engine     *)
(* refuses the command for reasons of the game or of the content.            *)
CommandFails(r) ==
  /\ At(r, "COMMAND", "INSIDE")
  /\ Unlock(r)
  /\ UNCHANGED <<dbVars, lockEntry, sent, historyVars>>

-----------------------------------------------------------------------------
(* handleUpdateSettings: the patch is merged over the settings as they are  *)
(* now, validated, the room's state is looked at, and all of it is written, *)
(* without the room lock.                                                   *)

Patches == [cap : ValidCaps \cup OtherCaps] \cup [other : {0, 1}]

(* Mutant: what the merge gives is not validated. *)
ValidAny(s) == TRUE

Valid(s) == s.cap \in ValidCaps

ReadSettings(r) ==
  /\ Live
  /\ req[r] = Idle
  /\ \E patch \in Patches :
       LET merged == [f \in DOMAIN settings |->
                        IF f \in DOMAIN patch THEN patch[f] ELSE settings[f]]
       IN /\ Valid(merged)
          /\ req' = [req EXCEPT ![r] = [Idle EXCEPT !.kind = "SETTINGS", !.pc = "CHECK",
                                                    !.settings = merged]]
  /\ UNCHANGED <<dbVars, lockVars, sent, historyVars>>

(* Mutant: the state of the room is not looked at. *)
CheckLobbyNever(r) ==
  /\ At(r, "SETTINGS", "CHECK")
  /\ req' = [req EXCEPT ![r].pc = "WRITE", ![r].at = room.revision]
  /\ UNCHANGED <<dbVars, lockVars, sent, historyVars>>

CheckLobby(r) ==
  /\ At(r, "SETTINGS", "CHECK")
  /\ IF room.state = "LOBBY"
     THEN req' = [req EXCEPT ![r].pc = "WRITE", ![r].at = room.revision]
     ELSE Done(r)
  /\ UNCHANGED <<dbVars, lockVars, sent, historyVars>>

(* The foreign key refuses the settings of a deleted room.                  *)
WriteSettings(r) ==
  /\ At(r, "SETTINGS", "WRITE")
  /\ settings' = IF Live THEN req[r].settings ELSE settings
  /\ Done(r)
  /\ UNCHANGED <<room, step, snapshot, row, session, processed, lockVars, sent,
                 historyVars>>

-----------------------------------------------------------------------------
(* DeleteRoom: the rows go in a transaction, the lock's map entry after it.  *)
(* The settings row goes too; nothing reads it any more.                     *)

Delete(r) ==
  /\ Live
  /\ Begin(r, "DELETE", "ROOM", Admin)
  /\ UNCHANGED <<dbVars, lockVars, sent, historyVars>>

DeleteTx(r) ==
  /\ At(r, "DELETE", "INSIDE")
  /\ room' = [room EXCEPT !.state = "DELETED"]
  /\ step' = 0
  /\ snapshot' = None
  /\ row' = [p \in Player |-> None]
  /\ session' = [p \in Player |-> "NONE"]
  /\ processed' = {}
  /\ Goto(r, "FORGET")
  /\ UNCHANGED <<settings, lockVars, sent, historyVars>>

Forget(r) ==
  /\ At(r, "DELETE", "FORGET")
  /\ lockEntry' = None
  /\ Unlock(r)
  /\ UNCHANGED <<dbVars, sent, historyVars>>

(* The server stops and is started again: requests and locks are gone, the  *)
(* rows and what the clients have composed stay.  A data race on the map of *)
(* locks, which DeleteRoom changes without its mutex, ends here too.        *)
Crash ==
  /\ req' = [r \in Request |-> Idle]
  /\ lockEntry' = None
  /\ owner' = [l \in Lock |-> None]
  /\ UNCHANGED <<dbVars, sent, historyVars>>

-----------------------------------------------------------------------------
(* CreateRoom has committed, with valid settings.                          *)
Init ==
  /\ room = [state |-> "LOBBY", revision |-> 0]
  /\ step = 0
  /\ settings \in [cap : ValidCaps, other : {0}]
  /\ snapshot = None
  /\ row = [p \in Player |-> None]
  /\ session = [p \in Player |-> "NONE"]
  /\ processed = {}
  /\ lockEntry = None
  /\ owner = [l \in Lock |-> None]
  /\ req = [r \in Request |-> Idle]
  /\ sent = [c \in CommandId |-> None]
  /\ applied = [c \in CommandId |-> 0]
  /\ ended = {}
  /\ overwritten = {}

Arrive(r) ==
  \/ Join(r)
  \/ \E p \in Player : Reconnect(r, p) \/ Disconnect(r, p)
  \/ \E c \in CommandId : Look(r, c) \/ Resend(r, c)
  \/ ReadSettings(r)
  \/ Delete(r)

Proceed(r) ==
  \/ AuthRead(r) \/ AuthWrite(r)
  \/ FindRoom(r) \/ LockFor(r) \/ Acquire(r)
  \/ JoinTx(r) \/ ReconnectRow(r) \/ DisconnectRow(r)
  \/ Compose(r) \/ CommandTx(r) \/ CommandFails(r)
  \/ CheckLobby(r) \/ WriteSettings(r)
  \/ DeleteTx(r) \/ Forget(r)

Next == Crash \/ \E r \in Request : Arrive(r) \/ Proceed(r)

Spec == Init /\ [][Next]_vars

-----------------------------------------------------------------------------
(* Properties.                                                              *)

(* The rows, the locks and the requests; the stored settings are valid.     *)
TypeOK ==
  /\ room \in [state : RoomStates, revision : Nat]
  /\ step \in Nat
  /\ settings \in SettingsRecords
  /\ snapshot = None \/ snapshot \in [settings : SettingsRecords, at : Nat]
  /\ row \in [Player -> RowRecords \cup {None}]
  /\ session \in [Player -> {"NONE", "VALID", "REVOKED"}]
  /\ processed \subseteq CommandId
  /\ lockEntry \in Lock \cup {None}
  /\ owner \in [Lock -> Request \cup {None}]
  /\ req \in [Request -> RequestRecords]
  /\ sent \in [CommandId -> SentRecords \cup {None}]
  /\ applied \in [CommandId -> Nat]
  /\ ended \subseteq Player /\ overwritten \subseteq Player

Inside(r) == req[r].pc \in {"INSIDE", "FORGET"}

(* The room lock serializes: of the requests of one room at most one is      *)
(* between its Lock and its Unlock, although the map entry of the lock comes *)
(* and goes; two get in only when the room is gone and neither can change    *)
(* anything.  And nobody who has finished or failed keeps a lock.            *)
OneInside ==
  /\ \A r, q \in Request : Inside(r) /\ Inside(q) /\ r # q => ~Live
  /\ \A l \in Lock : owner[l] # None =>
       Inside(owner[l]) /\ req[owner[l]].lock = l

(* A command takes effect at most once, however often it is retried and      *)
(* wherever the server crashed, and each one counts in the revision: no      *)
(* update is lost (commandId and Revision, HandleCommand).                   *)
CommandsCountOnce ==
  /\ \A c \in CommandId : applied[c] <= 1
  /\ room.revision = Cardinality({c \in CommandId : applied[c] > 0})

(* A command that names the revision it expects is applied to the game its   *)
(* sender saw, even though a snapshot is put together from reads between     *)
(* which other commands commit.                                              *)
ActsOnWhatItSaw ==
  [][\A c \in CommandId :
       applied'[c] # applied[c] /\ sent[c].expected # AnyRevision =>
         sent[c].saw = step]_vars

(* Whoever left or was kicked stays out, without a row or with LeftAt set,   *)
(* disconnected and with every session revoked, and the room keeps one host  *)
(* ("Leave and Kick permanently end a player's participation",               *)
(* HandleCommand).  Two races alone can undo it: an Authenticate that read   *)
(* the session before the revocation, and a MarkDisconnected that read the   *)
(* row before the leave or the transfer.                                     *)
LeavingIsFinal ==
  /\ \A p \in ended \ overwritten :
       \/ row[p] = None /\ session[p] = "NONE"
       \/ row[p] # None /\ row[p].left /\ ~row[p].connected /\ session[p] = "REVOKED"
  /\ overwritten = {} /\ Members # {} =>
       Cardinality({p \in Members : row[p].role = "HOST"}) = 1

(* Once START_GAME has taken the settings, they change only through a patch  *)
(* that had found the room in LOBBY before it: later ones do not touch the   *)
(* running game, earlier ones can (UpdateSettings takes no lock).            *)
OnlyOvertakenPatches ==
  [][room.state = "IN_GAME" /\ settings' # settings =>
       \E r \in Request :
         At(r, "SETTINGS", "WRITE") /\ req'[r] = Idle /\ req[r].at <= snapshot.at]_vars

(* The players of the room, as RoomPlayers has them. *)
Gone == {p \in Rows : row[p].left}
Hosts == {p \in Rows : row[p].role = "HOST"}

Players == INSTANCE RoomPlayers
             WITH state <- room.state, rows <- Rows, gone <- Gone, hosts <- Hosts

(* However the requests interleave, the players of the room change by the    *)
(* rules of RoomPlayers, those that GameEngine implements: at most by one    *)
(* join, leave or change of the room's state at a time, each on the rows as  *)
(* they then are.  Nothing but a row written back late breaks them.          *)
ImplementsRoom ==
  Players!Init /\ [][overwritten' = {} => [Players!Next]_(Players!vars)]_vars
=============================================================================
