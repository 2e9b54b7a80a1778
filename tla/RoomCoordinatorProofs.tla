----------------------- MODULE RoomCoordinatorProofs -----------------------
(***************************************************************************)
(* The room lock serializes, and what follows from it, for any number of   *)
(* requests, players and commands; and what the requests make of the       *)
(* players is what RoomPlayers says.                                       *)
(***************************************************************************)
EXTENDS RoomCoordinator, TurnOrderLemmas

PCs == {"IDLE", "AUTH", "AUTHENTICATED", "ROOM", "LOCK_FOR", "LOCK", "INSIDE", "FORGET",
        "LOOK", "CHECK", "WRITE"}

(* What a request has in hand at each of its steps. *)
RequestMatches(r) ==
  /\ req[r].lock # None <=> req[r].pc \in {"LOCK", "INSIDE", "FORGET"}
  /\ req[r].pc = "FORGET" => ~Live
  /\ req[r].pc \in {"AUTH", "AUTHENTICATED"} => req[r].who \in Player
  /\ req[r].kind \in {"RECONNECT", "DISCONNECT"} => req[r].who \in Player
  /\ req[r].kind = "DISCONNECT" => req[r].row \in RowRecords
  /\ req[r].kind = "SETTINGS" => req[r].settings \in SettingsRecords
  /\ req[r].kind = "COMMAND" =>
       req[r].id \in CommandId /\ (req[r].pc # "LOOK" => sent[req[r].id] # None)

RequestsMatch == \A r \in Request : RequestMatches(r)

USE BoundsAssumption, CommandAssumption, NoneAssumption

-----------------------------------------------------------------------------
(* How the steps change a request.                                         *)

LEMMA IdleFields ==
  /\ Idle \in RequestRecords
  /\ Idle.kind = "NONE" /\ Idle.pc = "IDLE" /\ Idle.who = Admin /\ Idle.id = None
  /\ Idle.lock = None /\ Idle.row = None /\ Idle.at = 0 /\ Idle.settings = None
BY DEF Idle, RequestRecords

LEMMA DoneFields ==
  ASSUME TypeOK, NEW r \in Request, Done(r)
  PROVE  /\ req' \in [Request -> RequestRecords]
         /\ req'[r] = Idle
         /\ \A q \in Request : q # r => req'[q] = req[q]
BY IdleFields DEF TypeOK, Done

LEMMA GotoFields ==
  ASSUME TypeOK, NEW r \in Request, NEW pc \in PCs, Goto(r, pc)
  PROVE  /\ req' \in [Request -> RequestRecords]
         /\ req'[r].pc = pc
         /\ req'[r].kind = req[r].kind /\ req'[r].who = req[r].who /\ req'[r].id = req[r].id
         /\ req'[r].lock = req[r].lock /\ req'[r].row = req[r].row
         /\ req'[r].at = req[r].at /\ req'[r].settings = req[r].settings
         /\ \A q \in Request : q # r => req'[q] = req[q]
<1> DEFINE new == [req[r] EXCEPT !.pc = pc]
<1>1. req' = [req EXCEPT ![r] = new]
  BY DEF Goto
<1>2. req[r] \in RequestRecords
  BY DEF TypeOK
<1>3. /\ new \in RequestRecords /\ new.pc = pc
      /\ new.kind = req[r].kind /\ new.who = req[r].who /\ new.id = req[r].id
      /\ new.lock = req[r].lock /\ new.row = req[r].row
      /\ new.at = req[r].at /\ new.settings = req[r].settings
  BY <1>2 DEF RequestRecords, PCs
<1>. HIDE DEF new
<1>. QED  BY <1>1, <1>3 DEF TypeOK

LEMMA BeginFields ==
  ASSUME TypeOK, NEW r \in Request, NEW kind \in Kinds, NEW pc \in PCs,
         NEW who \in Player \cup {Admin}, Begin(r, kind, pc, who)
  PROVE  /\ req[r] = Idle /\ req' \in [Request -> RequestRecords]
         /\ req'[r].kind = kind /\ req'[r].pc = pc /\ req'[r].who = who
         /\ req'[r].id = None /\ req'[r].lock = None /\ req'[r].row = None
         /\ req'[r].at = 0 /\ req'[r].settings = None
         /\ \A q \in Request : q # r => req'[q] = req[q]
<1> DEFINE new == [Idle EXCEPT !.kind = kind, !.pc = pc, !.who = who]
<1>1. req[r] = Idle /\ req' = [req EXCEPT ![r] = new]
  BY DEF Begin
<1>2. /\ new \in RequestRecords /\ new.kind = kind /\ new.pc = pc /\ new.who = who
      /\ new.id = None /\ new.lock = None /\ new.row = None
      /\ new.at = 0 /\ new.settings = None
  BY DEF Idle, RequestRecords, PCs
<1>. HIDE DEF new
<1>. QED  BY <1>1, <1>2 DEF TypeOK

LEMMA OthersMatch ==
  ASSUME RequestsMatch, NEW r \in Request, \A q \in Request : q # r => req'[q] = req[q],
         Live' => Live, \A c \in CommandId : sent[c] # None => sent'[c] # None,
         RequestMatches(r)'
  PROVE  RequestsMatch'
<1>. SUFFICES ASSUME NEW q \in Request, q # r  PROVE RequestMatches(q)'
  BY DEF RequestsMatch
<1>1. req'[q] = req[q] /\ RequestMatches(q)
  BY DEF RequestsMatch
<1>. QED  BY <1>1 DEF RequestMatches

LEMMA DoneMatches ==
  ASSUME NEW r \in Request, req'[r] = Idle
  PROVE  RequestMatches(r)'
BY IdleFields DEF RequestMatches

(* There are more locks than requests, so one is free (a sync.Mutex is      *)
(* allocated).                                                              *)
LEMMA FreeLockIsFree ==
  ASSUME TypeOK, lockEntry = None
  PROVE  FreeLock \in Lock /\ \A r \in Request : req[r].lock # FreeLock
<1> DEFINE f == [r \in Request |-> req[r].lock]
           Used == {f[r] : r \in Request}
<1>1. f \in Surjection(Request, Used)
  BY DEF Surjection
<1>2. IsFiniteSet(Used) /\ Cardinality(Used) <= Cardinality(Request)
  BY <1>1, FS_Surjection
<1>3. Cardinality(Request) \in Nat /\ Cardinality(Used) \in Nat
  BY <1>2, FS_CardinalityType
<1>4. Cardinality(Lock) = Cardinality(Request) + 1
  BY <1>3, FS_Interval DEF Lock
<1>5. ~(Lock \subseteq Used)
  <2>. SUFFICES ASSUME Lock \subseteq Used  PROVE FALSE
    OBVIOUS
  <2>1. Cardinality(Lock) <= Cardinality(Used)
    BY <1>2, FS_Subset
  <2>. QED  BY <1>2, <1>3, <1>4, <2>1
<1>6. PICK l \in Lock : l \notin Used
  BY <1>5
<1>7. l # lockEntry /\ \A r \in Request : req[r].lock # l
  BY <1>6
<1>8. \E k \in Lock : k # lockEntry /\ \A r \in Request : req[r].lock # k
  BY <1>7
<1>. QED  BY <1>8 DEF FreeLock

-----------------------------------------------------------------------------
(* Types, and what the requests have in hand.                              *)

MatchInv == TypeOK /\ RequestsMatch

LEMMA MatchInit == Init => MatchInv
<1>. SUFFICES ASSUME Init  PROVE MatchInv
  OBVIOUS
<1>1. RequestsMatch
  BY IdleFields DEF Init, RequestsMatch, RequestMatches
<1>2. settings \in SettingsRecords
  BY DEF Init, SettingsRecords
<1>. QED  BY <1>1, <1>2, IdleFields DEF Init, MatchInv, TypeOK, RoomStates

(* The steps that only begin a request or take it further. *)
LEMMA MovesMatch ==
  ASSUME MatchInv, NEW r \in Request,
         \/ Join(r) \/ Delete(r) \/ AuthRead(r) \/ FindRoom(r) \/ CommandFails(r)
         \/ \E p \in Player : Reconnect(r, p)
  PROVE  MatchInv'
<1>. USE DEF MatchInv, dbVars, lockVars, historyVars
<1>1. ASSUME NEW kind \in {"JOIN", "DELETE"}, Begin(r, kind, "ROOM", Admin),
             UNCHANGED <<dbVars, lockVars, sent, historyVars>>
      PROVE  MatchInv'
  <2>1. kind \in Kinds /\ "ROOM" \in PCs
    BY DEF Kinds, PCs
  <2>2. /\ req' \in [Request -> RequestRecords]
        /\ req'[r].kind = kind /\ req'[r].pc = "ROOM" /\ req'[r].lock = None
        /\ \A q \in Request : q # r => req'[q] = req[q]
    BY <1>1, <2>1, BeginFields
  <2>3. RequestMatches(r)'
    BY <2>2 DEF RequestMatches
  <2>. QED  BY <1>1, <2>2, <2>3, OthersMatch DEF TypeOK, Live
<1>2. ASSUME NEW p \in Player, Reconnect(r, p)  PROVE MatchInv'
  <2>1. "RECONNECT" \in Kinds /\ "AUTH" \in PCs
    BY DEF Kinds, PCs
  <2>2. /\ req' \in [Request -> RequestRecords]
        /\ req'[r].kind = "RECONNECT" /\ req'[r].pc = "AUTH" /\ req'[r].lock = None
        /\ req'[r].who = p
        /\ \A q \in Request : q # r => req'[q] = req[q]
    BY <1>2, <2>1, BeginFields DEF Reconnect
  <2>3. RequestMatches(r)'
    BY <2>2 DEF RequestMatches
  <2>. QED  BY <1>2, <2>2, <2>3, OthersMatch DEF Reconnect, TypeOK, Live
<1>3. ASSUME Done(r), UNCHANGED <<dbVars, lockEntry, sent, historyVars>>,
             owner' \in [Lock -> Request \cup {None}]
      PROVE  MatchInv'
  <2>1. RequestMatches(r)'
    BY <1>3, DoneFields, DoneMatches
  <2>. QED  BY <1>3, <2>1, DoneFields, OthersMatch DEF TypeOK, Live
<1>4. ASSUME NEW pc \in {"AUTHENTICATED", "LOCK_FOR"}, Goto(r, pc),
             req[r].pc \in {"AUTH", "ROOM"}, pc = "AUTHENTICATED" => req[r].pc = "AUTH",
             UNCHANGED <<dbVars, lockVars, sent, historyVars>>
      PROVE  MatchInv'
  <2>1. pc \in PCs
    BY DEF PCs
  <2>2. RequestMatches(r)'
    BY <1>4, <2>1, GotoFields DEF RequestsMatch, RequestMatches, Live
  <2>. QED  BY <1>4, <2>1, <2>2, GotoFields, OthersMatch DEF TypeOK, Live
<1>5. CASE Join(r)
  BY <1>1, <1>5 DEF Join
<1>6. CASE Delete(r)
  BY <1>1, <1>6 DEF Delete
<1>7. CASE AuthRead(r)
  BY <1>3, <1>4, <1>7 DEF AuthRead, TypeOK
<1>8. CASE FindRoom(r)
  BY <1>3, <1>4, <1>8 DEF FindRoom, TypeOK
<1>9. CASE CommandFails(r)
  BY <1>3, <1>9 DEF CommandFails, Unlock, TypeOK
<1>. QED  BY <1>2, <1>5, <1>6, <1>7, <1>8, <1>9

(* The steps that end a request with its unlock, or without one, and change *)
(* the rows.                                                                *)
LEMMA EndsMatch ==
  ASSUME MatchInv, NEW r \in Request, Done(r), owner' \in [Lock -> Request \cup {None}],
         lockEntry' \in Lock \cup {None}, Live' => Live, UNCHANGED sent,
         room' \in [state : RoomStates, revision : Nat], step' \in Nat,
         settings' \in SettingsRecords,
         snapshot' = None \/ snapshot' \in [settings : SettingsRecords, at : Nat],
         row' \in [Player -> RowRecords \cup {None}],
         session' \in [Player -> {"NONE", "VALID", "REVOKED"}],
         processed' \subseteq CommandId, applied' \in [CommandId -> Nat],
         ended' \subseteq Player, overwritten' \subseteq Player
  PROVE  MatchInv'
<1>1. RequestMatches(r)'
  BY DoneFields, DoneMatches DEF MatchInv
<1>2. RequestsMatch'
  BY <1>1, DoneFields, OthersMatch DEF MatchInv
<1>. QED  BY <1>2, DoneFields DEF MatchInv, TypeOK

LEMMA RowsMatch ==
  ASSUME MatchInv, NEW r \in Request, JoinTx(r) \/ ReconnectRow(r) \/ DisconnectRow(r)
  PROVE  MatchInv'
<1>. USE DEF MatchInv, historyVars
<1>1. CASE JoinTx(r)
  <2>1. row' \in [Player -> RowRecords \cup {None}]
    <3>1. CASE row' = row
      BY <3>1 DEF TypeOK
    <3>2. CASE row' # row
      <4> DEFINE new == [role |-> IF Rows = {} THEN "HOST" ELSE "PLAYER",
                         connected |-> TRUE, left |-> FALSE]
      <4>1. row' = [row EXCEPT ![Min(Newcomers)] = new]
        BY <1>1, <3>2 DEF JoinTx
      <4>2. new \in RowRecords
        BY DEF RowRecords
      <4>. HIDE DEF new
      <4>. QED  BY <4>1, <4>2 DEF TypeOK
    <3>. QED  BY <3>1, <3>2
  <2>2. session' \in [Player -> {"NONE", "VALID", "REVOKED"}]
    BY <1>1 DEF JoinTx, TypeOK
  <2>. QED  BY <1>1, <2>1, <2>2, EndsMatch DEF JoinTx, Unlock, TypeOK, Live
<1>2. CASE ReconnectRow(r)
  <2>1. row' \in [Player -> RowRecords \cup {None}]
    <3> DEFINE p == req[r].who
    <3>1. CASE p \in Members
      <4>1. p \in Player /\ row[p] \in RowRecords
        BY <3>1 DEF Members, Rows, TypeOK
      <4>2. [row[p] EXCEPT !.connected = TRUE] \in RowRecords
        BY <4>1 DEF RowRecords
      <4>3. row' = [row EXCEPT ![p] = [row[p] EXCEPT !.connected = TRUE]]
        BY <1>2, <3>1 DEF ReconnectRow
      <4>. QED  BY <4>1, <4>2, <4>3 DEF TypeOK
    <3>2. CASE p \notin Members
      BY <1>2, <3>2 DEF ReconnectRow, TypeOK
    <3>. QED  BY <3>1, <3>2
  <2>. QED  BY <1>2, <2>1, EndsMatch DEF ReconnectRow, Unlock, TypeOK, Live
<1>3. CASE DisconnectRow(r)
  <2>1. req[r].who \in Player /\ req[r].row \in RowRecords
    BY <1>3 DEF DisconnectRow, At, RequestsMatch, RequestMatches
  <2>2. [req[r].row EXCEPT !.connected = FALSE] \in RowRecords
    BY <2>1 DEF RowRecords
  <2>3. row' \in [Player -> RowRecords \cup {None}]
    BY <1>3, <2>1, <2>2 DEF DisconnectRow, TypeOK
  <2>4. overwritten' \subseteq Player
    BY <1>3, <2>1 DEF DisconnectRow, TypeOK
  <2>. QED  BY <1>3, <2>3, <2>4, EndsMatch DEF DisconnectRow, Unlock, TypeOK, Live
<1>. QED  BY <1>1, <1>2, <1>3

(* A command with effect. *)
LEMMA RowsWithoutType ==
  ASSUME TypeOK, NEW p \in Members
  PROVE  RowsWithout(p) \in [Player -> RowRecords \cup {None}]
<1> DEFINE others == Members \ {p}
           handover == row[p].role = "HOST" /\ others # {}
           role(q) == IF ~handover THEN row[q].role
                      ELSE IF q = Min(others) THEN "HOST" ELSE "PLAYER"
<1>1. ASSUME NEW q \in Player, row[q] # None
      PROVE  /\ [role |-> role(q), connected |-> FALSE, left |-> TRUE] \in RowRecords
             /\ [row[q] EXCEPT !.role = role(q)] \in RowRecords
  <2>1. row[q] \in RowRecords
    BY <1>1 DEF TypeOK
  <2>2. role(q) \in {"HOST", "PLAYER"}
    BY <2>1 DEF RowRecords
  <2>. HIDE DEF role
  <2>. QED  BY <2>1, <2>2 DEF RowRecords
<1>2. RowsWithout(p) =
        [q \in Player |->
           IF row[q] = None \/ (q = p /\ room.state = "LOBBY") THEN None
           ELSE IF q = p THEN [role |-> role(q), connected |-> FALSE, left |-> TRUE]
           ELSE [row[q] EXCEPT !.role = role(q)]]
  BY DEF RowsWithout
<1>. HIDE DEF role
<1>. QED  BY <1>1, <1>2

LEMMA EffectTypes ==
  ASSUME TypeOK, NEW cmd \in Command, Permitted(cmd), NEW state \in RoomStates,
         Effect(cmd, state), Live
  PROVE  /\ step' \in Nat
         /\ snapshot' = None \/ snapshot' \in [settings : SettingsRecords, at : Nat]
         /\ row' \in [Player -> RowRecords \cup {None}]
         /\ session' \in [Player -> {"NONE", "VALID", "REVOKED"}]
         /\ ended' \subseteq Player
         /\ state # "DELETED"
<1>1. CASE cmd.type = "START_GAME"
  BY <1>1 DEF Effect, TypeOK
<1>2. CASE cmd.type = "PLAY"
  BY <1>2 DEF Effect, TypeOK
<1>3. CASE cmd.type \in {"LEAVE_ROOM", "KICK_PLAYER"}
  <2> DEFINE p == IF cmd.type = "LEAVE_ROOM" THEN cmd.actor ELSE cmd.target
  <2>1. p \in Members
    BY <1>3 DEF Permitted
  <2>2. p \in Player
    BY <2>1 DEF Members, Rows
  <2>3. /\ state = room.state \/ (room.state = "IN_GAME" /\ state = "CLOSED")
        /\ step' = IF room.state = "LOBBY" THEN 0 ELSE step + 1
        /\ row' = RowsWithout(p)
        /\ session' = SessionsWithout(p)
        /\ ended' = ended \cup {p}
        /\ UNCHANGED snapshot
    BY <1>3 DEF Effect
  <2>. HIDE DEF p
  <2>4. session' \in [Player -> {"NONE", "VALID", "REVOKED"}]
    BY <2>3 DEF SessionsWithout, TypeOK
  <2>. QED  BY <2>1, <2>2, <2>3, <2>4, RowsWithoutType DEF TypeOK, Live
<1>. QED  BY <1>1, <1>2, <1>3 DEF CommandTypes

LEMMA CommandMatch ==
  ASSUME MatchInv, NEW r \in Request, CommandTx(r)
  PROVE  MatchInv'
<1>. USE DEF MatchInv
<1> DEFINE c == req[r].id
<1>1. c \in CommandId /\ sent[c] \in SentRecords
  BY DEF CommandTx, At, RequestsMatch, RequestMatches, TypeOK
<1>2. sent[c].cmd \in Command /\ Live /\ Permitted(sent[c].cmd)
  BY <1>1 DEF CommandTx, CanApply, SentRecords
<1>3. PICK state \in RoomStates :
         /\ Effect(sent[c].cmd, state)
         /\ room' = [state |-> state, revision |-> room.revision + 1]
  BY DEF CommandTx
<1>4. /\ step' \in Nat
      /\ snapshot' = None \/ snapshot' \in [settings : SettingsRecords, at : Nat]
      /\ row' \in [Player -> RowRecords \cup {None}]
      /\ session' \in [Player -> {"NONE", "VALID", "REVOKED"}]
      /\ ended' \subseteq Player
  BY <1>2, <1>3, EffectTypes
<1>5. room' \in [state : RoomStates, revision : Nat]
  BY <1>3 DEF TypeOK
<1>6. processed' \subseteq CommandId /\ applied' \in [CommandId -> Nat]
  BY <1>1 DEF CommandTx, TypeOK
<1>7. /\ Done(r) /\ owner' \in [Lock -> Request \cup {None}]
      /\ UNCHANGED <<settings, lockEntry, sent, overwritten>>
  BY DEF CommandTx, Unlock, TypeOK
<1>. QED  BY <1>2, <1>4, <1>5, <1>6, <1>7, EndsMatch DEF TypeOK

(* The steps of a command before it has the lock. *)
LEMMA ClientsMatch ==
  ASSUME MatchInv, NEW r \in Request,
         Compose(r) \/ \E c \in CommandId : Look(r, c) \/ Resend(r, c)
  PROVE  MatchInv'
<1>. USE DEF MatchInv, dbVars, lockVars, historyVars
<1>1. ASSUME NEW c \in CommandId, Look(r, c)  PROVE MatchInv'
  <2> DEFINE new == [Idle EXCEPT !.kind = "COMMAND", !.pc = "LOOK", !.id = c, !.at = room.revision]
  <2>1. /\ new \in RequestRecords /\ new.kind = "COMMAND" /\ new.pc = "LOOK"
        /\ new.id = c /\ new.lock = None
    BY DEF Idle, RequestRecords, Kinds, TypeOK
  <2>2. req' = [req EXCEPT ![r] = new]
    BY <1>1 DEF Look
  <2>. HIDE DEF new
  <2>3. /\ req' \in [Request -> RequestRecords] /\ req'[r] = new
        /\ \A q \in Request : q # r => req'[q] = req[q]
    BY <2>1, <2>2 DEF TypeOK
  <2>4. RequestMatches(r)'
    BY <2>1, <2>3 DEF RequestMatches
  <2>. QED  BY <1>1, <2>3, <2>4, OthersMatch DEF Look, TypeOK, Live
<1>2. ASSUME NEW c \in CommandId, Resend(r, c)  PROVE MatchInv'
  <2> DEFINE a == sent[c].cmd.actor
             pc == IF a = Admin THEN "ROOM" ELSE "AUTH"
             new == [Idle EXCEPT !.kind = "COMMAND", !.id = c, !.who = a, !.pc = pc]
  <2>1. sent[c] \in SentRecords /\ a \in Player \cup {Admin}
    <3>1. sent[c] \in SentRecords
      BY <1>2 DEF Resend, TypeOK
    <3>2. sent[c].cmd \in Command
      BY <3>1 DEF SentRecords
    <3>. QED  BY <3>1, <3>2
  <2>2. req' = [req EXCEPT ![r] = new]
    BY <1>2 DEF Resend
  <2>3. pc \in {"ROOM", "AUTH"} /\ (pc = "AUTH" => a \in Player)
    BY <2>1
  <2>. HIDE DEF a, pc
  <2>4. /\ new \in RequestRecords /\ new.kind = "COMMAND" /\ new.pc = pc
        /\ new.id = c /\ new.lock = None /\ new.who = a
    BY <2>1, <2>3 DEF Idle, RequestRecords, Kinds
  <2>. HIDE DEF new
  <2>5. /\ req' \in [Request -> RequestRecords] /\ req'[r] = new
        /\ \A q \in Request : q # r => req'[q] = req[q]
    BY <2>2, <2>4 DEF TypeOK
  <2>6. UNCHANGED sent /\ sent[c] # None
    BY <1>2 DEF Resend
  <2>7. RequestMatches(r)'
    BY <2>3, <2>4, <2>5, <2>6 DEF RequestMatches
  <2>. QED  BY <1>2, <2>5, <2>7, OthersMatch DEF Resend, TypeOK, Live
<1>3. ASSUME Compose(r)  PROVE MatchInv'
  <2>1. PICK cmd \in Command :
          /\ sent' = [sent EXCEPT ![req[r].id] =
                        [cmd |-> cmd,
                         expected |-> IF cmd.blind THEN AnyRevision ELSE req[r].at,
                         saw |-> step]]
          /\ req' = [req EXCEPT ![r].who = cmd.actor, ![r].at = 0,
                                ![r].pc = IF cmd.actor = Admin THEN "ROOM" ELSE "AUTH"]
    BY <1>3 DEF Compose
  <2> DEFINE pc == IF cmd.actor = Admin THEN "ROOM" ELSE "AUTH"
             new == [req[r] EXCEPT !.who = cmd.actor, !.at = 0, !.pc = pc]
             entry == [cmd |-> cmd,
                       expected |-> IF cmd.blind THEN AnyRevision ELSE req[r].at,
                       saw |-> step]
  <2>2. req' = [req EXCEPT ![r] = new]
    BY <2>1
  <2>3. /\ req[r] \in RequestRecords /\ req[r].kind = "COMMAND" /\ req[r].id \in CommandId
        /\ req[r].lock = None /\ cmd.actor \in Player \cup {Admin} /\ step \in Nat
    BY <1>3 DEF Compose, At, TypeOK, RequestsMatch, RequestMatches
  <2>4. entry \in SentRecords
    <3>1. req[r].at \in Nat
      BY <2>3 DEF RequestRecords
    <3>. QED  BY <2>3, <3>1 DEF SentRecords
  <2>5. pc \in {"ROOM", "AUTH"} /\ (pc = "AUTH" => cmd.actor \in Player)
    BY <2>3
  <2>. HIDE DEF pc, entry
  <2>6. /\ new \in RequestRecords /\ new.kind = "COMMAND" /\ new.pc = pc
        /\ new.id = req[r].id /\ new.lock = None /\ new.who = cmd.actor
    BY <2>3, <2>5 DEF RequestRecords
  <2>. HIDE DEF new
  <2>7. /\ req' \in [Request -> RequestRecords] /\ req'[r] = new
        /\ \A q \in Request : q # r => req'[q] = req[q]
    BY <2>2, <2>6 DEF TypeOK
  <2>8. sent' = [sent EXCEPT ![req[r].id] = entry] /\ entry # None
    BY <2>1, <2>4 DEF entry
  <2>9. /\ sent' \in [CommandId -> SentRecords \cup {None}]
        /\ \A c \in CommandId : sent[c] # None \/ c = req[r].id => sent'[c] # None
    BY <2>3, <2>4, <2>8 DEF TypeOK
  <2>10. RequestMatches(r)'
    BY <2>3, <2>5, <2>6, <2>7, <2>9 DEF RequestMatches
  <2>. QED  BY <1>3, <2>7, <2>9, <2>10, OthersMatch DEF Compose, TypeOK, Live
<1>. QED  BY <1>1, <1>2, <1>3

(* The locks. *)
LEMMA LocksMatch ==
  ASSUME MatchInv, NEW r \in Request, LockFor(r) \/ Acquire(r) \/ Forget(r)
  PROVE  MatchInv'
<1>. USE DEF MatchInv, dbVars, historyVars
<1>1. CASE LockFor(r)
  <2> DEFINE l == IF lockEntry = None THEN FreeLock ELSE lockEntry
             new == [req[r] EXCEPT !.lock = l, !.pc = "LOCK"]
  <2>1. l \in Lock
    BY FreeLockIsFree DEF TypeOK
  <2>2. req' = [req EXCEPT ![r] = new] /\ lockEntry' = l
    BY <1>1 DEF LockFor
  <2>. HIDE DEF l
  <2>3. req[r] \in RequestRecords /\ req[r].pc = "LOCK_FOR" /\ RequestMatches(r)
    BY <1>1 DEF LockFor, TypeOK, RequestsMatch
  <2>4. /\ new \in RequestRecords /\ new.kind = req[r].kind /\ new.pc = "LOCK"
        /\ new.id = req[r].id /\ new.lock = l /\ new.who = req[r].who
        /\ new.row = req[r].row /\ new.settings = req[r].settings
    BY <2>1, <2>3 DEF RequestRecords
  <2>. HIDE DEF new
  <2>5. /\ req' \in [Request -> RequestRecords] /\ req'[r] = new
        /\ \A q \in Request : q # r => req'[q] = req[q]
    BY <2>2, <2>4 DEF TypeOK
  <2>6. UNCHANGED sent
    BY <1>1 DEF LockFor
  <2>7. RequestMatches(r)'
    BY <2>1, <2>3, <2>4, <2>5, <2>6 DEF RequestMatches
  <2>. QED  BY <1>1, <2>1, <2>2, <2>5, <2>7, OthersMatch DEF LockFor, TypeOK, Live
<1>2. CASE Acquire(r)
  <2>1. "INSIDE" \in PCs
    BY DEF PCs
  <2>2. req[r].pc = "LOCK" /\ RequestMatches(r) /\ UNCHANGED <<sent, room>>
    BY <1>2 DEF Acquire, RequestsMatch
  <2>3. RequestMatches(r)'
    BY <1>2, <2>1, <2>2, GotoFields DEF Acquire, RequestMatches
  <2>4. owner' \in [Lock -> Request \cup {None}]
    BY <1>2 DEF Acquire, TypeOK
  <2>. QED  BY <1>2, <2>1, <2>3, <2>4, GotoFields, OthersMatch DEF Acquire, TypeOK, Live
<1>3. CASE Forget(r)
  BY <1>3, EndsMatch DEF Forget, Unlock, TypeOK, Live
<1>. QED  BY <1>1, <1>2, <1>3

(* The settings: a patch is merged over them and validated. *)
LEMMA SettingsMatch ==
  ASSUME MatchInv, NEW r \in Request,
         ReadSettings(r) \/ CheckLobby(r) \/ WriteSettings(r)
  PROVE  MatchInv'
<1>. USE DEF MatchInv, dbVars, lockVars, historyVars
<1>1. CASE ReadSettings(r)
  <2>1. PICK patch \in Patches :
          LET merged == [f \in DOMAIN settings |->
                          IF f \in DOMAIN patch THEN patch[f] ELSE settings[f]]
          IN /\ Valid(merged)
             /\ req' = [req EXCEPT ![r] = [Idle EXCEPT !.kind = "SETTINGS", !.pc = "CHECK",
                                                       !.settings = merged]]
    BY <1>1 DEF ReadSettings
  <2> DEFINE merged == [f \in DOMAIN settings |->
                          IF f \in DOMAIN patch THEN patch[f] ELSE settings[f]]
             new == [Idle EXCEPT !.kind = "SETTINGS", !.pc = "CHECK", !.settings = merged]
  <2>2. Valid(merged) /\ req' = [req EXCEPT ![r] = new]
    BY <2>1
  <2>3. DOMAIN settings = {"cap", "other"} /\ settings \in SettingsRecords
    BY DEF TypeOK, SettingsRecords
  <2>4. merged["cap"] \in ValidCaps
    BY <2>2 DEF Valid
  <2>5. merged["other"] \in {0, 1}
    <3>1. merged["other"] = IF "other" \in DOMAIN patch THEN patch["other"] ELSE settings["other"]
      BY <2>3
    <3>2. settings["other"] \in {0, 1}
      BY <2>3 DEF SettingsRecords
    <3>3. "other" \in DOMAIN patch => patch["other"] \in {0, 1}
      BY <2>1 DEF Patches
    <3>. QED  BY <3>1, <3>2, <3>3
  <2>6. merged \in SettingsRecords
    <3>1. merged = [cap |-> merged["cap"], other |-> merged["other"]]
      BY <2>3
    <3>. HIDE DEF merged
    <3>. QED  BY <2>4, <2>5, <3>1 DEF SettingsRecords
  <2>. HIDE DEF merged
  <2>7. /\ new \in RequestRecords /\ new.kind = "SETTINGS" /\ new.pc = "CHECK"
        /\ new.lock = None /\ new.settings = merged
    BY <2>6 DEF Idle, RequestRecords, Kinds
  <2>. HIDE DEF new
  <2>8. /\ req' \in [Request -> RequestRecords] /\ req'[r] = new
        /\ \A q \in Request : q # r => req'[q] = req[q]
    BY <2>2, <2>7 DEF TypeOK
  <2>9. RequestMatches(r)'
    BY <2>6, <2>7, <2>8 DEF RequestMatches
  <2>. QED  BY <1>1, <2>8, <2>9, OthersMatch DEF ReadSettings, TypeOK, Live
<1>2. CASE CheckLobby(r)
  <2>1. CASE Done(r)
    BY <1>2, <2>1, EndsMatch DEF CheckLobby, TypeOK, Live
  <2>2. CASE req' = [req EXCEPT ![r].pc = "WRITE", ![r].at = room.revision]
    <3> DEFINE new == [req[r] EXCEPT !.pc = "WRITE", !.at = room.revision]
    <3>1. /\ req[r] \in RequestRecords /\ req[r].kind = "SETTINGS" /\ req[r].pc = "CHECK"
          /\ RequestMatches(r) /\ room.revision \in Nat
      BY <1>2 DEF CheckLobby, At, TypeOK, RequestsMatch
    <3>2. /\ new \in RequestRecords /\ new.kind = "SETTINGS" /\ new.pc = "WRITE"
          /\ new.lock = req[r].lock /\ new.settings = req[r].settings
      BY <3>1 DEF RequestRecords
    <3>3. req' = [req EXCEPT ![r] = new]
      BY <2>2
    <3>. HIDE DEF new
    <3>4. /\ req' \in [Request -> RequestRecords] /\ req'[r] = new
          /\ \A q \in Request : q # r => req'[q] = req[q]
      BY <3>2, <3>3 DEF TypeOK
    <3>5. RequestMatches(r)'
      BY <3>1, <3>2, <3>4 DEF RequestMatches
    <3>. QED  BY <1>2, <3>4, <3>5, OthersMatch DEF CheckLobby, TypeOK, Live
  <2>. QED  BY <1>2, <2>1, <2>2 DEF CheckLobby
<1>3. CASE WriteSettings(r)
  <2>1. settings' \in SettingsRecords
    BY <1>3 DEF WriteSettings, At, RequestsMatch, RequestMatches, TypeOK
  <2>. QED  BY <1>3, <2>1, EndsMatch DEF WriteSettings, TypeOK, Live
<1>. QED  BY <1>1, <1>2, <1>3

LEMMA OtherStepsMatch ==
  ASSUME MatchInv, NEW r \in Request,
         AuthWrite(r) \/ DeleteTx(r) \/ \E p \in Player : Disconnect(r, p)
  PROVE  MatchInv'
<1>. USE DEF MatchInv, dbVars, lockVars, historyVars
<1>1. CASE AuthWrite(r)
  <2>1. "ROOM" \in PCs
    BY DEF PCs
  <2>2. req[r].pc = "AUTHENTICATED" /\ RequestMatches(r) /\ UNCHANGED <<sent, room>>
    BY <1>1 DEF AuthWrite, RequestsMatch
  <2>3. RequestMatches(r)'
    BY <1>1, <2>1, <2>2, GotoFields DEF AuthWrite, RequestMatches
  <2>4. req[r].who \in Player
    BY <2>2 DEF RequestMatches
  <2>5. session' \in [Player -> {"NONE", "VALID", "REVOKED"}] /\ overwritten' \subseteq Player
    BY <1>1, <2>4 DEF AuthWrite, TypeOK
  <2>. QED  BY <1>1, <2>1, <2>3, <2>5, GotoFields, OthersMatch DEF AuthWrite, TypeOK, Live
<1>2. CASE DeleteTx(r)
  <2>1. "FORGET" \in PCs
    BY DEF PCs
  <2>2. /\ req[r].pc = "INSIDE" /\ req[r].kind = "DELETE" /\ RequestMatches(r)
        /\ UNCHANGED sent
    BY <1>2 DEF DeleteTx, At, RequestsMatch
  <2>3. room' \in [state : RoomStates, revision : Nat] /\ ~Live'
    BY <1>2 DEF DeleteTx, TypeOK, RoomStates, Live
  <2>4. RequestMatches(r)'
    BY <1>2, <2>1, <2>2, <2>3, GotoFields DEF DeleteTx, RequestMatches
  <2>. QED  BY <1>2, <2>1, <2>3, <2>4, GotoFields, OthersMatch DEF DeleteTx, TypeOK
<1>3. ASSUME NEW p \in Player, Disconnect(r, p)  PROVE MatchInv'
  <2> DEFINE new == [Idle EXCEPT !.kind = "DISCONNECT", !.who = p,
                                 !.pc = "LOCK_FOR", !.row = row[p]]
  <2>1. row[p] \in RowRecords
    BY <1>3 DEF Disconnect, Rows, TypeOK
  <2>2. /\ new \in RequestRecords /\ new.kind = "DISCONNECT" /\ new.pc = "LOCK_FOR"
        /\ new.lock = None /\ new.who = p /\ new.row = row[p]
    BY <2>1 DEF Idle, RequestRecords, Kinds
  <2>3. req' = [req EXCEPT ![r] = new]
    BY <1>3 DEF Disconnect
  <2>. HIDE DEF new
  <2>4. /\ req' \in [Request -> RequestRecords] /\ req'[r] = new
        /\ \A q \in Request : q # r => req'[q] = req[q]
    BY <2>2, <2>3 DEF TypeOK
  <2>5. RequestMatches(r)'
    BY <2>1, <2>2, <2>4 DEF RequestMatches
  <2>. QED  BY <1>3, <2>4, <2>5, OthersMatch DEF Disconnect, TypeOK, Live
<1>. QED  BY <1>1, <1>2, <1>3

LEMMA CrashMatches ==
  ASSUME MatchInv, Crash
  PROVE  MatchInv'
<1>1. RequestsMatch'
  BY IdleFields DEF Crash, RequestsMatch, RequestMatches
<1>2. /\ req' \in [Request -> RequestRecords]
      /\ owner' \in [Lock -> Request \cup {None}]
  BY IdleFields DEF Crash
<1>. QED  BY <1>1, <1>2 DEF Crash, MatchInv, TypeOK, dbVars, historyVars

LEMMA MatchStep == MatchInv /\ [Next]_vars => MatchInv'
<1>. SUFFICES ASSUME MatchInv, [Next]_vars  PROVE MatchInv'
  OBVIOUS
<1>1. CASE UNCHANGED vars
  BY <1>1 DEF MatchInv, TypeOK, RequestsMatch, RequestMatches, Live, vars, dbVars, lockVars,
              historyVars
<1>2. ASSUME NEW r \in Request, Arrive(r) \/ Proceed(r)  PROVE MatchInv'
  BY <1>2, MovesMatch, RowsMatch, CommandMatch, ClientsMatch, LocksMatch, SettingsMatch,
     OtherStepsMatch DEF Arrive, Proceed
<1>. QED  BY <1>1, <1>2, CrashMatches DEF Next

LEMMA MatchInvariant == Spec => []MatchInv
BY MatchInit, MatchStep, PTL DEF Spec

(* The rows, the locks and the requests keep their types, and the stored    *)
(* settings stay valid.                                                     *)
THEOREM CoordinatorTypeCorrect == Spec => []TypeOK
<1>1. MatchInv => TypeOK
  BY DEF MatchInv
<1>. QED  BY <1>1, MatchInvariant, PTL

-----------------------------------------------------------------------------
(* The room lock.                                                          *)

Locked == {"LOCK", "INSIDE", "FORGET"}

(* Each lock is held by the request inside that has it in hand, and whoever *)
(* is inside holds theirs. *)
HoldersAreInside ==
  /\ \A l \in Lock : owner[l] # None =>
       owner[l] \in Request /\ Inside(owner[l]) /\ req[owner[l]].lock = l
  /\ \A r \in Request : Inside(r) => owner[req[r].lock] = r

(* While the room exists, its lock is the only one in use. *)
OneLockInUse ==
  Live => \A r \in Request : req[r].lock # None => req[r].lock = lockEntry

LockInv == HoldersAreInside /\ OneLockInUse

(* A step of a request that neither has a lock in hand nor takes one. *)
Outside(r) ==
  \/ Arrive(r)
  \/ AuthRead(r) \/ AuthWrite(r) \/ FindRoom(r) \/ Compose(r)
  \/ CheckLobby(r) \/ WriteSettings(r)

(* Where the steps of a request lead. *)
LEMMA NextPc ==
  ASSUME MatchInv, NEW r \in Request, Arrive(r) \/ Proceed(r)
  PROVE  /\ (\E c \in CommandId : Look(r, c)) => req'[r].pc = "LOOK"
         /\ CheckLobby(r) => req'[r].pc \in {"IDLE", "WRITE"}
         /\ Outside(r) /\ ~CheckLobby(r) /\ ~(\E c \in CommandId : Look(r, c)) =>
              req'[r].pc \in {"IDLE", "AUTH", "AUTHENTICATED", "ROOM", "LOCK_FOR", "CHECK"}
         /\ ~Outside(r) => req'[r].pc \in {"IDLE", "LOCK", "INSIDE", "FORGET"}
<1>. USE DEF MatchInv
<1>1. ASSUME Join(r) \/ Delete(r) \/ \E p \in Player : Reconnect(r, p)
      PROVE  req'[r].pc \in {"ROOM", "AUTH"}
  <2>1. PICK kind \in Kinds, pc \in {"ROOM", "AUTH"}, who \in Player \cup {Admin} :
          Begin(r, kind, pc, who)
    BY <1>1 DEF Join, Delete, Reconnect, Kinds
  <2>2. pc \in PCs
    BY DEF PCs
  <2>. QED  BY <2>1, <2>2, BeginFields
<1>2. ASSUME NEW p \in Player, Disconnect(r, p)  PROVE req'[r].pc = "LOCK_FOR"
  <2> DEFINE new == [Idle EXCEPT !.kind = "DISCONNECT", !.who = p,
                                 !.pc = "LOCK_FOR", !.row = row[p]]
  <2>1. req' = [req EXCEPT ![r] = new] /\ new.pc = "LOCK_FOR"
    BY <1>2 DEF Disconnect, Idle
  <2>. HIDE DEF new
  <2>. QED  BY <2>1 DEF TypeOK
<1>3. ASSUME NEW c \in CommandId, Look(r, c)  PROVE req'[r].pc = "LOOK"
  <2> DEFINE new == [Idle EXCEPT !.kind = "COMMAND", !.pc = "LOOK", !.id = c,
                                 !.at = room.revision]
  <2>1. req' = [req EXCEPT ![r] = new] /\ new.pc = "LOOK"
    BY <1>3 DEF Look, Idle
  <2>. HIDE DEF new
  <2>. QED  BY <2>1 DEF TypeOK
<1>4. ASSUME NEW c \in CommandId, Resend(r, c)  PROVE req'[r].pc \in {"ROOM", "AUTH"}
  <2> DEFINE a == sent[c].cmd.actor
             pc == IF a = Admin THEN "ROOM" ELSE "AUTH"
             new == [Idle EXCEPT !.kind = "COMMAND", !.id = c, !.who = a, !.pc = pc]
  <2>1. req' = [req EXCEPT ![r] = new] /\ new.pc = pc /\ pc \in {"ROOM", "AUTH"}
    BY <1>4 DEF Resend, Idle
  <2>. HIDE DEF new, pc
  <2>. QED  BY <2>1 DEF TypeOK
<1>5. ASSUME ReadSettings(r)  PROVE req'[r].pc = "CHECK"
  <2>1. PICK s : req' = [req EXCEPT ![r] = [Idle EXCEPT !.kind = "SETTINGS", !.pc = "CHECK",
                                                        !.settings = s]]
    BY <1>5 DEF ReadSettings
  <2> DEFINE new == [Idle EXCEPT !.kind = "SETTINGS", !.pc = "CHECK", !.settings = s]
  <2>2. req' = [req EXCEPT ![r] = new] /\ new.pc = "CHECK"
    BY <2>1 DEF Idle
  <2>. HIDE DEF new
  <2>. QED  BY <2>2 DEF TypeOK
<1>6. ASSUME AuthRead(r) \/ FindRoom(r) \/ AuthWrite(r) \/ WriteSettings(r)
      PROVE  req'[r].pc \in {"IDLE", "AUTHENTICATED", "ROOM", "LOCK_FOR"}
  <2>1. Done(r) \/ \E pc \in {"AUTHENTICATED", "ROOM", "LOCK_FOR"} : Goto(r, pc)
    BY <1>6 DEF AuthRead, FindRoom, AuthWrite, WriteSettings
  <2>2. {"AUTHENTICATED", "ROOM", "LOCK_FOR"} \subseteq PCs
    BY DEF PCs
  <2>. QED  BY <2>1, <2>2, DoneFields, GotoFields, IdleFields
<1>7. ASSUME Compose(r)  PROVE req'[r].pc \in {"ROOM", "AUTH"}
  <2>1. req[r] \in RequestRecords
    BY DEF TypeOK
  <2>. QED  BY <1>7, <2>1 DEF Compose, TypeOK, RequestRecords
<1>8. ASSUME CheckLobby(r)  PROVE req'[r].pc \in {"IDLE", "WRITE"}
  <2>1. CASE Done(r)
    BY <2>1, DoneFields, IdleFields
  <2>2. CASE req' = [req EXCEPT ![r].pc = "WRITE", ![r].at = room.revision]
    <3>1. req[r] \in RequestRecords
      BY DEF TypeOK
    <3>. QED  BY <2>2, <3>1 DEF TypeOK, RequestRecords
  <2>. QED  BY <1>8, <2>1, <2>2 DEF CheckLobby
<1>9. ASSUME ~Outside(r)  PROVE req'[r].pc \in {"IDLE", "LOCK", "INSIDE", "FORGET"}
  <2>1. CASE LockFor(r)
    <3>1. req[r] \in RequestRecords
      BY DEF TypeOK
    <3>. QED  BY <2>1, <3>1 DEF LockFor, TypeOK, RequestRecords
  <2>2. CASE Acquire(r) \/ DeleteTx(r)
    <3>1. {"INSIDE", "FORGET"} \subseteq PCs
      BY DEF PCs
    <3>. QED  BY <2>2, <3>1, GotoFields DEF Acquire, DeleteTx
  <2>3. CASE \/ JoinTx(r) \/ ReconnectRow(r) \/ DisconnectRow(r)
            \/ CommandTx(r) \/ CommandFails(r) \/ Forget(r)
    BY <2>3, DoneFields, IdleFields
       DEF JoinTx, ReconnectRow, DisconnectRow, CommandTx, CommandFails, Forget, Unlock
  <2>. QED  BY <1>9, <2>1, <2>2, <2>3 DEF Outside, Proceed
<1>10. Outside(r) /\ ~CheckLobby(r) /\ ~(\E c \in CommandId : Look(r, c)) =>
         req'[r].pc \in {"IDLE", "AUTH", "AUTHENTICATED", "ROOM", "LOCK_FOR", "CHECK"}
  BY <1>1, <1>2, <1>4, <1>5, <1>6, <1>7 DEF Outside, Arrive
<1>. QED  BY <1>3, <1>8, <1>9, <1>10

(* The other requests keep what they have. *)
LEMMA OthersKeep ==
  ASSUME MatchInv, NEW r \in Request, Arrive(r) \/ Proceed(r),
         NEW q \in Request, q # r
  PROVE  req'[q] = req[q]
<1>1. CASE Arrive(r)
  BY <1>1 DEF Arrive, Join, Reconnect, Disconnect, Look, Resend, ReadSettings, Delete, Begin,
              MatchInv, TypeOK
<1>2. CASE Proceed(r)
  BY <1>2 DEF Proceed, AuthRead, AuthWrite, FindRoom, LockFor, Acquire, JoinTx, ReconnectRow,
              DisconnectRow, Compose, CommandTx, CommandFails, CheckLobby, WriteSettings,
              DeleteTx, Forget, Goto, Done, Unlock, MatchInv, TypeOK
<1>. QED  BY <1>1, <1>2

LEMMA OutsideSteps ==
  ASSUME MatchInv, NEW r \in Request, Outside(r)
  PROVE  /\ req[r].pc \notin Locked /\ req'[r].pc \notin Locked
         /\ UNCHANGED <<lockVars, room, step, snapshot, processed, applied>>
<1>. USE DEF MatchInv, dbVars, lockVars, historyVars, Locked
<1>1. UNCHANGED <<lockVars, room, step, snapshot, processed, applied>>
  BY DEF Outside, Arrive, Join, Reconnect, Disconnect, Look, Resend, ReadSettings, Delete,
         AuthRead, AuthWrite, FindRoom, Compose, CheckLobby, WriteSettings
<1>2. req[r].pc \notin Locked
  BY IdleFields DEF Outside, Arrive, Join, Reconnect, Disconnect, Look, Resend, ReadSettings,
         Delete, AuthRead, AuthWrite, FindRoom, Compose, CheckLobby, WriteSettings, Begin, At
<1>3. Arrive(r) \/ Proceed(r)
  BY DEF Outside, Proceed
<1>4. req'[r].pc \notin Locked
  BY <1>3, NextPc
<1>. QED  BY <1>1, <1>2, <1>4

(* A step that ends a request with its unlock: nobody else's lock changes   *)
(* hands.                                                                   *)
LEMMA UnlockLocks ==
  ASSUME MatchInv, LockInv, NEW r \in Request, Inside(r), Unlock(r),
         (lockEntry' = lockEntry /\ (Live' => Live)) \/ ~Live'
  PROVE  LockInv'
<1>. USE DEF MatchInv, LockInv
<1>1. /\ req'[r] = Idle /\ \A q \in Request : q # r => req'[q] = req[q]
      /\ owner' = [owner EXCEPT ![req[r].lock] = None]
  BY DoneFields DEF Unlock
<1>2. ~Inside(r)' /\ req'[r].lock = None
  BY <1>1, IdleFields DEF Inside
<1>3. \A q \in Request : Inside(q) => req[q].lock \in Lock /\ owner[req[q].lock] = q
  BY DEF Inside, RequestsMatch, RequestMatches, TypeOK, RequestRecords, HoldersAreInside
<1>4. \A q \in Request : q # r => (Inside(q)' <=> Inside(q))
  BY <1>1 DEF Inside
<1>5. HoldersAreInside'
  <2>1. ASSUME NEW l \in Lock, owner'[l] # None
        PROVE  (owner[l] \in Request /\ Inside(owner[l]) /\ req[owner[l]].lock = l)'
    <3>1. l # req[r].lock /\ owner'[l] = owner[l]
      BY <1>1, <1>3, <2>1 DEF TypeOK
    <3>2. owner[l] \in Request /\ Inside(owner[l]) /\ req[owner[l]].lock = l
      BY <2>1, <3>1 DEF HoldersAreInside
    <3>3. owner[l] # r
      BY <3>1, <3>2
    <3>. QED  BY <1>1, <3>1, <3>2, <3>3 DEF Inside
  <2>2. ASSUME NEW q \in Request, Inside(q)'  PROVE owner'[req'[q].lock] = q
    <3>1. q # r /\ req'[q] = req[q] /\ Inside(q)
      BY <1>1, <1>2, <1>4, <2>2
    <3>2. req[q].lock \in Lock /\ owner[req[q].lock] = q
      BY <1>3, <3>1
    <3>3. owner[req[r].lock] = r
      BY <1>3
    <3>. QED  BY <1>1, <3>1, <3>2, <3>3 DEF TypeOK
  <2>. QED  BY <2>1, <2>2 DEF HoldersAreInside
<1>6. OneLockInUse'
  BY <1>1, <1>2 DEF OneLockInUse
<1>. QED  BY <1>5, <1>6

LEMMA LockStep == MatchInv /\ LockInv /\ [Next]_vars => LockInv'
<1>. SUFFICES ASSUME MatchInv, LockInv, [Next]_vars  PROVE LockInv'
  OBVIOUS
<1>. USE DEF MatchInv, LockInv
<1>1. CASE UNCHANGED vars
  BY <1>1 DEF HoldersAreInside, OneLockInUse, Inside, Live, vars, dbVars, lockVars
<1>2. CASE Crash
  BY <1>2, IdleFields DEF Crash, HoldersAreInside, OneLockInUse, Inside
<1>3. ASSUME NEW r \in Request, Outside(r)  PROVE LockInv'
  <2>1. /\ req[r].pc \notin Locked /\ req'[r].pc \notin Locked
        /\ \A q \in Request : q # r => req'[q] = req[q]
        /\ UNCHANGED <<lockEntry, owner, room>>
    <3>1. Arrive(r) \/ Proceed(r)
      BY <1>3 DEF Outside, Proceed
    <3>. QED  BY <1>3, <3>1, OutsideSteps, OthersKeep DEF lockVars
  <2>2. ~Inside(r) /\ ~Inside(r)'
    BY <2>1 DEF Inside, Locked
  <2>3. MatchInv'
    BY MatchStep DEF MatchInv
  <2>4. req'[r].lock = None
    BY <2>1, <2>3 DEF RequestsMatch, RequestMatches, Locked
  <2>5. HoldersAreInside'
    <3>1. ASSUME NEW l \in Lock, owner'[l] # None
          PROVE  (owner[l] \in Request /\ Inside(owner[l]) /\ req[owner[l]].lock = l)'
      BY <2>1, <2>2, <3>1 DEF HoldersAreInside, Inside
    <3>2. ASSUME NEW q \in Request, Inside(q)'  PROVE owner'[req'[q].lock] = q
      BY <2>1, <2>2, <3>2 DEF HoldersAreInside, Inside
    <3>. QED  BY <3>1, <3>2 DEF HoldersAreInside
  <2>6. OneLockInUse'
    BY <2>1, <2>4 DEF OneLockInUse, Live
  <2>. QED  BY <2>5, <2>6
<1>4. ASSUME NEW r \in Request, LockFor(r)  PROVE LockInv'
  <2> DEFINE l == IF lockEntry = None THEN FreeLock ELSE lockEntry
  <2>1. l \in Lock
    BY FreeLockIsFree DEF TypeOK
  <2>2. /\ req[r].pc = "LOCK_FOR" /\ req' = [req EXCEPT ![r].lock = l, ![r].pc = "LOCK"]
        /\ lockEntry' = l /\ UNCHANGED <<owner, room>>
    BY <1>4 DEF LockFor, dbVars
  <2>3. req[r] \in RequestRecords
    BY DEF TypeOK
  <2>4. lockEntry # None => l = lockEntry
    OBVIOUS
  <2>. HIDE DEF l
  <2>5. /\ req'[r].lock = l /\ req'[r].pc = "LOCK"
        /\ \A q \in Request : q # r => req'[q] = req[q]
    <3> DEFINE new == [req[r] EXCEPT !.lock = l, !.pc = "LOCK"]
    <3>1. req' = [req EXCEPT ![r] = new]
      BY <2>2
    <3>2. new.lock = l /\ new.pc = "LOCK"
      BY <2>3 DEF RequestRecords
    <3>. HIDE DEF new
    <3>. QED  BY <3>1, <3>2 DEF TypeOK
  <2>6. ~Inside(r) /\ ~Inside(r)'
    BY <2>2, <2>5 DEF Inside
  <2>7. HoldersAreInside'
    <3>1. ASSUME NEW k \in Lock, owner'[k] # None
          PROVE  (owner[k] \in Request /\ Inside(owner[k]) /\ req[owner[k]].lock = k)'
      <4>1. /\ owner'[k] = owner[k] /\ owner[k] \in Request
            /\ Inside(owner[k]) /\ req[owner[k]].lock = k
        BY <2>2, <3>1 DEF HoldersAreInside
      <4>2. owner[k] # r
        BY <2>6, <4>1
      <4>. QED  BY <2>5, <4>1, <4>2 DEF Inside
    <3>2. ASSUME NEW q \in Request, Inside(q)'  PROVE owner'[req'[q].lock] = q
      BY <2>2, <2>5, <2>6, <3>2 DEF HoldersAreInside, Inside
    <3>. QED  BY <3>1, <3>2 DEF HoldersAreInside
  <2>8. OneLockInUse'
    <3>. SUFFICES ASSUME Live, NEW q \in Request, q # r, req[q].lock # None
                  PROVE  req[q].lock = l
      BY <2>2, <2>5 DEF OneLockInUse, Live
    <3>1. req[q].lock = lockEntry
      BY DEF OneLockInUse
    <3>. QED  BY <2>4, <3>1
  <2>. QED  BY <2>7, <2>8
<1>5. ASSUME NEW r \in Request, Acquire(r)  PROVE LockInv'
  <2>1. "INSIDE" \in PCs
    BY DEF PCs
  <2>2. /\ req[r].pc = "LOCK" /\ owner[req[r].lock] = None
        /\ owner' = [owner EXCEPT ![req[r].lock] = r]
        /\ UNCHANGED <<lockEntry, room>>
    BY <1>5 DEF Acquire, dbVars
  <2>3. /\ req'[r].pc = "INSIDE" /\ req'[r].lock = req[r].lock
        /\ \A q \in Request : q # r => req'[q] = req[q]
    BY <1>5, <2>1, GotoFields DEF Acquire
  <2>4. req[r].lock \in Lock
    <3>1. req[r].lock # None /\ req[r] \in RequestRecords
      BY <2>2 DEF RequestsMatch, RequestMatches, TypeOK
    <3>. QED  BY <3>1 DEF RequestRecords
  <2>5. HoldersAreInside'
    <3>1. ASSUME NEW l \in Lock, owner'[l] # None
          PROVE  (owner[l] \in Request /\ Inside(owner[l]) /\ req[owner[l]].lock = l)'
      <4>1. CASE l = req[r].lock
        BY <2>2, <2>3, <2>4, <4>1 DEF TypeOK, Inside
      <4>2. CASE l # req[r].lock
        <5>1. owner'[l] = owner[l]
          BY <2>2, <4>2 DEF TypeOK
        <5>2. owner[l] \in Request /\ Inside(owner[l]) /\ req[owner[l]].lock = l
          BY <3>1, <5>1 DEF HoldersAreInside
        <5>3. owner[l] # r
          BY <4>2, <5>2
        <5>. QED  BY <2>3, <5>1, <5>2, <5>3 DEF Inside
      <4>. QED  BY <4>1, <4>2
    <3>2. ASSUME NEW q \in Request, Inside(q)'  PROVE owner'[req'[q].lock] = q
      <4>1. CASE q = r
        BY <2>2, <2>3, <2>4, <4>1 DEF TypeOK
      <4>2. CASE q # r
        <5>1. req'[q] = req[q] /\ owner[req[q].lock] = q
          BY <2>3, <3>2, <4>2 DEF HoldersAreInside, Inside
        <5>2. q # None /\ req[q].lock # req[r].lock
          BY <2>2, <5>1
        <5>3. req[q].lock \in Lock
          <6>1. req[q].pc \in {"INSIDE", "FORGET"}
            BY <3>2, <5>1 DEF Inside
          <6>2. req[q].lock # None /\ req[q] \in RequestRecords
            BY <6>1 DEF RequestsMatch, RequestMatches, TypeOK
          <6>. QED  BY <6>2 DEF RequestRecords
        <5>. QED  BY <2>2, <5>1, <5>2, <5>3 DEF TypeOK
      <4>. QED  BY <4>1, <4>2
    <3>. QED  BY <3>1, <3>2 DEF HoldersAreInside
  <2>6. OneLockInUse'
    BY <2>2, <2>3 DEF OneLockInUse, Live
  <2>. QED  BY <2>5, <2>6
<1>6. ASSUME NEW r \in Request,
             JoinTx(r) \/ ReconnectRow(r) \/ DisconnectRow(r) \/ CommandFails(r)
      PROVE  LockInv'
  BY <1>6, UnlockLocks DEF JoinTx, ReconnectRow, DisconnectRow, CommandFails, At, Inside,
                           Live, dbVars
<1>7. ASSUME NEW r \in Request, CommandTx(r)  PROVE LockInv'
  <2>1. Live /\ Inside(r) /\ Unlock(r) /\ lockEntry' = lockEntry
    BY <1>7 DEF CommandTx, CanApply, At, Inside
  <2>. QED  BY <2>1, UnlockLocks
<1>8. ASSUME NEW r \in Request, Forget(r)  PROVE LockInv'
  <2>1. ~Live'
    BY <1>8 DEF Forget, At, RequestsMatch, RequestMatches, Live, dbVars
  <2>. QED  BY <1>8, <2>1, UnlockLocks DEF Forget, At, Inside
<1>9. ASSUME NEW r \in Request, DeleteTx(r)  PROVE LockInv'
  <2>1. "FORGET" \in PCs
    BY DEF PCs
  <2>2. /\ req[r].pc = "INSIDE" /\ ~Live' /\ UNCHANGED <<lockEntry, owner>>
    BY <1>9 DEF DeleteTx, At, Live, TypeOK, lockVars
  <2>3. /\ req'[r].pc = "FORGET" /\ req'[r].lock = req[r].lock
        /\ \A q \in Request : q # r => req'[q] = req[q]
    BY <1>9, <2>1, GotoFields DEF DeleteTx
  <2>4. \A q \in Request : (Inside(q)' <=> Inside(q)) /\ req'[q].lock = req[q].lock
    BY <2>2, <2>3 DEF Inside
  <2>5. HoldersAreInside'
    BY <2>2, <2>4 DEF HoldersAreInside, Inside
  <2>. QED  BY <2>2, <2>5 DEF OneLockInUse
<1>. QED
  BY <1>1, <1>2, <1>3, <1>4, <1>5, <1>6, <1>7, <1>8, <1>9 DEF Next, Arrive, Proceed, Outside

LEMMA LockInvariant == Spec => [](MatchInv /\ LockInv)
<1>1. Init => MatchInv /\ LockInv
  <2>1. Init => LockInv
    BY IdleFields DEF Init, LockInv, HoldersAreInside, OneLockInUse, Inside
  <2>. QED  BY <2>1, MatchInit
<1>2. (MatchInv /\ LockInv) /\ [Next]_vars => (MatchInv /\ LockInv)'
  BY MatchStep, LockStep
<1>. QED  BY <1>1, <1>2, PTL DEF Spec

LEMMA OneAtATime ==
  ASSUME MatchInv, LockInv, Live, NEW r \in Request, NEW q \in Request, Inside(r), Inside(q)
  PROVE  r = q
<1>1. req[r].lock = lockEntry /\ req[q].lock = lockEntry
  BY DEF MatchInv, RequestsMatch, RequestMatches, Inside, LockInv, OneLockInUse
<1>2. owner[lockEntry] = r /\ owner[lockEntry] = q
  BY <1>1 DEF LockInv, HoldersAreInside
<1>. QED  BY <1>2

(* The room lock serializes the requests of a room while the room exists,   *)
(* although its map entry comes and goes, and whoever ends gives it back.   *)
THEOREM CoordinatorOneInside == Spec => []OneInside
<1>1. MatchInv /\ LockInv => OneInside
  <2>. SUFFICES ASSUME MatchInv, LockInv  PROVE OneInside
    OBVIOUS
  <2>1. \A r, q \in Request : Inside(r) /\ Inside(q) /\ r # q => ~Live
    BY OneAtATime
  <2>2. \A l \in Lock : owner[l] # None => Inside(owner[l]) /\ req[owner[l]].lock = l
    BY DEF LockInv, HoldersAreInside
  <2>. QED  BY <2>1, <2>2 DEF OneInside
<1>. QED  BY <1>1, LockInvariant, PTL

-----------------------------------------------------------------------------
(* Commands and revisions.                                                  *)

(* A command that has taken effect is recorded while the room exists. *)
CountInv ==
  /\ \A c \in CommandId : applied[c] \in {0, 1} /\ (Live /\ applied[c] = 1 => c \in processed)
  /\ room.revision = Cardinality({c \in CommandId : applied[c] > 0})

(* What a client expects is not ahead of the room, and as long as the room  *)
(* is at that revision its game is the one the client saw.  A snapshot that *)
(* is being read began at a revision the room has had.                      *)
SawInv ==
  /\ \A c \in CommandId : sent[c] # None =>
       /\ sent[c].expected <= room.revision
       /\ Live /\ sent[c].expected = room.revision => sent[c].saw = step
  /\ \A r \in Request : req[r].pc = "LOOK" => req[r].at <= room.revision

(* A patch about to be written met the room in LOBBY: not after the start.  *)
PatchInv ==
  \A r \in Request : req[r].pc = "WRITE" =>
    /\ req[r].at <= room.revision
    /\ room.state = "IN_GAME" => req[r].at <= snapshot.at

OrderInv == CountInv /\ SawInv /\ PatchInv

(* The steps that change what these speak of; what the others leave alone.  *)
LEMMA QuietSteps ==
  ASSUME NEW r \in Request, Arrive(r) \/ Proceed(r), ~CommandTx(r), ~DeleteTx(r)
  PROVE  /\ UNCHANGED <<room, step, snapshot, processed, applied>>
         /\ Compose(r) \/ UNCHANGED sent
<1>1. CASE Arrive(r)
  BY <1>1 DEF Arrive, Join, Reconnect, Disconnect, Look, Resend, ReadSettings, Delete, dbVars,
              historyVars
<1>2. CASE Proceed(r)
  BY <1>2 DEF Proceed, AuthRead, AuthWrite, FindRoom, LockFor, Acquire, JoinTx, ReconnectRow,
              DisconnectRow, Compose, CommandFails, CheckLobby, WriteSettings,
              Forget, dbVars, historyVars
<1>. QED  BY <1>1, <1>2

LEMMA LookAt ==
  ASSUME MatchInv, NEW r \in Request, NEW c \in CommandId, Look(r, c)
  PROVE  req'[r].at = room.revision
<1> DEFINE new == [Idle EXCEPT !.kind = "COMMAND", !.pc = "LOOK", !.id = c,
                               !.at = room.revision]
<1>1. req' = [req EXCEPT ![r] = new] /\ new.at = room.revision
  BY DEF Look, Idle
<1>. HIDE DEF new
<1>. QED  BY <1>1 DEF MatchInv, TypeOK

LEMMA CheckAt ==
  ASSUME MatchInv, NEW r \in Request, CheckLobby(r), req'[r].pc = "WRITE"
  PROVE  req'[r].at = room.revision /\ room.state = "LOBBY"
<1>. USE DEF MatchInv
<1>1. ~Done(r)
  BY DoneFields, IdleFields
<1>2. room.state = "LOBBY" /\ req' = [req EXCEPT ![r].pc = "WRITE", ![r].at = room.revision]
  BY <1>1 DEF CheckLobby
<1>3. req[r] \in RequestRecords
  BY DEF TypeOK
<1>. QED  BY <1>2, <1>3 DEF TypeOK, RequestRecords

LEMMA ComposeSent ==
  ASSUME MatchInv, SawInv, NEW r \in Request, Compose(r), NEW c \in CommandId, sent'[c] # None
  PROVE  sent'[c] = sent[c] \/ (sent'[c].expected <= room.revision /\ sent'[c].saw = step)
<1>. USE DEF MatchInv
<1>1. PICK cmd \in Command :
        sent' = [sent EXCEPT ![req[r].id] =
                   [cmd |-> cmd,
                    expected |-> IF cmd.blind THEN AnyRevision ELSE req[r].at,
                    saw |-> step]]
  BY DEF Compose
<1>2. req[r].at <= room.revision /\ room.revision \in Nat
  BY DEF Compose, At, SawInv, TypeOK
<1>. QED  BY <1>1, <1>2 DEF TypeOK, AnyRevision

LEMMA QuietOrder ==
  ASSUME MatchInv, OrderInv, NEW r \in Request, Arrive(r) \/ Proceed(r),
         ~CommandTx(r), ~DeleteTx(r)
  PROVE  OrderInv'
<1>. USE DEF MatchInv, OrderInv
<1>1. UNCHANGED <<room, step, snapshot, processed, applied>>
  BY QuietSteps
<1>2. \A q \in Request : q # r => req'[q] = req[q]
  BY OthersKeep
<1>3. CountInv'
  BY <1>1 DEF CountInv, Live
<1>4. \A c \in CommandId : sent'[c] # None =>
        /\ sent'[c].expected <= room.revision
        /\ Live /\ sent'[c].expected = room.revision => sent'[c].saw = step
  <2>1. CASE UNCHANGED sent
    BY <2>1 DEF SawInv
  <2>2. CASE Compose(r)
    BY <2>2, ComposeSent DEF SawInv
  <2>. QED  BY <2>1, <2>2, QuietSteps
<1>5. \A q \in Request : req'[q].pc = "LOOK" => req'[q].at <= room.revision
  <2>1. req'[r].pc = "LOOK" => \E c \in CommandId : Look(r, c)
    BY NextPc
  <2>2. room.revision \in Nat
    BY DEF TypeOK
  <2>3. req'[r].pc = "LOOK" => req'[r].at <= room.revision
    BY <2>1, <2>2, LookAt
  <2>. QED  BY <1>2, <2>3 DEF SawInv
<1>6. \A q \in Request : req'[q].pc = "WRITE" =>
        /\ req'[q].at <= room.revision
        /\ room.state = "IN_GAME" => req'[q].at <= snapshot.at
  <2>1. req'[r].pc = "WRITE" => CheckLobby(r)
    BY NextPc
  <2>2. room.revision \in Nat
    BY DEF TypeOK
  <2>3. req'[r].pc = "WRITE" => req'[r].at = room.revision /\ room.state = "LOBBY"
    BY <2>1, CheckAt
  <2>4. ASSUME NEW q \in Request, q # r, req'[q].pc = "WRITE"
        PROVE  /\ req'[q].at <= room.revision
               /\ room.state = "IN_GAME" => req'[q].at <= snapshot.at
    BY <1>2, <2>4 DEF PatchInv
  <2>. QED  BY <2>2, <2>3, <2>4
<1>. QED  BY <1>1, <1>3, <1>4, <1>5, <1>6 DEF SawInv, PatchInv, Live

(* A command commits. *)
LEMMA CommandOrder ==
  ASSUME MatchInv, OrderInv, NEW r \in Request, CommandTx(r)
  PROVE  OrderInv'
<1>. USE DEF MatchInv, OrderInv
<1> DEFINE c == req[r].id
<1>1. /\ c \in CommandId /\ c \notin processed /\ Live /\ applied[c] = 0
      /\ room.revision \in Nat /\ UNCHANGED sent
  BY DEF CommandTx, CanApply, At, RequestsMatch, RequestMatches, TypeOK, CountInv
<1>2. sent[c] \in SentRecords /\ sent[c].cmd \in Command /\ Permitted(sent[c].cmd)
  <2>1. sent[c] \in SentRecords /\ Permitted(sent[c].cmd)
    BY <1>1 DEF CommandTx, CanApply, At, RequestsMatch, RequestMatches, TypeOK
  <2>. QED  BY <2>1 DEF SentRecords
<1>3. PICK state \in RoomStates :
         /\ Effect(sent[c].cmd, state)
         /\ room' = [state |-> state, revision |-> room.revision + 1]
  BY DEF CommandTx
<1>4. processed' = processed \cup {c} /\ applied' = [applied EXCEPT ![c] = 1]
  BY <1>1 DEF CommandTx
<1>. HIDE DEF c
<1>5. CountInv'
  <2> DEFINE Before == {d \in CommandId : applied[d] > 0}
             After == {d \in CommandId : applied'[d] > 0}
  <2>1. After = Before \cup {c} /\ c \notin Before
    BY <1>1, <1>4 DEF TypeOK
  <2>2. IsFiniteSet(Before)
    BY FS_Subset
  <2>3. Cardinality(After) = Cardinality(Before) + 1
    BY <2>1, <2>2, FS_AddElement
  <2>4. room'.revision = Cardinality(After)
    BY <1>3, <2>3 DEF CountInv
  <2>5. \A d \in CommandId :
          applied'[d] \in {0, 1} /\ (Live' /\ applied'[d] = 1 => d \in processed')
    BY <1>1, <1>4 DEF CountInv, TypeOK
  <2>. QED  BY <2>4, <2>5 DEF CountInv
<1>6. ASSUME NEW d \in CommandId, sent'[d] # None
      PROVE  sent'[d].expected < room'.revision
  <2>1. sent[d] \in SentRecords /\ sent[d].expected <= room.revision /\ sent'[d] = sent[d]
    BY <1>1, <1>6 DEF TypeOK, SawInv
  <2>2. sent[d].expected \in Int
    BY <2>1 DEF SentRecords, AnyRevision
  <2>. QED  BY <1>1, <1>3, <2>1, <2>2
<1>7. ASSUME NEW q \in Request, req'[q].pc \in {"LOOK", "WRITE"}
      PROVE  req'[q] = req[q] /\ req[q].at \in Nat
  <2>1. Done(r)
    BY DEF CommandTx, Unlock
  <2>2. q # r
    BY <1>7, <2>1, DoneFields, IdleFields
  <2>3. req'[q] = req[q] /\ req[q] \in RequestRecords
    BY <2>1, <2>2, DoneFields DEF TypeOK
  <2>. QED  BY <2>3 DEF RequestRecords
<1>8. SawInv'
  <2>1. \A q \in Request : req'[q].pc = "LOOK" => req'[q].at <= room'.revision
    BY <1>1, <1>3, <1>7 DEF SawInv
  <2>2. \A d \in CommandId : sent'[d] # None => sent'[d].expected # room'.revision
    BY <1>6, <1>1, <1>3
  <2>3. \A d \in CommandId : sent'[d] # None => sent'[d].expected <= room'.revision
    <3>. SUFFICES ASSUME NEW d \in CommandId, sent'[d] # None
                  PROVE  sent'[d].expected <= room'.revision
      OBVIOUS
    <3>1. sent[d] \in SentRecords /\ sent'[d] = sent[d]
      BY <1>1 DEF TypeOK
    <3>2. sent'[d].expected \in Int
      BY <3>1 DEF SentRecords, AnyRevision
    <3>. QED  BY <1>1, <1>3, <1>6, <3>2
  <2>. QED  BY <2>1, <2>2, <2>3 DEF SawInv
<1>9. PatchInv'
  <2>. SUFFICES ASSUME NEW q \in Request, req'[q].pc = "WRITE"
                PROVE  /\ req'[q].at <= room'.revision
                       /\ room'.state = "IN_GAME" => req'[q].at <= snapshot'.at
    BY DEF PatchInv
  <2>1. /\ req'[q] = req[q] /\ req[q].at \in Nat /\ req[q].at <= room.revision
        /\ room.state = "IN_GAME" => req[q].at <= snapshot.at
    BY <1>7 DEF PatchInv
  <2>2. room'.state = state /\ room'.revision = room.revision + 1
    BY <1>3
  <2>3. CASE sent[c].cmd.type = "START_GAME"
    <3>1. snapshot' = [settings |-> settings, at |-> room.revision]
      BY <1>3, <2>3 DEF Effect
    <3>. QED  BY <1>1, <2>1, <2>2, <3>1
  <2>4. CASE sent[c].cmd.type # "START_GAME"
    <3>1. UNCHANGED snapshot /\ (state = "IN_GAME" => room.state = "IN_GAME")
      BY <1>2, <1>3, <2>4 DEF Effect, Permitted, CommandTypes
    <3>. QED  BY <1>1, <2>1, <2>2, <3>1
  <2>. QED  BY <2>3, <2>4
<1>. QED  BY <1>5, <1>8, <1>9

(* The deletion of the room. *)
LEMMA DeleteOrder ==
  ASSUME MatchInv, OrderInv, NEW r \in Request, DeleteTx(r)
  PROVE  OrderInv'
<1>. USE DEF MatchInv, OrderInv
<1>1. /\ ~Live' /\ room'.revision = room.revision /\ room'.state = "DELETED"
      /\ UNCHANGED <<applied, sent>>
  BY DEF DeleteTx, Live, TypeOK, historyVars
<1>2. "FORGET" \in PCs
  BY DEF PCs
<1>3. \A q \in Request : req'[q].pc \in {"LOOK", "WRITE"} => req'[q] = req[q]
  BY <1>2, GotoFields DEF DeleteTx
<1>. QED  BY <1>1, <1>3 DEF CountInv, SawInv, PatchInv

LEMMA OrderStep == MatchInv /\ OrderInv /\ [Next]_vars => OrderInv'
<1>. SUFFICES ASSUME MatchInv, OrderInv, [Next]_vars  PROVE OrderInv'
  OBVIOUS
<1>1. CASE UNCHANGED vars
  BY <1>1 DEF OrderInv, CountInv, SawInv, PatchInv, Live, vars, dbVars, historyVars
<1>2. CASE Crash
  BY <1>2, IdleFields
     DEF Crash, OrderInv, CountInv, SawInv, PatchInv, Live, dbVars, historyVars
<1>3. ASSUME NEW r \in Request, Arrive(r) \/ Proceed(r)  PROVE OrderInv'
  BY <1>3, QuietOrder, CommandOrder, DeleteOrder
<1>. QED  BY <1>1, <1>2, <1>3 DEF Next

LEMMA OrderInvariant == Spec => [](MatchInv /\ OrderInv)
<1>1. Init => OrderInv
  <2>. SUFFICES ASSUME Init  PROVE OrderInv
    OBVIOUS
  <2>1. {c \in CommandId : applied[c] > 0} = {}
    BY DEF Init
  <2>2. CountInv
    <3>1. Cardinality({c \in CommandId : applied[c] > 0}) = 0
      BY <2>1, FS_EmptySet
    <3>2. room.revision = 0 /\ \A c \in CommandId : applied[c] = 0
      BY DEF Init
    <3>. QED  BY <3>1, <3>2 DEF CountInv
  <2>3. SawInv /\ PatchInv
    BY IdleFields DEF Init, SawInv, PatchInv
  <2>. QED  BY <2>2, <2>3 DEF OrderInv
<1>2. (MatchInv /\ OrderInv) /\ [Next]_vars => (MatchInv /\ OrderInv)'
  BY MatchStep, OrderStep
<1>. QED  BY <1>1, <1>2, MatchInit, PTL DEF Spec

(* Every command takes effect at most once, and the revision counts them.   *)
THEOREM CoordinatorCommandsCountOnce == Spec => []CommandsCountOnce
<1>1. OrderInv => CommandsCountOnce
  BY DEF OrderInv, CountInv, CommandsCountOnce
<1>. QED  BY <1>1, OrderInvariant, PTL

(* A command that names its revision acts on the game its sender saw.       *)
THEOREM CoordinatorActsOnWhatItSaw == Spec => ActsOnWhatItSaw
<1> DEFINE A == \A c \in CommandId :
                  applied'[c] # applied[c] /\ sent[c].expected # AnyRevision =>
                    sent[c].saw = step
<1>1. MatchInv /\ OrderInv /\ [Next]_vars => [A]_vars
  <2>. SUFFICES ASSUME MatchInv, OrderInv, Next  PROVE A
    OBVIOUS
  <2>. USE DEF MatchInv, OrderInv
  <2>1. CASE Crash
    BY <2>1 DEF Crash, historyVars
  <2>2. ASSUME NEW r \in Request, CommandTx(r)  PROVE A
    <3> DEFINE c == req[r].id
    <3>1. /\ c \in CommandId /\ sent[c] # None /\ CanApply(c)
          /\ applied' = [applied EXCEPT ![c] = @ + 1]
      BY <2>2 DEF CommandTx, CanApply, At, RequestsMatch, RequestMatches
    <3>. HIDE DEF c
    <3>2. ASSUME sent[c].expected # AnyRevision  PROVE sent[c].saw = step
      BY <3>1, <3>2 DEF CanApply, SawInv
    <3>3. \A d \in CommandId : d # c => applied'[d] = applied[d]
      BY <3>1 DEF TypeOK
    <3>. QED  BY <3>2, <3>3
  <2>3. ASSUME NEW r \in Request, DeleteTx(r)  PROVE A
    BY <2>3 DEF DeleteTx, historyVars
  <2>4. ASSUME NEW r \in Request, Arrive(r) \/ Proceed(r), ~CommandTx(r), ~DeleteTx(r)
        PROVE  A
    BY <2>4, QuietSteps
  <2>. QED  BY <2>1, <2>2, <2>3, <2>4 DEF Next
<1>. QED  BY <1>1, OrderInvariant, PTL DEF Spec, ActsOnWhatItSaw

(* The settings of a running game change only through a patch that met the  *)
(* room in LOBBY before the start.                                          *)
THEOREM CoordinatorOnlyOvertakenPatches == Spec => OnlyOvertakenPatches
<1> DEFINE A == room.state = "IN_GAME" /\ settings' # settings =>
                  \E r \in Request :
                    At(r, "SETTINGS", "WRITE") /\ req'[r] = Idle /\ req[r].at <= snapshot.at
<1>1. MatchInv /\ OrderInv /\ [Next]_vars => [A]_vars
  <2>. SUFFICES ASSUME MatchInv, OrderInv, Next  PROVE A
    OBVIOUS
  <2>1. CASE Crash
    BY <2>1 DEF Crash, dbVars
  <2>2. ASSUME NEW r \in Request, WriteSettings(r)  PROVE A
    <3>1. At(r, "SETTINGS", "WRITE") /\ req'[r] = Idle
      BY <2>2, DoneFields DEF WriteSettings, MatchInv
    <3>2. room.state = "IN_GAME" => req[r].at <= snapshot.at
      BY <3>1 DEF At, OrderInv, PatchInv
    <3>. QED  BY <3>1, <3>2
  <2>3. ASSUME NEW r \in Request, Arrive(r)  PROVE UNCHANGED settings
    BY <2>3 DEF Arrive, Join, Reconnect, Disconnect, Look, Resend, ReadSettings, Delete, dbVars
  <2>4. ASSUME NEW r \in Request, Proceed(r), ~WriteSettings(r)  PROVE UNCHANGED settings
    BY <2>4 DEF Proceed, AuthRead, AuthWrite, FindRoom, LockFor, Acquire, JoinTx, ReconnectRow,
                DisconnectRow, Compose, CommandTx, CommandFails, CheckLobby, DeleteTx, Forget,
                dbVars
  <2>. QED  BY <2>1, <2>2, <2>3, <2>4 DEF Next
<1>. QED  BY <1>1, OrderInvariant, PTL DEF Spec, OnlyOvertakenPatches

-----------------------------------------------------------------------------
(* Leaving.                                                                 *)

RowsHaveSessions == \A p \in Player : row[p] = None <=> session[p] = "NONE"

Out(p) ==
  \/ row[p] = None /\ session[p] = "NONE"
  \/ row[p] # None /\ row[p].left /\ ~row[p].connected /\ session[p] = "REVOKED"

OutStaysOut == \A p \in ended \ overwritten : Out(p)

IsOnlyHost(h) ==
  row[h].role = "HOST" /\ \A q \in Members : row[q].role = "HOST" => q = h

(* Nobody who left keeps a row in LOBBY, so the first who joins an empty    *)
(* room is the first of its rows.                                           *)
OneHost ==
  overwritten = {} =>
    /\ room.state = "LOBBY" => Members = Rows
    /\ Members # {} => \E h \in Members : IsOnlyHost(h)

LeaveInv == RowsHaveSessions /\ OutStaysOut /\ OneHost

LEMMA RowSteps ==
  ASSUME NEW r \in Request, Arrive(r) \/ Proceed(r), ~AuthWrite(r), ~JoinTx(r),
         ~ReconnectRow(r), ~DisconnectRow(r), ~CommandTx(r), ~DeleteTx(r)
  PROVE  UNCHANGED <<room, row, session, ended, overwritten>>
<1>1. CASE Arrive(r)
  BY <1>1 DEF Arrive, Join, Reconnect, Disconnect, Look, Resend, ReadSettings, Delete, dbVars,
              historyVars
<1>2. CASE Proceed(r)
  BY <1>2 DEF Proceed, AuthRead, FindRoom, LockFor, Acquire, Compose, CommandFails, CheckLobby,
              WriteSettings, Forget, dbVars, historyVars
<1>. QED  BY <1>1, <1>2

LEMMA LeaveUnchanged ==
  ASSUME LeaveInv, UNCHANGED <<room, row, session, ended, overwritten>>
  PROVE  LeaveInv'
BY DEF LeaveInv, RowsHaveSessions, OutStaysOut, Out, OneHost, IsOnlyHost, Members, Rows

(* A step that leaves roles and departures alone keeps the host. *)
LEMMA HostKept ==
  ASSUME MatchInv, OneHost, overwritten' = {} => overwritten = {}, UNCHANGED room,
         row' \in [Player -> RowRecords \cup {None}],
         overwritten' = {} =>
           \A p \in Player : /\ row'[p] = None <=> row[p] = None
                             /\ row[p] # None => row'[p].left = row[p].left
                                                 /\ row'[p].role = row[p].role
  PROVE  OneHost'
<1>. SUFFICES ASSUME overwritten' = {}
              PROVE  /\ room.state = "LOBBY" => Members' = Rows'
                     /\ Members' # {} => \E h \in Members' : IsOnlyHost(h)'
  BY DEF OneHost
<1>1. Rows' = Rows /\ Members' = Members
  <2>1. \A p \in Player : row'[p] = None <=> row[p] = None
    OBVIOUS
  <2>2. Rows' = Rows
    BY <2>1 DEF Rows
  <2>3. \A p \in Rows : row'[p].left = row[p].left
    BY DEF Rows
  <2>. QED  BY <2>2, <2>3 DEF Members
<1>2. \A h \in Members : IsOnlyHost(h) => IsOnlyHost(h)'
  BY <1>1 DEF IsOnlyHost, Members, Rows
<1>. QED  BY <1>1, <1>2 DEF OneHost

LEMMA AuthLeave ==
  ASSUME MatchInv, LeaveInv, NEW r \in Request, AuthWrite(r)
  PROVE  LeaveInv'
<1>. USE DEF MatchInv, LeaveInv
<1> DEFINE p == req[r].who
<1>1. p \in Player
  BY DEF AuthWrite, RequestsMatch, RequestMatches
<1>2. /\ session' = [session EXCEPT ![p] = IF session[p] = "NONE" THEN "NONE" ELSE "VALID"]
      /\ overwritten' = IF session[p] = "REVOKED" THEN overwritten \cup {p} ELSE overwritten
      /\ UNCHANGED <<room, row, ended>>
  BY DEF AuthWrite
<1>. HIDE DEF p
<1>3. RowsHaveSessions'
  BY <1>1, <1>2 DEF RowsHaveSessions, TypeOK
<1>4. ASSUME NEW q \in ended \ overwritten'  PROVE Out(q)'
  <2>1. q \in ended \ overwritten /\ q \in Player /\ Out(q)
    BY <1>2, <1>4 DEF OutStaysOut, TypeOK
  <2>2. session'[q] = session[q]
    BY <1>1, <1>2, <1>4, <2>1 DEF TypeOK, Out
  <2>. QED  BY <1>2, <2>1, <2>2 DEF Out
<1>5. OneHost'
  <2>1. row' \in [Player -> RowRecords \cup {None}]
    BY <1>2 DEF TypeOK
  <2>. QED  BY <1>2, <2>1, HostKept
<1>. QED  BY <1>2, <1>3, <1>4, <1>5 DEF OutStaysOut

LEMMA JoinLeave ==
  ASSUME MatchInv, LeaveInv, NEW r \in Request, JoinTx(r)
  PROVE  LeaveInv'
<1>. USE DEF MatchInv, LeaveInv
<1> DEFINE p == Min(Newcomers)
           new == [role |-> IF Rows = {} THEN "HOST" ELSE "PLAYER",
                   connected |-> TRUE, left |-> FALSE]
<1>1. UNCHANGED <<room, ended, overwritten>>
  BY DEF JoinTx, historyVars
<1>2. CASE UNCHANGED <<row, session>>
  BY <1>1, <1>2, LeaveUnchanged
<1>3. CASE /\ room.state = "LOBBY" /\ Newcomers # {}
           /\ row' = [row EXCEPT ![p] = new]
           /\ session' = [session EXCEPT ![p] = "VALID"]
  <2>1. p \in Newcomers
    <3>1. Newcomers \subseteq Nat
      BY DEF Newcomers, Player
    <3>. QED  BY <1>3, <3>1, MinIsFirst
  <2>. HIDE DEF p
  <2>2. p \in Player /\ row[p] = None /\ p \notin ended
    BY <2>1 DEF Newcomers
  <2>3. /\ new \in RowRecords /\ new # None /\ ~new.left
        /\ new.role = "HOST" <=> Rows = {}
    <3>1. new \in RowRecords
      BY DEF RowRecords
    <3>. QED  BY <3>1
  <2>. HIDE DEF new
  <2>4. /\ row'[p] = new /\ session'[p] = "VALID"
        /\ \A q \in Player : q # p => row'[q] = row[q] /\ session'[q] = session[q]
    BY <1>3, <2>2 DEF TypeOK
  <2>5. RowsHaveSessions'
    BY <2>3, <2>4 DEF RowsHaveSessions
  <2>6. OutStaysOut'
    <3>. SUFFICES ASSUME NEW q \in ended \ overwritten  PROVE Out(q)'
      BY <1>1 DEF OutStaysOut
    <3>1. q \in Player /\ q # p /\ Out(q)
      BY <2>2 DEF OutStaysOut, TypeOK
    <3>. QED  BY <2>4, <3>1 DEF Out
  <2>7. OneHost'
    <3>. SUFFICES ASSUME overwritten = {}
                  PROVE  Members' = Rows' /\ \E h \in Members' : IsOnlyHost(h)'
      BY <1>1 DEF OneHost
    <3>1. Rows' = Rows \cup {p} /\ Members' = Members \cup {p} /\ p \notin Rows
      BY <2>2, <2>3, <2>4 DEF Rows, Members
    <3>2. Members = Rows
      BY <1>3 DEF OneHost
    <3>3. CASE Rows = {}
      <4>1. PICK j \in Player : j = p
        BY <2>2
      <4>2. Members' = {j} /\ row'[j].role = "HOST"
        BY <2>3, <2>4, <3>1, <3>2, <3>3, <4>1
      <4>3. IsOnlyHost(j)'
        BY <4>2 DEF IsOnlyHost
      <4>. QED  BY <3>1, <3>2, <4>2, <4>3
    <3>4. CASE Rows # {}
      <4>1. PICK h \in Members : IsOnlyHost(h)
        BY <3>2, <3>4 DEF OneHost
      <4>2. h \in Player /\ h # p /\ \A q \in Members : q \in Player /\ q # p
        BY <3>1, <3>2 DEF Members, Rows
      <4>3. row'[p].role # "HOST"
        BY <2>3, <2>4, <3>4
      <4>4. IsOnlyHost(h)'
        BY <2>4, <3>1, <4>1, <4>2, <4>3 DEF IsOnlyHost
      <4>. QED  BY <3>1, <3>2, <4>4
    <3>. QED  BY <3>3, <3>4
  <2>. QED  BY <2>5, <2>6, <2>7
<1>. QED  BY <1>2, <1>3 DEF JoinTx

LEMMA ReconnectLeave ==
  ASSUME MatchInv, LeaveInv, NEW r \in Request, ReconnectRow(r)
  PROVE  LeaveInv'
<1>. USE DEF MatchInv, LeaveInv
<1> DEFINE p == req[r].who
<1>1. UNCHANGED <<room, session, ended, overwritten>>
  BY DEF ReconnectRow, historyVars
<1>2. CASE p \notin Members
  BY <1>1, <1>2, LeaveUnchanged DEF ReconnectRow
<1>3. CASE p \in Members
  <2> DEFINE new == [row[p] EXCEPT !.connected = TRUE]
  <2>1. p \in Player /\ row[p] # None /\ row[p] \in RowRecords /\ ~row[p].left
    BY <1>3 DEF Members, Rows, TypeOK
  <2>2. /\ new \in RowRecords /\ new # None
        /\ new.left = row[p].left /\ new.role = row[p].role
    <3>1. new \in RowRecords
      BY <2>1 DEF RowRecords
    <3>. QED  BY <2>1, <3>1 DEF RowRecords
  <2>3. row' = [row EXCEPT ![p] = new]
    BY <1>3 DEF ReconnectRow
  <2>. HIDE DEF p, new
  <2>4. row'[p] = new /\ \A q \in Player : q # p => row'[q] = row[q]
    BY <2>1, <2>3 DEF TypeOK
  <2>5. RowsHaveSessions'
    BY <1>1, <2>1, <2>2, <2>4 DEF RowsHaveSessions
  <2>6. OutStaysOut'
    <3>. SUFFICES ASSUME NEW q \in ended \ overwritten  PROVE Out(q)'
      BY <1>1 DEF OutStaysOut
    <3>1. q \in Player /\ Out(q)
      BY DEF OutStaysOut, TypeOK
    <3>2. q # p
      BY <2>1, <3>1 DEF Out
    <3>. QED  BY <1>1, <2>4, <3>1, <3>2 DEF Out
  <2>7. row' \in [Player -> RowRecords \cup {None}]
    BY <2>2, <2>3 DEF TypeOK
  <2>8. OneHost'
    BY <1>1, <2>1, <2>2, <2>4, <2>7, HostKept
  <2>. QED  BY <2>5, <2>6, <2>8
<1>. QED  BY <1>2, <1>3

LEMMA DisconnectLeave ==
  ASSUME MatchInv, LeaveInv, NEW r \in Request, DisconnectRow(r)
  PROVE  LeaveInv'
<1>. USE DEF MatchInv, LeaveInv
<1> DEFINE p == req[r].who
           new == [req[r].row EXCEPT !.connected = FALSE]
<1>1. /\ UNCHANGED <<room, session, ended>> /\ p \in Player /\ req[r].row \in RowRecords
      /\ row' = IF p \in Rows THEN [row EXCEPT ![p] = new] ELSE row
      /\ overwritten' = IF p \in Rows /\ (row[p].left # req[r].row.left
                                          \/ row[p].role # req[r].row.role)
                        THEN overwritten \cup {p} ELSE overwritten
  BY DEF DisconnectRow, At, RequestsMatch, RequestMatches
<1>2. CASE p \notin Rows
  BY <1>1, <1>2, LeaveUnchanged
<1>3. CASE p \in Rows
  <2>1. /\ new \in RowRecords /\ new # None /\ ~new.connected
        /\ new.left = req[r].row.left /\ new.role = req[r].row.role
    <3>1. new \in RowRecords
      BY <1>1 DEF RowRecords
    <3>. QED  BY <1>1, <3>1 DEF RowRecords
  <2>2. row[p] # None
    BY <1>3 DEF Rows
  <2>. HIDE DEF p, new
  <2>3. row'[p] = new /\ \A q \in Player : q # p => row'[q] = row[q]
    BY <1>1, <1>3 DEF TypeOK
  <2>4. RowsHaveSessions'
    BY <1>1, <2>1, <2>2, <2>3 DEF RowsHaveSessions
  <2>5. p \notin overwritten' => new.left = row[p].left /\ new.role = row[p].role
    BY <1>1, <1>3, <2>1
  <2>6. overwritten \subseteq overwritten'
    BY <1>1
  <2>7. OutStaysOut'
    <3>. SUFFICES ASSUME NEW q \in ended \ overwritten'  PROVE Out(q)'
      BY <1>1 DEF OutStaysOut
    <3>1. q \in Player /\ Out(q)
      BY <2>6 DEF OutStaysOut, TypeOK
    <3>2. CASE q # p
      BY <1>1, <2>3, <3>1, <3>2 DEF Out
    <3>3. CASE q = p
      BY <1>1, <2>1, <2>2, <2>3, <2>5, <3>1, <3>3 DEF Out
    <3>. QED  BY <3>2, <3>3
  <2>8. row' \in [Player -> RowRecords \cup {None}]
    BY <1>1, <1>3, <2>1 DEF TypeOK
  <2>9. OneHost'
    BY <1>1, <2>1, <2>2, <2>3, <2>5, <2>6, <2>8, HostKept
  <2>. QED  BY <2>4, <2>7, <2>9
<1>. QED  BY <1>2, <1>3

(* What applyLeave does to the rows: p is out, the others stay in or out as *)
(* they were, and whoever is left has one host.                             *)
LEMMA RowsWithoutFields ==
  ASSUME MatchInv, NEW p \in Members, NEW new, new = RowsWithout(p), NEW q \in Player
  PROVE  /\ q = p /\ room.state = "LOBBY" => new[q] = None
         /\ q = p /\ room.state # "LOBBY" => new[q] # None /\ new[q].left /\ ~new[q].connected
         /\ q # p => /\ new[q] = None <=> row[q] = None
                     /\ row[q] # None => /\ new[q].left = row[q].left
                                         /\ new[q].connected = row[q].connected
<1> DEFINE others == Members \ {p}
           handover == row[p].role = "HOST" /\ others # {}
           role(x) == IF ~handover THEN row[x].role
                      ELSE IF x = Min(others) THEN "HOST" ELSE "PLAYER"
<1>. USE DEF MatchInv
<1>1. new[q] = IF row[q] = None \/ (q = p /\ room.state = "LOBBY") THEN None
               ELSE IF q = p THEN [role |-> role(q), connected |-> FALSE, left |-> TRUE]
               ELSE [row[q] EXCEPT !.role = role(q)]
  BY DEF RowsWithout
<1>2. new[q] \in RowRecords \cup {None}
  BY RowsWithoutType
<1>3. p \in Player /\ row[p] # None /\ None \notin RowRecords
  BY DEF Members, Rows
<1>4. row[q] # None => row[q] \in RowRecords
  BY DEF TypeOK
<1>. HIDE DEF role
<1>5. CASE q = p
  <2>1. room.state # "LOBBY" =>
          new[q] = [role |-> role(q), connected |-> FALSE, left |-> TRUE]
    BY <1>1, <1>3, <1>5
  <2>2. role(q) \in {"HOST", "PLAYER"}
    BY <1>3, <1>4, <1>5 DEF role, RowRecords
  <2>3. [role |-> role(q), connected |-> FALSE, left |-> TRUE] \in RowRecords
    BY <2>2 DEF RowRecords
  <2>4. room.state = "LOBBY" => new[q] = None
    BY <1>1, <1>5
  <2>5. room.state # "LOBBY" => new[q] # None /\ new[q].left /\ ~new[q].connected
    <3>1. room.state # "LOBBY" => new[q] \in RowRecords
      BY <2>1, <2>3
    <3>. QED  BY <1>3, <2>1, <3>1
  <2>. QED  BY <1>5, <2>4, <2>5
<1>6. CASE q # p
  <2>1. CASE row[q] = None
    BY <1>1, <1>6, <2>1
  <2>2. CASE row[q] # None
    <3>1. new[q] = [row[q] EXCEPT !.role = role(q)]
      BY <1>1, <1>6, <2>2
    <3>2. role(q) \in {"HOST", "PLAYER"}
      BY <1>4, <2>2 DEF role, RowRecords
    <3>3. new[q] \in RowRecords
      BY <1>4, <2>2, <3>1, <3>2 DEF RowRecords
    <3>. QED  BY <1>3, <1>4, <1>6, <2>2, <3>1, <3>3 DEF RowRecords
  <2>. QED  BY <2>1, <2>2
<1>. QED  BY <1>5, <1>6

LEMMA RowsWithoutHost ==
  ASSUME MatchInv, NEW p \in Members, NEW h \in Members, IsOnlyHost(h),
         NEW new, new = RowsWithout(p), Members \ {p} # {}
  PROVE  \E g \in Members \ {p} :
           /\ new[g].role = "HOST"
           /\ \A q \in Members \ {p} : new[q].role = "HOST" => q = g
<1> DEFINE others == Members \ {p}
           handover == row[p].role = "HOST" /\ others # {}
           role(x) == IF ~handover THEN row[x].role
                      ELSE IF x = Min(others) THEN "HOST" ELSE "PLAYER"
<1>. USE DEF MatchInv
<1>1. \A q \in others : q \in Player /\ q # p /\ row[q] \in RowRecords /\ row[q] # None
  BY DEF Members, Rows, TypeOK
<1>2. ASSUME NEW q \in others  PROVE new[q].role = role(q)
  <2>1. new[q] = [row[q] EXCEPT !.role = role(q)]
    BY <1>1 DEF RowsWithout
  <2>. HIDE DEF role
  <2>. QED  BY <1>1, <2>1 DEF RowRecords
<1>3. CASE handover
  <2>1. Min(others) \in others
    <3>1. others \subseteq Nat
      BY <1>1 DEF Player
    <3>. HIDE DEF others
    <3>. QED  BY <1>3, <3>1, MinIsFirst DEF handover
  <2>2. \A q \in others : new[q].role = "HOST" <=> q = Min(others)
    BY <1>2, <1>3
  <2>. QED  BY <2>1, <2>2
<1>4. CASE ~handover
  <2>1. h # p /\ h \in others
    BY <1>4 DEF IsOnlyHost
  <2>2. \A q \in others : new[q].role = row[q].role
    BY <1>2, <1>4
  <2>. QED  BY <2>1, <2>2 DEF IsOnlyHost
<1>. QED  BY <1>3, <1>4

LEMMA CommandLeave ==
  ASSUME MatchInv, LeaveInv, NEW r \in Request, CommandTx(r)
  PROVE  LeaveInv'
<1>. USE DEF MatchInv, LeaveInv
<1> DEFINE c == req[r].id
<1>1. c \in CommandId /\ sent[c] \in SentRecords /\ Permitted(sent[c].cmd) /\ Live
  BY DEF CommandTx, CanApply, At, RequestsMatch, RequestMatches, TypeOK
<1>2. PICK cmd \in Command : cmd = sent[c].cmd
  BY <1>1 DEF SentRecords
<1>3. PICK state \in RoomStates :
         /\ Effect(cmd, state)
         /\ room' = [state |-> state, revision |-> room.revision + 1]
  BY <1>2 DEF CommandTx
<1>4. UNCHANGED overwritten /\ room'.state = state
  BY <1>3 DEF CommandTx
<1>. HIDE DEF c
<1>5. CASE cmd.type \in {"START_GAME", "PLAY"}
  <2>1. state # "LOBBY" /\ UNCHANGED <<row, session, ended>>
    BY <1>3, <1>5 DEF Effect
  <2>. QED  BY <1>4, <2>1
            DEF RowsHaveSessions, OutStaysOut, Out, OneHost, IsOnlyHost, Members, Rows
<1>6. CASE cmd.type \in {"LEAVE_ROOM", "KICK_PLAYER"}
  <2>1. PICK p \in Player : p = IF cmd.type = "LEAVE_ROOM" THEN cmd.actor ELSE cmd.target
    BY <1>1, <1>2, <1>6 DEF Permitted, Members, Rows
  <2>2. p \in Members
    BY <1>1, <1>2, <1>6, <2>1 DEF Permitted
  <2>3. /\ state = room.state \/ (room.state = "IN_GAME" /\ state = "CLOSED")
        /\ row' = RowsWithout(p) /\ session' = SessionsWithout(p) /\ ended' = ended \cup {p}
    BY <1>3, <1>6, <2>1 DEF Effect
  <2>4. PICK new : new = RowsWithout(p)
    OBVIOUS
  <2>5. \A q \in Player :
         /\ q = p /\ room.state = "LOBBY" => row'[q] = None
         /\ q = p /\ room.state # "LOBBY" => row'[q] # None /\ row'[q].left /\ ~row'[q].connected
         /\ q # p => /\ row'[q] = None <=> row[q] = None
                     /\ row[q] # None => /\ row'[q].left = row[q].left
                                         /\ row'[q].connected = row[q].connected
    BY <2>2, <2>3, RowsWithoutFields
  <2>6. \A q \in Player :
          session'[q] = IF q # p THEN session[q]
                        ELSE IF room.state = "LOBBY" \/ session[q] = "NONE" THEN "NONE"
                        ELSE "REVOKED"
    BY <2>3 DEF SessionsWithout, TypeOK
  <2>7. row[p] # None /\ session[p] # "NONE"
    BY <2>2 DEF Members, Rows, RowsHaveSessions
  <2>8. RowsHaveSessions'
    BY <2>5, <2>6, <2>7 DEF RowsHaveSessions
  <2>9. OutStaysOut'
    <3>. SUFFICES ASSUME NEW q \in (ended \cup {p}) \ overwritten  PROVE Out(q)'
      BY <1>4, <2>3 DEF OutStaysOut
    <3>1. CASE q = p
      BY <2>5, <2>6, <2>7, <3>1 DEF Out
    <3>2. CASE q # p
      <4>1. q \in Player /\ Out(q)
        BY <3>2 DEF OutStaysOut, TypeOK
      <4>. QED  BY <2>5, <2>6, <3>2, <4>1 DEF Out
    <3>. QED  BY <3>1, <3>2
  <2>10. Members' = Members \ {p}
    <3>1. ASSUME NEW q \in Player  PROVE q \in Members' <=> q \in Members /\ q # p
      BY <2>5 DEF Members, Rows
    <3>. QED  BY <3>1 DEF Members, Rows
  <2>11. OneHost'
    <3>. SUFFICES ASSUME overwritten = {}
                  PROVE  /\ state = "LOBBY" => Members' = Rows'
                         /\ Members' # {} => \E h \in Members' : IsOnlyHost(h)'
      BY <1>4 DEF OneHost
    <3>1. state = "LOBBY" => Members' = Rows'
      <4>. SUFFICES ASSUME state = "LOBBY"  PROVE Members' = Rows'
        OBVIOUS
      <4>1. room.state = "LOBBY" /\ Members = Rows
        BY <2>3 DEF OneHost
      <4>2. Rows' = Rows \ {p}
        BY <2>5, <4>1 DEF Rows
      <4>. QED  BY <2>10, <4>1, <4>2
    <3>2. ASSUME Members' # {}  PROVE \E h \in Members' : IsOnlyHost(h)'
      <4>1. PICK h \in Members : IsOnlyHost(h)
        BY <2>2 DEF OneHost
      <4>2. PICK g \in Members \ {p} :
              /\ new[g].role = "HOST"
              /\ \A q \in Members \ {p} : new[q].role = "HOST" => q = g
        BY <2>2, <2>4, <2>10, <3>2, <4>1, RowsWithoutHost
      <4>. QED  BY <2>3, <2>4, <2>10, <4>2 DEF IsOnlyHost
    <3>. QED  BY <3>1, <3>2
  <2>. QED  BY <2>8, <2>9, <2>11
<1>. QED  BY <1>5, <1>6 DEF CommandTypes

LEMMA LeaveStep == MatchInv /\ LeaveInv /\ [Next]_vars => LeaveInv'
<1>. SUFFICES ASSUME MatchInv, LeaveInv, [Next]_vars  PROVE LeaveInv'
  OBVIOUS
<1>1. CASE UNCHANGED vars
  BY <1>1, LeaveUnchanged DEF vars, dbVars, historyVars
<1>2. CASE Crash
  BY <1>2, LeaveUnchanged DEF Crash, dbVars, historyVars
<1>3. ASSUME NEW r \in Request, DeleteTx(r)  PROVE LeaveInv'
  <2>1. /\ row' = [p \in Player |-> None] /\ session' = [p \in Player |-> "NONE"]
        /\ UNCHANGED ended
    BY <1>3 DEF DeleteTx, historyVars
  <2>2. Rows' = {} /\ Members' = {}
    BY <2>1 DEF Rows, Members
  <2>. QED  BY <2>1, <2>2 DEF LeaveInv, RowsHaveSessions, OutStaysOut, Out, OneHost, MatchInv,
                              TypeOK
<1>4. ASSUME NEW r \in Request, Arrive(r) \/ Proceed(r), ~DeleteTx(r)  PROVE LeaveInv'
  BY <1>4, RowSteps, LeaveUnchanged, AuthLeave, JoinLeave, ReconnectLeave, DisconnectLeave,
     CommandLeave
<1>. QED  BY <1>1, <1>2, <1>3, <1>4 DEF Next

(* Whoever left or was kicked stays out and the room keeps one host, but    *)
(* for the requests that write back what they had read before.              *)
THEOREM CoordinatorLeavingIsFinal == Spec => []LeavingIsFinal
<1>1. Init => LeaveInv
  <2>. SUFFICES ASSUME Init  PROVE LeaveInv
    OBVIOUS
  <2>1. Rows = {} /\ Members = {}
    BY DEF Init, Rows, Members
  <2>. QED  BY <2>1 DEF Init, LeaveInv, RowsHaveSessions, OutStaysOut, OneHost
<1>2. (MatchInv /\ LeaveInv) /\ [Next]_vars => (MatchInv /\ LeaveInv)'
  BY MatchStep, LeaveStep
<1>3. MatchInv /\ LeaveInv => LeavingIsFinal
  <2>. SUFFICES ASSUME MatchInv, LeaveInv  PROVE LeavingIsFinal
    OBVIOUS
  <2>1. ASSUME overwritten = {}, Members # {}
        PROVE  Cardinality({p \in Members : row[p].role = "HOST"}) = 1
    <3>1. PICK h \in Members : IsOnlyHost(h)
      BY <2>1 DEF LeaveInv, OneHost
    <3>2. {p \in Members : row[p].role = "HOST"} = {h}
      BY <3>1 DEF IsOnlyHost
    <3>. QED  BY <3>2, FS_Singleton
  <2>. QED  BY <2>1 DEF LeaveInv, OutStaysOut, Out, LeavingIsFinal
<1>. QED  BY <1>1, <1>2, <1>3, MatchInit, PTL DEF Spec

-----------------------------------------------------------------------------
(* The coordinator implements RoomPlayers.                                  *)

(* A deleted room has no players, so a request that had found it before can *)
(* delete it once more without any change.                                  *)
DeletedIsEmpty == room.state = "DELETED" => Rows = {}

(* Nobody comes, goes or becomes host. *)
SamePlayers ==
  \A p \in Player : /\ row'[p] = None <=> row[p] = None
                    /\ row[p] # None => row'[p].left = row[p].left
                                        /\ row'[p].role = row[p].role

LEMMA PlayersStay ==
  ASSUME SamePlayers
  PROVE  Rows' = Rows /\ Gone' = Gone /\ Hosts' = Hosts
<1>1. Rows' = Rows
  BY DEF SamePlayers, Rows
<1>2. \A p \in Rows : row'[p].left = row[p].left /\ row'[p].role = row[p].role
  BY DEF SamePlayers, Rows
<1>. QED  BY <1>1, <1>2 DEF Gone, Hosts

LEMMA PlayersMembers == Players!Members = Members
BY DEF Players!Members, Members, Gone

LEMMA PlayersJoin ==
  ASSUME MatchInv, NEW r \in Request, JoinTx(r), row' # row
  PROVE  Players!Next /\ room.state = "LOBBY" /\ UNCHANGED room
<1> DEFINE p == Min(Newcomers)
           new == [role |-> IF Rows = {} THEN "HOST" ELSE "PLAYER",
                   connected |-> TRUE, left |-> FALSE]
<1>1. /\ room.state = "LOBBY" /\ Newcomers # {} /\ UNCHANGED room
      /\ row' = [row EXCEPT ![p] = new]
  BY DEF JoinTx
<1>2. p \in Newcomers
  <2>1. Newcomers \subseteq Nat
    BY DEF Newcomers, Player
  <2>. QED  BY <1>1, <2>1, MinIsFirst
<1>3. /\ new # None /\ ~new.left
      /\ new.role = "HOST" <=> Rows = {}
  <2>1. new \in RowRecords
    BY DEF RowRecords
  <2>. QED  BY <2>1
<1>. HIDE DEF p, new
<1>4. p \in Player /\ row[p] = None
  BY <1>2 DEF Newcomers
<1>5. row'[p] = new /\ \A q \in Player : q # p => row'[q] = row[q]
  BY <1>1, <1>4 DEF MatchInv, TypeOK
<1>6. p \notin Rows /\ Rows' = Rows \cup {p}
  BY <1>3, <1>4, <1>5 DEF Rows
<1>7. \A q \in Rows : q # p /\ row'[q] = row[q]
  BY <1>5, <1>6 DEF Rows
<1>8. Gone' = Gone
  BY <1>3, <1>5, <1>6, <1>7 DEF Gone
<1>9. Hosts' = IF Rows = {} THEN {p} ELSE Hosts
  BY <1>3, <1>5, <1>6, <1>7 DEF Hosts
<1>10. Players!Join(p)
  BY <1>1, <1>6, <1>8, <1>9 DEF Players!Join
<1>11. p \in Players!Player
  BY <1>4 DEF Players!Player, Player
<1>. QED  BY <1>1, <1>10, <1>11 DEF Players!Next

LEMMA ReconnectSame ==
  ASSUME MatchInv, NEW r \in Request, ReconnectRow(r)
  PROVE  SamePlayers
<1> DEFINE p == req[r].who
           new == [row[p] EXCEPT !.connected = TRUE]
<1>1. CASE p \in Members
  <2>1. p \in Player /\ row[p] # None /\ row[p] \in RowRecords
    BY <1>1 DEF Members, Rows, MatchInv, TypeOK
  <2>2. new \in RowRecords /\ new.left = row[p].left /\ new.role = row[p].role
    BY <2>1 DEF RowRecords
  <2>3. row' = [row EXCEPT ![p] = new]
    BY <1>1 DEF ReconnectRow
  <2>. HIDE DEF p, new
  <2>4. row'[p] = new /\ \A q \in Player : q # p => row'[q] = row[q]
    BY <2>1, <2>3 DEF MatchInv, TypeOK
  <2>. QED  BY <2>1, <2>2, <2>4 DEF SamePlayers
<1>2. CASE p \notin Members
  BY <1>2 DEF ReconnectRow, SamePlayers
<1>. QED  BY <1>1, <1>2

(* MarkDisconnected writes all of the row it has read; if the departure and *)
(* the role in it are no longer those of the row, it overwrites.            *)
LEMMA DisconnectKeeps ==
  ASSUME MatchInv, NEW r \in Request, DisconnectRow(r)
  PROVE  Rows' = Rows /\ (overwritten' = {} => SamePlayers)
<1> DEFINE p == req[r].who
           new == [req[r].row EXCEPT !.connected = FALSE]
<1>1. /\ p \in Player /\ req[r].row \in RowRecords
      /\ row' = IF p \in Rows THEN [row EXCEPT ![p] = new] ELSE row
      /\ overwritten' = IF p \in Rows /\ (row[p].left # req[r].row.left
                                          \/ row[p].role # req[r].row.role)
                        THEN overwritten \cup {p} ELSE overwritten
  BY DEF DisconnectRow, At, MatchInv, RequestsMatch, RequestMatches
<1>2. CASE p \notin Rows
  BY <1>1, <1>2 DEF SamePlayers, Rows
<1>3. CASE p \in Rows
  <2>1. new \in RowRecords /\ new.left = req[r].row.left /\ new.role = req[r].row.role
    BY <1>1 DEF RowRecords
  <2>2. overwritten' = {} => row[p].left = req[r].row.left /\ row[p].role = req[r].row.role
    BY <1>1, <1>3
  <2>3. row[p] # None
    BY <1>3 DEF Rows
  <2>. HIDE DEF p, new
  <2>4. row'[p] = new /\ \A q \in Player : q # p => row'[q] = row[q]
    BY <1>1, <1>3 DEF MatchInv, TypeOK
  <2>5. Rows' = Rows
    BY <2>1, <2>3, <2>4 DEF Rows
  <2>6. overwritten' = {} => SamePlayers
    BY <2>1, <2>2, <2>3, <2>4 DEF SamePlayers
  <2>. QED  BY <2>5, <2>6
<1>. QED  BY <1>2, <1>3

(* Who is host once p has left. *)
LEMMA RowsWithoutHosts ==
  ASSUME MatchInv, NEW p \in Members, row' = RowsWithout(p), Rows' \subseteq Rows,
         room.state = "LOBBY" => p \notin Rows', Members \ {p} \subseteq Rows'
  PROVE  Hosts' = (IF p \in Hosts /\ Members \ {p} # {} THEN {Players!Min(Members \ {p})}
                   ELSE Hosts) \cap Rows'
<1> DEFINE others == Members \ {p}
           handover == row[p].role = "HOST" /\ others # {}
           role(q) == IF ~handover THEN row[q].role
                      ELSE IF q = Min(others) THEN "HOST" ELSE "PLAYER"
<1>1. p \in Rows /\ p \in Player /\ (p \in Hosts <=> row[p].role = "HOST")
  BY DEF Members, Rows, Hosts
<1>2. ASSUME NEW q \in Rows'  PROVE row'[q].role = role(q)
  <2>1. q \in Player /\ q \in Rows /\ row[q] # None /\ row[q] \in RowRecords
    BY <1>2 DEF Rows, MatchInv, TypeOK
  <2>2. row'[q] = IF q = p /\ room.state = "LOBBY" THEN None
                  ELSE IF q = p THEN [role |-> role(q), connected |-> FALSE, left |-> TRUE]
                  ELSE [row[q] EXCEPT !.role = role(q)]
    BY <2>1 DEF RowsWithout
  <2>3. ~(q = p /\ room.state = "LOBBY")
    BY <1>2
  <2>. HIDE DEF role
  <2>. QED  BY <2>1, <2>2, <2>3 DEF RowRecords
<1>3. Hosts' = {q \in Rows' : role(q) = "HOST"} /\ Hosts = {q \in Rows : row[q].role = "HOST"}
  BY <1>2 DEF Hosts
<1>4. CASE ~handover
  BY <1>1, <1>3, <1>4
<1>5. CASE handover
  <2>1. Min(others) \in others
    <3>1. others \subseteq Nat
      BY DEF Members, Rows, Player
    <3>. HIDE DEF others
    <3>. QED  BY <1>5, <3>1, MinIsFirst DEF handover
  <2>2. Min(others) = Players!Min(others)
    BY DEF Min, Players!Min
  <2>3. Hosts' = {Min(others)}
    BY <1>3, <1>5, <2>1
  <2>. QED  BY <1>1, <1>5, <2>1, <2>2, <2>3
<1>. QED  BY <1>4, <1>5

LEMMA PlayersLeave ==
  ASSUME MatchInv, NEW p \in Members, row' = RowsWithout(p),
         room'.state = room.state \/ (room.state = "IN_GAME" /\ room'.state = "CLOSED")
  PROVE  Players!Next /\ Rows' \subseteq Rows
<1>1. p \in Player /\ p \in Rows /\ p \notin Gone /\ ~row[p].left
  BY DEF Members, Rows, Gone
<1>2. \A q \in Player :
        /\ q = p /\ room.state = "LOBBY" => row'[q] = None
        /\ q = p /\ room.state # "LOBBY" => row'[q] # None /\ row'[q].left
        /\ q # p => /\ row'[q] = None <=> row[q] = None
                    /\ row[q] # None => row'[q].left = row[q].left
  BY RowsWithoutFields
<1>3. Rows' = IF room.state = "LOBBY" THEN Rows \ {p} ELSE Rows
  <2>1. ASSUME NEW q \in Player
        PROVE  q \in Rows' <=> q \in Rows /\ ~(room.state = "LOBBY" /\ q = p)
    BY <1>1, <1>2 DEF Rows
  <2>. QED  BY <2>1 DEF Rows
<1>4. Gone' = IF room.state = "LOBBY" THEN Gone ELSE Gone \cup {p}
  <2>1. ASSUME NEW q \in Player
        PROVE  q \in Gone' <=> q \in Gone \/ (room.state # "LOBBY" /\ q = p)
    BY <1>1, <1>2, <1>3 DEF Rows, Gone
  <2>. QED  BY <1>1, <2>1 DEF Rows, Gone
<1>5. /\ Rows' \subseteq Rows /\ Members \ {p} \subseteq Rows'
      /\ room.state = "LOBBY" => p \notin Rows'
  BY <1>3 DEF Members
<1>6. Hosts' = (IF p \in Hosts /\ Members \ {p} # {} THEN {Players!Min(Members \ {p})}
                ELSE Hosts) \cap Rows'
  BY <1>5, RowsWithoutHosts
<1>7. Players!Leave(p)
  BY <1>3, <1>4, <1>6, PlayersMembers DEF Players!Leave
<1>8. p \in Players!Player
  BY <1>1 DEF Players!Player, Player
<1>. QED  BY <1>5, <1>7, <1>8 DEF Players!Next

LEMMA PlayersCommand ==
  ASSUME MatchInv, NEW r \in Request, CommandTx(r)
  PROVE  [Players!Next]_(Players!vars) /\ room'.state # "DELETED"
<1> DEFINE c == req[r].id
<1>1. c \in CommandId /\ sent[c] \in SentRecords /\ Permitted(sent[c].cmd) /\ Live
  BY DEF CommandTx, CanApply, At, MatchInv, RequestsMatch, RequestMatches, TypeOK
<1>2. PICK cmd \in Command : cmd = sent[c].cmd
  BY <1>1 DEF SentRecords
<1>3. PICK state \in RoomStates :
         /\ Effect(cmd, state)
         /\ room' = [state |-> state, revision |-> room.revision + 1]
  BY <1>2 DEF CommandTx
<1>4. room'.state = state
  BY <1>3
<1>. HIDE DEF c
<1>5. CASE cmd.type \in {"START_GAME", "PLAY"}
  <2>1. UNCHANGED row
    BY <1>3, <1>5 DEF Effect
  <2>2. Rows' = Rows /\ Gone' = Gone /\ Hosts' = Hosts
    BY <2>1 DEF Rows, Gone, Hosts
  <2>3. CASE cmd.type = "START_GAME"
    <3>1. room.state = "LOBBY" /\ state = "IN_GAME" /\ Cardinality(Members) >= 2
      BY <1>1, <1>2, <1>3, <2>3 DEF Effect, Permitted
    <3>2. Members # {}
      BY <3>1, FS_EmptySet
    <3>3. Players!Start
      BY <1>4, <2>2, <3>1, <3>2, PlayersMembers DEF Players!Start
    <3>. QED  BY <1>4, <3>1, <3>3 DEF Players!Next
  <2>4. CASE cmd.type = "PLAY"
    <3>1. room.state = "IN_GAME" /\ state \in {"IN_GAME", "CLOSED"}
      BY <1>1, <1>2, <1>3, <2>4 DEF Effect, Permitted
    <3>. QED  BY <1>4, <2>2, <3>1 DEF Players!Play, Players!Next, Players!vars
  <2>. QED  BY <1>5, <2>3, <2>4
<1>6. CASE cmd.type \in {"LEAVE_ROOM", "KICK_PLAYER"}
  <2>1. PICK p : p = IF cmd.type = "LEAVE_ROOM" THEN cmd.actor ELSE cmd.target
    OBVIOUS
  <2>2. p \in Members
    BY <1>1, <1>2, <1>6, <2>1 DEF Permitted
  <2>3. /\ state = room.state \/ (room.state = "IN_GAME" /\ state = "CLOSED")
        /\ row' = RowsWithout(p)
    BY <1>3, <1>6, <2>1 DEF Effect
  <2>. QED  BY <1>1, <1>4, <2>2, <2>3, PlayersLeave DEF Live
<1>. QED  BY <1>5, <1>6 DEF CommandTypes

LEMMA PlayersDelete ==
  ASSUME MatchInv, DeletedIsEmpty, NEW r \in Request, DeleteTx(r)
  PROVE  [Players!Next]_(Players!vars) /\ Rows' = {}
<1>1. /\ room' = [room EXCEPT !.state = "DELETED"]
      /\ row' = [p \in Player |-> None]
  BY DEF DeleteTx
<1>2. Rows' = {} /\ Gone' = {} /\ Hosts' = {}
  BY <1>1 DEF Rows, Gone, Hosts
<1>3. CASE Live
  <2>1. room'.state = "DELETED"
    BY <1>1 DEF MatchInv, TypeOK
  <2>. QED  BY <1>2, <1>3, <2>1 DEF Live, Players!Delete, Players!Next
<1>4. CASE ~Live
  <2>1. Rows = {} /\ Gone = {} /\ Hosts = {}
    BY <1>4 DEF Live, DeletedIsEmpty, Gone, Hosts
  <2>2. room'.state = room.state
    BY <1>1, <1>4 DEF Live, MatchInv, TypeOK
  <2>. QED  BY <1>2, <2>1, <2>2 DEF Players!vars
<1>. QED  BY <1>2, <1>3, <1>4

LEMMA PlayersStep ==
  MatchInv /\ DeletedIsEmpty /\ [Next]_vars =>
    /\ DeletedIsEmpty'
    /\ [overwritten' = {} => [Players!Next]_(Players!vars)]_vars
<1>. SUFFICES ASSUME MatchInv, DeletedIsEmpty, [Next]_vars
              PROVE  /\ DeletedIsEmpty'
                     /\ overwritten' = {} => [Players!Next]_(Players!vars)
  OBVIOUS
<1>1. ASSUME UNCHANGED room, SamePlayers
      PROVE  DeletedIsEmpty' /\ [Players!Next]_(Players!vars)
  BY <1>1, PlayersStay DEF DeletedIsEmpty, Players!vars
<1>2. ASSUME UNCHANGED <<room, row>>
      PROVE  DeletedIsEmpty' /\ [Players!Next]_(Players!vars)
  BY <1>1, <1>2 DEF SamePlayers
<1>3. ASSUME NEW r \in Request, JoinTx(r)
      PROVE  DeletedIsEmpty' /\ [Players!Next]_(Players!vars)
  <2>1. CASE row' = row
    BY <1>2, <1>3, <2>1 DEF JoinTx
  <2>2. CASE row' # row
    BY <1>3, <2>2, PlayersJoin DEF DeletedIsEmpty
  <2>. QED  BY <2>1, <2>2
<1>4. ASSUME NEW r \in Request, AuthWrite(r)
      PROVE  DeletedIsEmpty' /\ [Players!Next]_(Players!vars)
  BY <1>2, <1>4 DEF AuthWrite
<1>5. ASSUME NEW r \in Request, ReconnectRow(r)
      PROVE  DeletedIsEmpty' /\ [Players!Next]_(Players!vars)
  BY <1>1, <1>5, ReconnectSame DEF ReconnectRow
<1>6. ASSUME NEW r \in Request, DisconnectRow(r)
      PROVE  DeletedIsEmpty' /\ (overwritten' = {} => [Players!Next]_(Players!vars))
  BY <1>1, <1>6, DisconnectKeeps DEF DisconnectRow, DeletedIsEmpty
<1>7. ASSUME NEW r \in Request, CommandTx(r)
      PROVE  DeletedIsEmpty' /\ [Players!Next]_(Players!vars)
  BY <1>7, PlayersCommand DEF DeletedIsEmpty
<1>8. ASSUME NEW r \in Request, DeleteTx(r)
      PROVE  DeletedIsEmpty' /\ [Players!Next]_(Players!vars)
  BY <1>8, PlayersDelete DEF DeletedIsEmpty
<1>9. CASE Crash \/ UNCHANGED vars
  BY <1>2, <1>9 DEF Crash, vars, dbVars
<1>10. ASSUME NEW r \in Request, Arrive(r) \/ Proceed(r), ~AuthWrite(r), ~JoinTx(r),
              ~ReconnectRow(r), ~DisconnectRow(r), ~CommandTx(r), ~DeleteTx(r)
       PROVE  DeletedIsEmpty' /\ [Players!Next]_(Players!vars)
  BY <1>2, <1>10, RowSteps
<1>. QED
  BY <1>3, <1>4, <1>5, <1>6, <1>7, <1>8, <1>9, <1>10 DEF Next

(* Whatever the requests interleave, what they make of the players of a room *)
(* is what RoomPlayers says, for any number of requests, players and         *)
(* commands, as long as no row was written back late.                        *)
THEOREM CoordinatorImplementsRoom == Spec => ImplementsRoom
<1>1. Init => Players!Init /\ DeletedIsEmpty
  <2>. SUFFICES ASSUME Init  PROVE Players!Init /\ DeletedIsEmpty
    OBVIOUS
  <2>1. room.state = "LOBBY" /\ Rows = {}
    BY DEF Init, Rows
  <2>. QED  BY <2>1 DEF Players!Init, DeletedIsEmpty, Gone, Hosts
<1>. QED  BY <1>1, PlayersStep, MatchInvariant, PTL DEF Spec, ImplementsRoom
=============================================================================
