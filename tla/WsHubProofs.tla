---------------------------- MODULE WsHubProofs ----------------------------
(***************************************************************************)
(* Theorems about the hub and a player's browser, for any number of        *)
(* connections, requests and failures: a broadcast never meets a closed    *)
(* channel, a dropped message is made good by another, and an old picture  *)
(* carries an old revision.                                                *)
(***************************************************************************)
EXTENDS WsHub, TurnOrderLemmas

(* A broadcast is under way only while the hub is locked, and only to       *)
(* clients that are still registered: none can leave the hub before it ends. *)
SendsToTheRegistered ==
  /\ left \subseteq registered
  /\ writer.pc # "SENDING" => left = {}

(* A client is closed only once it has left the hub, and enters it only      *)
(* once.                                                                     *)
RegisteredAreOpen ==
  \A c \in Conn :
    /\ c \in registered => closing[c] \in {"NO", "CHOSEN"}
    /\ handler[c] \notin {"REGISTERED", "RUNNING"} =>
         closing[c] = "NO" /\ c \notin registered

HubInv == TypeOK /\ SendsToTheRegistered /\ RegisteredAreOpen

USE BoundsAssumption

-----------------------------------------------------------------------------
(* Types of the parts that several actions share.                            *)

LEMMA AskTypes ==
  ASSUME TypeOK, NEW kind \in {"STATE", "PROBE"}, Ask(kind)
  PROVE  fetch' \in [Fetch -> [status : {"NONE", "STATE", "PROBE", "ANSWERED", "REFUSED"},
                               snapshot : Snapshots]]
BY DEF TypeOK, Ask, NoSnapshot, Snapshots

LEMMA OnCloseTypes ==
  ASSUME TypeOK, OnClose
  PROVE  /\ ws' \in Conn \cup {0} /\ attempts' \in Nat
         /\ shown' \in Snapshots /\ expected' \in Nat /\ lost' \in BOOLEAN
         /\ fetch' \in [Fetch -> [status : {"NONE", "STATE", "PROBE", "ANSWERED", "REFUSED"},
                                  snapshot : Snapshots]]
<1>1. /\ ws' \in Conn \cup {0} /\ attempts' \in Nat
      /\ shown' \in Snapshots /\ expected' \in Nat /\ lost' \in BOOLEAN
  BY DEF TypeOK, OnClose
<1>2. Ask("PROBE") \/ UNCHANGED fetch
  BY DEF OnClose
<1>. QED  BY <1>1, <1>2, AskTypes DEF TypeOK

LEMMA GiveUpTypes ==
  ASSUME TypeOK, GiveUp
  PROVE  /\ ws' \in Conn \cup {0} /\ attempts' \in Nat
         /\ shown' \in Snapshots /\ expected' \in Nat /\ lost' \in BOOLEAN
         /\ fetch' \in [Fetch -> [status : {"NONE", "STATE", "PROBE", "ANSWERED", "REFUSED"},
                                  snapshot : Snapshots]]
BY DEF TypeOK, GiveUp, NoSnapshot, Snapshots

LEMMA CommitTypes ==
  ASSUME TypeOK, NEW counts, NEW announced, NEW kick \in BOOLEAN,
         Commit(counts, announced, kick)
  PROVE  /\ now' \in [version : Nat, revision : Nat]
         /\ writer' \in [pc : {"IDLE", "COMMITTED", "SENDING"}, revision : Nat, kick : BOOLEAN]
         /\ writer.pc = "IDLE" /\ writer'.pc = "COMMITTED"
BY DEF TypeOK, Commit

LEMMA EnqueueTypes ==
  ASSUME TypeOK, NEW c \in Conn, NEW msg \in Messages, Enqueue(c, msg)
  PROVE  queue' \in [Conn -> Seq(Messages)]
BY DEF TypeOK, Enqueue

-----------------------------------------------------------------------------
LEMMA HubInit == Init => HubInv
<1>. SUFFICES ASSUME Init  PROVE HubInv
  OBVIOUS
<1>1. NoSnapshot \in Snapshots /\ <<>> \in Seq(Messages)
  BY DEF NoSnapshot, Snapshots
<1>2. /\ now \in [version : Nat, revision : Nat]
      /\ writer \in [pc : {"IDLE", "COMMITTED", "SENDING"}, revision : Nat, kick : BOOLEAN]
      /\ fetch \in [Fetch -> [status : {"NONE", "STATE", "PROBE", "ANSWERED", "REFUSED"},
                              snapshot : Snapshots]]
  BY <1>1 DEF Init
<1>3. TypeOK
  BY <1>1, <1>2 DEF Init, TypeOK
<1>. QED  BY <1>3 DEF Init, HubInv, SendsToTheRegistered, RegisteredAreOpen

(* The actions of the room and its broadcasts.                               *)
LEMMA RoomKeepsInv ==
  ASSUME HubInv, RoomChanges \/ Kick \/ Broadcasting \/ ClosePlayer
  PROVE  HubInv'
<1>. USE DEF HubInv
<1>1. CASE RoomChanges
  <2>1. PICK k \in CommandKinds : Commit(k.counts, k.announced, FALSE)
    BY <1>1 DEF RoomChanges
  <2>2. /\ now' \in [version : Nat, revision : Nat]
        /\ writer' \in [pc : {"IDLE", "COMMITTED", "SENDING"}, revision : Nat, kick : BOOLEAN]
        /\ writer.pc = "IDLE" /\ writer'.pc = "COMMITTED"
    BY <2>1, CommitTypes
  <2>3. TypeOK'
    BY <1>1, <2>2 DEF RoomChanges, TypeOK, connVars, browserVars, historyVars
  <2>. QED  BY <1>1, <2>2, <2>3 DEF RoomChanges, connVars, SendsToTheRegistered, RegisteredAreOpen
<1>2. CASE Kick
  <2>1. /\ now' \in [version : Nat, revision : Nat]
        /\ writer' \in [pc : {"IDLE", "COMMITTED", "SENDING"}, revision : Nat, kick : BOOLEAN]
        /\ writer.pc = "IDLE" /\ writer'.pc = "COMMITTED"
    BY <1>2, CommitTypes DEF Kick
  <2>2. TypeOK'
    BY <1>2, <2>1 DEF Kick, TypeOK, connVars, browserVars, historyVars
  <2>. QED  BY <1>2, <2>1, <2>2 DEF Kick, connVars, SendsToTheRegistered, RegisteredAreOpen
<1>3. CASE BroadcastBegin
  <2>1. TypeOK'
    BY <1>3 DEF BroadcastBegin, TypeOK, connVars, browserVars, historyVars
  <2>2. writer'.pc = "SENDING"
    BY <1>3 DEF BroadcastBegin, TypeOK
  <2>. QED  BY <1>3, <2>1, <2>2 DEF BroadcastBegin, connVars, SendsToTheRegistered, RegisteredAreOpen
<1>4. ASSUME NEW c \in Conn, BroadcastSend(c)  PROVE HubInv'
  <2>1. Updated(writer.revision) \in Messages
    BY DEF TypeOK, Updated, Messages
  <2>2. queue' \in [Conn -> Seq(Messages)]
    BY <1>4, <2>1, EnqueueTypes DEF BroadcastSend
  <2>3. TypeOK'
    BY <1>4, <2>2 DEF BroadcastSend, TypeOK, browserVars
  <2>. QED  BY <1>4, <2>3 DEF BroadcastSend, SendsToTheRegistered, RegisteredAreOpen
<1>5. CASE BroadcastEnd
  <2>1. TypeOK'
    BY <1>5 DEF BroadcastEnd, TypeOK, connVars, browserVars, historyVars
  <2>. QED  BY <1>5, <2>1 DEF BroadcastEnd, connVars, SendsToTheRegistered, RegisteredAreOpen
<1>6. CASE ClosePlayer
  <2>1. /\ closing' \in [Conn -> {"NO", "CHOSEN", "UNREGISTERED", "CLOSED", "DONE"}]
        /\ code' \in [Conn -> {"NORMAL", "SESSION_REVOKED"}]
        /\ \A c \in Conn : closing'[c] = closing[c] \/ (c \in registered /\ closing'[c] = "CHOSEN")
    BY <1>6 DEF ClosePlayer, TypeOK
  <2>2. TypeOK'
    BY <1>6, <2>1 DEF ClosePlayer, TypeOK, browserVars, historyVars
  <2>. QED  BY <1>6, <2>1, <2>2 DEF ClosePlayer, SendsToTheRegistered, RegisteredAreOpen
<1>. QED  BY <1>1, <1>2, <1>3, <1>4, <1>5, <1>6 DEF Broadcasting

(* The actions of a connection, on the server and in the browser.            *)
LEMMA ConnKeepsInv ==
  ASSUME HubInv, NEW c \in Conn, ConnStep(c)
  PROVE  HubInv'
<1>. USE DEF HubInv
<1>1. CASE PumpFails(c)
  <2>1. TypeOK'
    BY <1>1 DEF PumpFails, TypeOK, serverVars, browserVars, historyVars
  <2>. QED  BY <1>1, <2>1 DEF PumpFails, TypeOK, serverVars, SendsToTheRegistered, RegisteredAreOpen
<1>2. CASE Unregister(c)
  <2>1. TypeOK'
    BY <1>2 DEF Unregister, TypeOK, serverVars, browserVars, historyVars
  <2>2. left = {}
    BY <1>2 DEF Unregister, HubLocked, SendsToTheRegistered
  <2>. QED  BY <1>2, <2>1, <2>2 DEF Unregister, TypeOK, serverVars, SendsToTheRegistered, RegisteredAreOpen
<1>3. CASE CloseConn(c)
  <2>1. GiveUp \/ OnClose \/ UNCHANGED browserVars
    BY <1>3 DEF CloseConn
  <2>2. /\ ws' \in Conn \cup {0} /\ attempts' \in Nat
        /\ shown' \in Snapshots /\ expected' \in Nat /\ lost' \in BOOLEAN
        /\ fetch' \in [Fetch -> [status : {"NONE", "STATE", "PROBE", "ANSWERED", "REFUSED"},
                                 snapshot : Snapshots]]
    BY <2>1, GiveUpTypes, OnCloseTypes DEF browserVars, TypeOK
  <2>3. /\ closing' \in [Conn -> {"NO", "CHOSEN", "UNREGISTERED", "CLOSED", "DONE"}]
        /\ queue' \in [Conn -> Seq(Messages)]
    BY <1>3 DEF CloseConn, TypeOK
  <2>4. TypeOK'
    BY <1>3, <2>2, <2>3 DEF CloseConn, TypeOK, serverVars, historyVars
  <2>. QED  BY <1>3, <2>4 DEF CloseConn, TypeOK, serverVars, SendsToTheRegistered, RegisteredAreOpen
<1>4. CASE OnDisconnect(c)
  <2>1. /\ now' \in [version : Nat, revision : Nat]
        /\ writer' \in [pc : {"IDLE", "COMMITTED", "SENDING"}, revision : Nat, kick : BOOLEAN]
        /\ writer.pc = "IDLE" /\ writer'.pc = "COMMITTED"
    BY <1>4, CommitTypes DEF OnDisconnect
  <2>2. TypeOK'
    BY <1>4, <2>1 DEF OnDisconnect, TypeOK, browserVars, historyVars
  <2>. QED  BY <1>4, <2>1, <2>2 DEF OnDisconnect, TypeOK, SendsToTheRegistered, RegisteredAreOpen
<1>5. CASE LoadSnapshot(c)
  <2>1. now \in Snapshots
    BY DEF TypeOK, Snapshots
  <2>2. TypeOK'
    BY <1>5, <2>1 DEF LoadSnapshot, TypeOK, serverVars, browserVars, historyVars
  <2>. QED  BY <1>5, <2>2 DEF LoadSnapshot, TypeOK, serverVars, SendsToTheRegistered, RegisteredAreOpen
<1>6. CASE Register(c)
  <2>1. attempts' \in Nat /\ missed' \in BOOLEAN
    <3>1. CASE ws = c
      BY <1>6, <3>1 DEF Register
    <3>2. CASE ws # c
      BY <1>6, <3>2 DEF Register, TypeOK
    <3>. QED  BY <3>1, <3>2
  <2>2. TypeOK'
    BY <1>6, <2>1 DEF Register, TypeOK, serverVars
  <2>. QED  BY <1>6, <2>2 DEF Register, TypeOK, serverVars, SendsToTheRegistered, RegisteredAreOpen
<1>7. CASE AcceptFails(c)
  <2>1. TypeOK'
    BY <1>7 DEF AcceptFails, TypeOK, serverVars, browserVars, historyVars
  <2>. QED  BY <1>7, <2>1 DEF AcceptFails, TypeOK, serverVars, SendsToTheRegistered, RegisteredAreOpen
<1>8. CASE SendSnapshot(c)
  <2>1. Initial(snap[c]) \in Messages
    BY DEF TypeOK, Initial, Messages
  <2>2. queue' \in [Conn -> Seq(Messages)]
    BY <1>8, <2>1, EnqueueTypes DEF SendSnapshot, TypeOK
  <2>3. TypeOK'
    BY <1>8, <2>2 DEF SendSnapshot, TypeOK, serverVars, browserVars, historyVars
  <2>. QED  BY <1>8, <2>3 DEF SendSnapshot, TypeOK, serverVars, SendsToTheRegistered, RegisteredAreOpen
<1>9. CASE Deliver(c)
  <2>1. Head(queue[c]) \in Messages /\ Tail(queue[c]) \in Seq(Messages)
    BY <1>9 DEF Deliver, TypeOK
  <2>2. queue' \in [Conn -> Seq(Messages)]
    BY <1>9, <2>1 DEF Deliver, TypeOK
  <2>3. UNCHANGED <<serverVars, registered, handler, snap, closing, code, ws, attempts, lost,
                    trouble>> /\ failed' = FALSE
    BY <1>9 DEF Deliver
  <2>4. ASSUME Head(queue[c]).type = "SNAPSHOT",
               SetSnapshot(Head(queue[c]).snapshot),
               missed' = MissedWith(Head(queue[c]).snapshot),
               UNCHANGED fetch
        PROVE  TypeOK'
    <3>1. Head(queue[c]).snapshot \in Snapshots
      BY <2>1, <2>4 DEF Messages
    <3>2. shown' \in Snapshots /\ expected' \in Nat /\ missed' \in BOOLEAN
      BY <2>4, <3>1 DEF SetSnapshot, MissedWith, Snapshots
    <3>. QED  BY <2>2, <2>4, <2>3, <3>2 DEF TypeOK, serverVars
  <2>5. ASSUME Head(queue[c]).type = "STATE_UPDATED",
               expected' = Head(queue[c]).revision,
               Ask("STATE"),
               UNCHANGED <<shown, missed>>
        PROVE  TypeOK'
    <3>1. expected' \in Nat
      BY <2>1, <2>5 DEF Messages
    <3>2. fetch' \in [Fetch -> [status : {"NONE", "STATE", "PROBE", "ANSWERED", "REFUSED"},
                               snapshot : Snapshots]]
      BY <2>5, AskTypes
    <3>. QED  BY <2>2, <2>5, <2>3, <3>1, <3>2 DEF TypeOK, serverVars
  <2>6. TypeOK'
    BY <1>9, <2>4, <2>5 DEF Deliver
  <2>. QED  BY <1>9, <2>6 DEF Deliver, serverVars, SendsToTheRegistered, RegisteredAreOpen
<1>. QED  BY <1>1, <1>2, <1>3, <1>4, <1>5, <1>6, <1>7, <1>8, <1>9 DEF ConnStep

(* The actions of the browser's requests and its socket leave the hub alone. *)
LEMMA BrowserKeepsInv ==
  ASSUME HubInv,
         (\E f \in Fetch : FetchStep(f)) \/ Drop \/ Open \/ OpenRefused \/ OpenFails
  PROVE  HubInv'
<1>. USE DEF HubInv
<1>1. ASSUME NEW f \in Fetch, ServeState(f)  PROVE HubInv'
  <2>1. now \in Snapshots
    BY DEF TypeOK, Snapshots
  <2>2. TypeOK'
    BY <1>1, <2>1 DEF ServeState, TypeOK, serverVars, connVars, historyVars
  <2>. QED  BY <1>1, <2>2 DEF ServeState, serverVars, connVars, SendsToTheRegistered, RegisteredAreOpen
<1>2. ASSUME NEW f \in Fetch, ServeProbe(f)  PROVE HubInv'
  <2>1. CASE revoked
    <3>1. fetch' \in [Fetch -> [status : {"NONE", "STATE", "PROBE", "ANSWERED", "REFUSED"},
                               snapshot : Snapshots]]
      <4>1. fetch' = [fetch EXCEPT ![f] = [fetch[f] EXCEPT !.status = "REFUSED"]]
        BY <1>2, <2>1 DEF ServeProbe
      <4>2. /\ fetch[f] = [status |-> fetch[f].status, snapshot |-> fetch[f].snapshot]
            /\ fetch[f].snapshot \in Snapshots
        BY DEF TypeOK
      <4>3. [fetch[f] EXCEPT !.status = "REFUSED"]
              = [status |-> "REFUSED", snapshot |-> fetch[f].snapshot]
        BY <4>2
      <4>. QED  BY <4>1, <4>2, <4>3 DEF TypeOK
    <3>2. UNCHANGED <<now, writer>>
      BY <1>2, <2>1 DEF ServeProbe
    <3>3. TypeOK'
      BY <1>2, <3>1, <3>2 DEF ServeProbe, TypeOK, connVars, historyVars
    <3>. QED  BY <1>2, <3>2, <3>3 DEF ServeProbe, connVars, SendsToTheRegistered, RegisteredAreOpen
  <2>2. CASE ~revoked
    <3>1. /\ now' \in [version : Nat, revision : Nat]
          /\ writer' \in [pc : {"IDLE", "COMMITTED", "SENDING"}, revision : Nat, kick : BOOLEAN]
          /\ writer.pc = "IDLE" /\ writer'.pc = "COMMITTED"
      BY <1>2, <2>2, CommitTypes DEF ServeProbe
    <3>2. now' \in Snapshots
      BY <3>1 DEF Snapshots
    <3>3. fetch' = [fetch EXCEPT ![f] = [status |-> "ANSWERED", snapshot |-> now']]
      BY <1>2, <2>2 DEF ServeProbe
    <3>4. fetch' \in [Fetch -> [status : {"NONE", "STATE", "PROBE", "ANSWERED", "REFUSED"},
                               snapshot : Snapshots]]
      BY <3>2, <3>3 DEF TypeOK
    <3>5. TypeOK'
      BY <1>2, <3>1, <3>4 DEF ServeProbe, TypeOK, connVars, historyVars
    <3>. QED  BY <1>2, <3>1, <3>5 DEF ServeProbe, connVars, SendsToTheRegistered, RegisteredAreOpen
  <2>. QED  BY <2>1, <2>2
<1>3. ASSUME NEW f \in Fetch, Answer(f)  PROVE HubInv'
  <2>1. fetch[f].snapshot \in Snapshots
    BY DEF TypeOK
  <2>2. shown' \in Snapshots /\ expected' \in Nat /\ missed' \in BOOLEAN
    BY <1>3, <2>1 DEF Answer, SetSnapshot, MissedWith, Snapshots
  <2>3. TypeOK'
    BY <1>3, <2>2 DEF Answer, TypeOK, serverVars, connVars, NoSnapshot, Snapshots
  <2>. QED  BY <1>3, <2>3 DEF Answer, serverVars, connVars, SendsToTheRegistered, RegisteredAreOpen
<1>4. ASSUME NEW f \in Fetch, Refusal(f)  PROVE HubInv'
  <2>1. TypeOK'
    BY <1>4, GiveUpTypes DEF Refusal, TypeOK, serverVars, connVars, historyVars
  <2>. QED  BY <1>4, <2>1 DEF Refusal, serverVars, connVars, SendsToTheRegistered, RegisteredAreOpen
<1>5. ASSUME NEW f \in Fetch, FetchFails(f)  PROVE HubInv'
  <2>1. TypeOK'
    BY <1>5 DEF FetchFails, TypeOK, serverVars, connVars, NoSnapshot, Snapshots
  <2>. QED  BY <1>5, <2>1 DEF FetchFails, serverVars, connVars, SendsToTheRegistered, RegisteredAreOpen
<1>6. CASE Drop \/ OpenRefused \/ OpenFails
  <2>1. OnClose /\ UNCHANGED <<serverVars, connVars, historyVars>> /\ trouble' \in Nat
    BY <1>6 DEF Drop, OpenRefused, OpenFails, TypeOK
  <2>2. TypeOK'
    BY <2>1, OnCloseTypes DEF TypeOK, serverVars, connVars, historyVars
  <2>. QED  BY <2>1, <2>2 DEF serverVars, connVars, SendsToTheRegistered, RegisteredAreOpen
<1>7. CASE Open
  <2>1. PICK c \in Conn : /\ handler[c] = "NONE"
                          /\ handler' = [handler EXCEPT ![c] = "AUTHENTICATED"]
                          /\ ws' = c
    BY <1>7 DEF Open
  <2>2. TypeOK'
    BY <1>7, <2>1 DEF Open, TypeOK, serverVars, historyVars
  <2>. QED  BY <1>7, <2>1, <2>2 DEF Open, TypeOK, serverVars, SendsToTheRegistered, RegisteredAreOpen
<1>. QED  BY <1>1, <1>2, <1>3, <1>4, <1>5, <1>6, <1>7 DEF FetchStep

LEMMA HubStep == HubInv /\ [Next]_vars => HubInv'
<1>1. CASE UNCHANGED vars
  BY <1>1 DEF HubInv, TypeOK, SendsToTheRegistered, RegisteredAreOpen, vars, serverVars,
              connVars, browserVars, historyVars
<1>. QED  BY <1>1, RoomKeepsInv, ConnKeepsInv, BrowserKeepsInv DEF Next

LEMMA HubInvariant == Spec => []HubInv
BY HubInit, HubStep, PTL DEF Spec

(* The server's, the connections' and the browser's state keep their types.  *)
THEOREM HubTypeCorrect == Spec => []TypeOK
<1>1. HubInv => TypeOK
  BY DEF HubInv
<1>. QED  BY <1>1, HubInvariant, PTL

(* A broadcast, which does not take the clients' mutexes, never sends on a   *)
(* channel that closeWithCode has closed.                                    *)
THEOREM HubNoSendOnClosed == Spec => []NoSendOnClosed
<1>1. HubInv => NoSendOnClosed
  BY DEF HubInv, TypeOK, SendsToTheRegistered, RegisteredAreOpen, NoSendOnClosed
<1>. QED  BY <1>1, HubInvariant, PTL

-----------------------------------------------------------------------------
(* The browser catches up.  What travels to it is never ahead of the room,   *)
(* and of the messages in a buffer one at most is no news.                   *)

(* A snapshot of the room as it is or was; no two have the same version.     *)
Known(s) ==
  /\ s.version <= now.version /\ s.revision <= now.revision
  /\ s.version = now.version => s = now

NothingAhead ==
  /\ writer.revision <= now.revision
  /\ \A c \in Conn : Known(snap[c])
  /\ \A f \in Fetch : Known(fetch[f].snapshot)
  /\ \A c \in Conn : \A i \in 1 .. Len(queue[c]) :
       /\ queue[c][i].type = "SNAPSHOT" => Known(queue[c][i].snapshot)
       /\ queue[c][i].type = "STATE_UPDATED" => queue[c][i].revision <= now.revision

OneInitial ==
  \A c \in Conn : \A i, j \in 1 .. Len(queue[c]) :
    queue[c][i].type = "SNAPSHOT" =>
      /\ handler[c] = "RUNNING"
      /\ queue[c][j].type = "SNAPSHOT" => i = j

(* The browser expects another revision than it shows only while it waits    *)
(* for an answer at least as new, or has failed to get one.  It never        *)
(* expects a revision that the room has not reached.                         *)
Brings(f) ==
  \/ fetch[f].status \in {"STATE", "PROBE", "REFUSED"}
  \/ fetch[f].status = "ANSWERED" /\ fetch[f].snapshot.revision >= expected

ExpectedIsShown ==
  /\ expected <= now.revision
  /\ expected = shown.revision \/ failed \/ lost \/ \E f \in Fetch : Brings(f)

NewsInv == HubInv /\ NothingAhead /\ OneInitial

(* What one step can do to a buffer: it stays, is emptied, loses its first   *)
(* message, gets the news, or, once in its life, the SNAPSHOT.               *)
QueueStep(c) ==
  \/ queue'[c] = queue[c]
  \/ queue'[c] = <<>>
  \/ queue[c] # <<>> /\ queue'[c] = Tail(queue[c])
  \/ queue'[c] = Append(queue[c], Updated(writer.revision))
  \/ /\ handler[c] = "REGISTERED" /\ handler'[c] = "RUNNING"
     /\ queue'[c] = Append(queue[c], Initial(snap[c]))

(* A request that is sent is a free one, and the others stay as they are.    *)
LEMMA AskBusy ==
  ASSUME HubInv, NEW kind \in {"STATE", "PROBE"}, Ask(kind)
  PROVE  /\ \E f \in Fetch : fetch'[f].status = kind
         /\ \A f \in Fetch : \/ fetch'[f] = fetch[f]
                             \/ /\ fetch[f].status = "NONE"
                                /\ fetch'[f] = [status |-> kind, snapshot |-> NoSnapshot]
<1>1. Free \subseteq Nat /\ Free # {} /\ Free \subseteq Fetch
  BY DEF Ask, Free, Fetch
<1>2. Min(Free) \in Free
  BY <1>1, MinIsFirst
<1>. QED  BY <1>1, <1>2 DEF Ask, Free, HubInv, TypeOK

LEMMA CommitGrows ==
  ASSUME TypeOK, NEW counts \in BOOLEAN, NEW announced \in BOOLEAN, announced => counts,
         NEW kick, Commit(counts, announced, kick)
  PROVE  /\ now'.version = now.version + 1 /\ now'.revision >= now.revision
         /\ writer'.revision <= now'.revision
         /\ writer'.pc = "COMMITTED"
BY DEF TypeOK, Commit

(* The room as it is stays, or grows a version.                              *)
LEMMA NowGrows ==
  ASSUME HubInv, writer.revision <= now.revision, [Next]_vars
  PROVE  /\ \/ now' = now
            \/ now'.version = now.version + 1 /\ writer'.pc = "COMMITTED"
         /\ now'.revision >= now.revision
         /\ writer'.revision <= now'.revision
<1>. USE DEF HubInv
<1>0. now.revision \in Nat /\ now.version \in Nat
  BY DEF TypeOK
<1>1. CASE RoomChanges
  <2>1. \/ Commit(TRUE, TRUE, FALSE)
        \/ Commit(TRUE, FALSE, FALSE)
        \/ Commit(FALSE, FALSE, FALSE)
    <3>1. PICK k \in CommandKinds : Commit(k.counts, k.announced, FALSE)
      BY <1>1 DEF RoomChanges
    <3>2. CASE k = [counts |-> TRUE, announced |-> TRUE]
      BY <3>1, <3>2
    <3>3. CASE k = [counts |-> TRUE, announced |-> FALSE]
      BY <3>1, <3>3
    <3>4. CASE k = [counts |-> FALSE, announced |-> FALSE]
      BY <3>1, <3>4
    <3>. QED  BY <3>2, <3>3, <3>4 DEF CommandKinds
  <2>. QED  BY <2>1, CommitGrows
<1>2. CASE Kick
  BY <1>2, CommitGrows DEF Kick
<1>3. CASE BroadcastBegin \/ BroadcastEnd
  <2>1. now' = now /\ writer'.revision = writer.revision
    BY <1>3 DEF BroadcastBegin, BroadcastEnd, TypeOK
  <2>. QED  BY <1>0, <2>1
<1>4. ASSUME NEW c \in Conn, BroadcastSend(c)  PROVE UNCHANGED <<now, writer>>
  BY <1>4 DEF BroadcastSend
<1>5. CASE ClosePlayer
  BY <1>0, <1>5 DEF ClosePlayer
<1>6. ASSUME NEW c \in Conn, ConnStep(c), ~OnDisconnect(c)  PROVE UNCHANGED <<now, writer>>
  BY <1>6 DEF ConnStep, PumpFails, Unregister, CloseConn, LoadSnapshot, Register, AcceptFails,
              SendSnapshot, Deliver, serverVars
<1>7. ASSUME NEW c \in Conn, OnDisconnect(c)
      PROVE  /\ now'.version = now.version + 1 /\ now'.revision >= now.revision
             /\ writer'.revision <= now'.revision /\ writer'.pc = "COMMITTED"
  BY <1>7, CommitGrows DEF OnDisconnect
<1>8. ASSUME NEW f \in Fetch, FetchStep(f)
      PROVE  \/ UNCHANGED <<now, writer>>
             \/ /\ now'.version = now.version + 1 /\ now'.revision >= now.revision
                /\ writer'.revision <= now'.revision /\ writer'.pc = "COMMITTED"
  <2>1. CASE ServeProbe(f)
    BY <2>1, CommitGrows DEF ServeProbe
  <2>2. CASE ~ServeProbe(f)
    BY <1>8, <2>2 DEF FetchStep, ServeState, Answer, Refusal, FetchFails, serverVars
  <2>. QED  BY <2>1, <2>2
<1>9. CASE Drop \/ Open \/ OpenRefused \/ OpenFails
  BY <1>0, <1>9 DEF Drop, Open, OpenRefused, OpenFails, serverVars
<1>10. CASE UNCHANGED vars
  BY <1>0, <1>10 DEF vars, serverVars
<1>. QED  BY <1>0, <1>1, <1>2, <1>3, <1>4, <1>5, <1>6, <1>7, <1>8, <1>9, <1>10 DEF Next, Broadcasting

(* Whatever was known before a step is known after it.                       *)
LEMMA KnownStays ==
  ASSUME NewsInv, [Next]_vars, NEW s \in Snapshots, Known(s)
  PROVE  /\ s.version <= now'.version /\ s.revision <= now'.revision
         /\ s.version = now'.version => s = now'
<1>1. \/ now' = now
      \/ now'.version = now.version + 1 /\ now'.revision >= now.revision
  BY NowGrows DEF NewsInv, NothingAhead
<1>2. HubInv'
  BY HubStep DEF NewsInv
<1>. QED  BY <1>1, <1>2 DEF Known, NewsInv, HubInv, TypeOK, Snapshots

LEMMA QueueSteps ==
  ASSUME HubInv, [Next]_vars, NEW c \in Conn
  PROVE  QueueStep(c) /\ (handler[c] = "RUNNING" => handler'[c] = "RUNNING")
<1>. USE DEF HubInv
<1>0. SUFFICES ASSUME ~(queue'[c] = queue[c] /\ handler'[c] = handler[c])
               PROVE  QueueStep(c) /\ (handler[c] = "RUNNING" => handler'[c] = "RUNNING")
  BY DEF QueueStep
<1>1. CASE RoomChanges \/ Kick \/ BroadcastBegin \/ BroadcastEnd \/ ClosePlayer
  BY <1>0, <1>1 DEF RoomChanges, Kick, BroadcastBegin, BroadcastEnd, ClosePlayer, connVars
<1>2. ASSUME NEW d \in Conn, BroadcastSend(d)
      PROVE  QueueStep(c) /\ (handler[c] = "RUNNING" => handler'[c] = "RUNNING")
  BY <1>0, <1>2 DEF BroadcastSend, Enqueue, QueueStep, TypeOK
<1>3. ASSUME NEW d \in Conn, ConnStep(d)
      PROVE  QueueStep(c) /\ (handler[c] = "RUNNING" => handler'[c] = "RUNNING")
  <2>1. CASE PumpFails(d) \/ Unregister(d) \/ OnDisconnect(d)
    BY <1>0, <2>1 DEF PumpFails, Unregister, OnDisconnect
  <2>2. CASE CloseConn(d)
    BY <1>0, <2>2 DEF CloseConn, QueueStep, TypeOK
  <2>3. CASE LoadSnapshot(d) \/ Register(d) \/ AcceptFails(d)
    <3>1. /\ queue' = queue /\ handler[d] # "RUNNING"
          /\ \A x \in Conn \ {d} : handler'[x] = handler[x]
      BY <2>3 DEF LoadSnapshot, Register, AcceptFails, TypeOK
    <3>. QED  BY <3>1 DEF QueueStep
  <2>4. CASE SendSnapshot(d)
    BY <1>0, <2>4 DEF SendSnapshot, Enqueue, QueueStep, TypeOK
  <2>5. CASE Deliver(d)
    BY <1>0, <2>5 DEF Deliver, QueueStep, TypeOK
  <2>. QED  BY <1>3, <2>1, <2>2, <2>3, <2>4, <2>5 DEF ConnStep
<1>4. ASSUME NEW f \in Fetch, FetchStep(f)  PROVE UNCHANGED <<queue, handler>>
  BY <1>4 DEF FetchStep, ServeState, ServeProbe, Answer, Refusal, FetchFails, connVars
<1>5. CASE Drop \/ OpenRefused \/ OpenFails \/ UNCHANGED vars
  BY <1>0, <1>5 DEF Drop, OpenRefused, OpenFails, vars, connVars
<1>6. CASE Open
  <2>1. PICK d \in Conn : handler[d] = "NONE" /\ handler' = [handler EXCEPT ![d] = "AUTHENTICATED"]
    BY <1>6 DEF Open
  <2>2. queue' = queue
    BY <1>6 DEF Open
  <2>. QED  BY <2>1, <2>2 DEF QueueStep, TypeOK
<1>. QED  BY <1>0, <1>1, <1>2, <1>3, <1>4, <1>5, <1>6 DEF Next, Broadcasting

(* A handler's snapshot, and those in the requests, are taken from the room. *)
LEMMA SnapSteps ==
  ASSUME HubInv, [Next]_vars, NEW c \in Conn
  PROVE  snap'[c] = snap[c] \/ snap'[c] = now'
<1>. USE DEF HubInv
<1>0. SUFFICES ASSUME snap' # snap  PROVE snap'[c] = snap[c] \/ snap'[c] = now'
  OBVIOUS
<1>1. ASSUME NEW d \in Conn, ConnStep(d)  PROVE LoadSnapshot(d)
  BY <1>0, <1>1 DEF ConnStep, PumpFails, Unregister, CloseConn, OnDisconnect, Register,
                    AcceptFails, SendSnapshot, Deliver
<1>2. PICK d \in Conn : LoadSnapshot(d)
  <2>1. ~(RoomChanges \/ Kick \/ Broadcasting \/ ClosePlayer)
    BY <1>0 DEF RoomChanges, Kick, Broadcasting, BroadcastBegin, BroadcastEnd, BroadcastSend,
                ClosePlayer, connVars
  <2>2. ~(Drop \/ Open \/ OpenRefused \/ OpenFails \/ UNCHANGED vars)
    BY <1>0 DEF Drop, Open, OpenRefused, OpenFails, vars, connVars
  <2>3. ASSUME NEW f \in Fetch, FetchStep(f)  PROVE FALSE
    BY <1>0, <2>3 DEF FetchStep, ServeState, ServeProbe, Answer, Refusal, FetchFails, connVars
  <2>. QED  BY <1>1, <2>1, <2>2, <2>3 DEF Next
<1>. QED  BY <1>2 DEF LoadSnapshot, serverVars, TypeOK

LEMMA OnCloseAsks ==
  ASSUME HubInv, OnClose, NEW f \in Fetch
  PROVE  fetch'[f] = fetch[f] \/ fetch'[f].snapshot = NoSnapshot
<1>1. UNCHANGED fetch \/ Ask("PROBE")
  BY DEF OnClose
<1>. QED  BY <1>1, AskBusy

LEMMA FetchSteps ==
  ASSUME HubInv, [Next]_vars, NEW f \in Fetch
  PROVE  fetch'[f].snapshot \in {fetch[f].snapshot, NoSnapshot, now'}
<1>. USE DEF HubInv
<1>0. SUFFICES ASSUME fetch'[f] # fetch[f]
               PROVE  fetch'[f].snapshot \in {fetch[f].snapshot, NoSnapshot, now'}
  OBVIOUS
<1>1. CASE RoomChanges \/ Kick \/ Broadcasting \/ ClosePlayer \/ Open \/ UNCHANGED vars
  BY <1>0, <1>1 DEF RoomChanges, Kick, Broadcasting, BroadcastBegin, BroadcastEnd, BroadcastSend,
                    ClosePlayer, Open, vars, browserVars
<1>2. ASSUME NEW c \in Conn, ConnStep(c)
      PROVE  fetch'[f].snapshot \in {fetch[f].snapshot, NoSnapshot, now'}
  <2>1. CASE CloseConn(c)
    <3>1. GiveUp \/ OnClose
      BY <1>0, <2>1 DEF CloseConn, browserVars
    <3>. QED  BY <3>1, OnCloseAsks DEF GiveUp
  <2>2. CASE Deliver(c)
    <3>1. UNCHANGED fetch \/ Ask("STATE")
      BY <2>2 DEF Deliver
    <3>. QED  BY <3>1, AskBusy
  <2>. QED
    BY <1>0, <1>2, <2>1, <2>2 DEF ConnStep, PumpFails, Unregister, OnDisconnect, LoadSnapshot,
                                  Register, AcceptFails, SendSnapshot, browserVars
<1>3. ASSUME NEW g \in Fetch, FetchStep(g)
      PROVE  fetch'[f].snapshot \in {fetch[f].snapshot, NoSnapshot, now'}
  <2>1. CASE ServeState(g)
    BY <1>0, <2>1 DEF ServeState, serverVars, TypeOK
  <2>2. CASE ServeProbe(g)
    <3>1. CASE revoked
      <4>1. fetch' = [fetch EXCEPT ![g].status = "REFUSED"]
        BY <2>2, <3>1 DEF ServeProbe
      <4>. QED  BY <4>1 DEF TypeOK
    <3>2. CASE ~revoked
      <4>1. fetch' = [fetch EXCEPT ![g] = [status |-> "ANSWERED", snapshot |-> now']]
        BY <2>2, <3>2 DEF ServeProbe
      <4>. QED  BY <4>1 DEF TypeOK
    <3>. QED  BY <3>1, <3>2
  <2>3. CASE Answer(g) \/ FetchFails(g)
    BY <1>0, <2>3 DEF Answer, FetchFails, TypeOK
  <2>4. CASE Refusal(g)
    BY <2>4 DEF Refusal, GiveUp
  <2>. QED  BY <1>3, <2>1, <2>2, <2>3, <2>4 DEF FetchStep
<1>4. CASE Drop \/ OpenRefused \/ OpenFails
  BY <1>4, OnCloseAsks DEF Drop, OpenRefused, OpenFails
<1>. QED  BY <1>1, <1>2, <1>3, <1>4 DEF Next

LEMMA NewsInit == Init => NewsInv
<1>. SUFFICES ASSUME Init  PROVE NewsInv
  OBVIOUS
<1>1. HubInv
  BY HubInit
<1>2. NothingAhead /\ OneInitial
  BY DEF Init, NothingAhead, OneInitial, Known, NoSnapshot
<1>. QED  BY <1>1, <1>2 DEF NewsInv

LEMMA NewsStep == NewsInv /\ [Next]_vars => NewsInv'
<1>. SUFFICES ASSUME NewsInv, [Next]_vars  PROVE NewsInv'
  OBVIOUS
<1> DEFINE KnownThen(s) ==
      /\ s.version <= now'.version /\ s.revision <= now'.revision
      /\ s.version = now'.version => s = now'
<1>1. HubInv /\ HubInv' /\ TypeOK /\ TypeOK'
  BY HubStep DEF NewsInv, HubInv
<1>2. /\ writer'.revision <= now'.revision /\ now.revision <= now'.revision
      /\ writer.revision <= now.revision
  BY <1>1, NowGrows DEF NewsInv, NothingAhead, TypeOK
<1>3. KnownThen(now') /\ KnownThen(NoSnapshot)
  BY <1>1 DEF TypeOK, NoSnapshot
<1>4. ASSUME NEW s \in Snapshots, Known(s)  PROVE KnownThen(s)
  BY <1>4, KnownStays
<1>. HIDE DEF KnownThen
<1>5. \A c \in Conn : KnownThen(snap'[c])
  BY <1>1, <1>3, <1>4, SnapSteps DEF TypeOK, NewsInv, NothingAhead
<1>6. \A f \in Fetch : KnownThen(fetch'[f].snapshot)
  BY <1>1, <1>3, <1>4, FetchSteps DEF TypeOK, NewsInv, NothingAhead
<1>7. ASSUME NEW c \in Conn
      PROVE  /\ \A i \in 1 .. Len(queue'[c]) :
                  /\ queue'[c][i].type = "SNAPSHOT" => KnownThen(queue'[c][i].snapshot)
                  /\ queue'[c][i].type = "STATE_UPDATED" => queue'[c][i].revision <= now'.revision
             /\ \A i, j \in 1 .. Len(queue'[c]) :
                  queue'[c][i].type = "SNAPSHOT" =>
                    /\ handler'[c] = "RUNNING"
                    /\ queue'[c][j].type = "SNAPSHOT" => i = j
  <2>1. QueueStep(c) /\ (handler[c] = "RUNNING" => handler'[c] = "RUNNING")
    BY <1>1, QueueSteps
  <2>2. queue[c] \in Seq(Messages)
    BY <1>1 DEF TypeOK
  <2>3. ASSUME NEW i \in 1 .. Len(queue[c])
        PROVE  /\ queue[c][i].type = "SNAPSHOT" => KnownThen(queue[c][i].snapshot)
               /\ queue[c][i].type = "STATE_UPDATED" => queue[c][i].revision <= now'.revision
    <3>1. queue[c][i] \in Messages
      BY <2>2
    <3>2. queue[c][i].type = "SNAPSHOT" =>
            queue[c][i].snapshot \in Snapshots /\ Known(queue[c][i].snapshot)
      BY <3>1 DEF Messages, NewsInv, NothingAhead
    <3>3. queue[c][i].type = "STATE_UPDATED" =>
            queue[c][i].revision \in Nat /\ queue[c][i].revision <= now.revision
      BY <3>1 DEF Messages, NewsInv, NothingAhead
    <3>. QED  BY <1>1, <1>2, <1>4, <3>2, <3>3 DEF TypeOK
  <2>4. \A i, j \in 1 .. Len(queue[c]) :
          queue[c][i].type = "SNAPSHOT" =>
            /\ handler[c] = "RUNNING"
            /\ queue[c][j].type = "SNAPSHOT" => i = j
    BY DEF NewsInv, OneInitial
  <2>5. CASE queue'[c] = queue[c]
    BY <2>1, <2>3, <2>4, <2>5
  <2>6. CASE queue'[c] = <<>>
    BY <2>6
  <2>7. CASE queue[c] # <<>> /\ queue'[c] = Tail(queue[c])
    <3>1. /\ Len(queue'[c]) = Len(queue[c]) - 1 /\ Len(queue[c]) \in Nat
          /\ \A i \in 1 .. Len(queue'[c]) : i + 1 \in 1 .. Len(queue[c])
                                            /\ queue'[c][i] = queue[c][i + 1]
      BY <2>2, <2>7
    <3>2. \A i \in 1 .. Len(queue'[c]) :
            /\ queue'[c][i].type = "SNAPSHOT" => KnownThen(queue'[c][i].snapshot)
            /\ queue'[c][i].type = "STATE_UPDATED" => queue'[c][i].revision <= now'.revision
      BY <2>3, <3>1
    <3>3. ASSUME NEW i \in 1 .. Len(queue'[c]), NEW j \in 1 .. Len(queue'[c]),
                 queue'[c][i].type = "SNAPSHOT"
          PROVE  /\ handler'[c] = "RUNNING"
                 /\ queue'[c][j].type = "SNAPSHOT" => i = j
      <4>1. /\ queue[c][i + 1].type = "SNAPSHOT" /\ queue'[c][j] = queue[c][j + 1]
            /\ i + 1 \in 1 .. Len(queue[c]) /\ j + 1 \in 1 .. Len(queue[c])
        BY <3>1, <3>3
      <4>2. handler[c] = "RUNNING" /\ (queue[c][j + 1].type = "SNAPSHOT" => i + 1 = j + 1)
        BY <2>4, <4>1
      <4>. QED  BY <2>1, <4>1, <4>2
    <3>. QED  BY <3>2, <3>3
  <2>8. CASE queue'[c] = Append(queue[c], Updated(writer.revision))
    <3>1. /\ Len(queue'[c]) = Len(queue[c]) + 1 /\ Len(queue[c]) \in Nat
          /\ \A i \in 1 .. Len(queue[c]) : queue'[c][i] = queue[c][i]
          /\ queue'[c][Len(queue[c]) + 1] = Updated(writer.revision)
      BY <2>2, <2>8
    <3>2. /\ Updated(writer.revision).type # "SNAPSHOT"
          /\ Updated(writer.revision).revision <= now'.revision
      BY <1>1, <1>2 DEF Updated, TypeOK
    <3>3. \A i \in 1 .. Len(queue'[c]) : i \in 1 .. Len(queue[c]) \/ i = Len(queue[c]) + 1
      BY <3>1
    <3>. QED  BY <2>1, <2>3, <2>4, <3>1, <3>2, <3>3
  <2>9. CASE /\ handler[c] = "REGISTERED" /\ handler'[c] = "RUNNING"
             /\ queue'[c] = Append(queue[c], Initial(snap[c]))
    <3>1. /\ Len(queue'[c]) = Len(queue[c]) + 1 /\ Len(queue[c]) \in Nat
          /\ \A i \in 1 .. Len(queue[c]) : queue'[c][i] = queue[c][i]
          /\ queue'[c][Len(queue[c]) + 1] = Initial(snap[c])
      BY <2>2, <2>9
    <3>2. Initial(snap[c]).type # "STATE_UPDATED" /\ KnownThen(Initial(snap[c]).snapshot)
      BY <1>1, <1>4 DEF Initial, TypeOK, NewsInv, NothingAhead
    <3>3. \A i \in 1 .. Len(queue'[c]) : i \in 1 .. Len(queue[c]) \/ i = Len(queue[c]) + 1
      BY <3>1
    <3>. QED  BY <2>3, <2>4, <2>9, <3>1, <3>2, <3>3
  <2>. QED  BY <2>1, <2>5, <2>6, <2>7, <2>8, <2>9 DEF QueueStep
<1>. QED  BY <1>2, <1>5, <1>6, <1>7, <1>1 DEF NewsInv, NothingAhead, OneInitial, Known, KnownThen

LEMMA NewsInvariant == Spec => []NewsInv
BY NewsInit, NewsStep, PTL DEF Spec

-----------------------------------------------------------------------------
(* Why a dropped message does no harm.                                       *)

News(q) == \E i \in 1 .. Len(q) : q[i] \in {Updated(n) : n \in 0 .. now.revision}

(* A full buffer holds news, for it has at most one SNAPSHOT.                *)
LEMMA FullBufferHasNews ==
  ASSUME NewsInv, NEW c \in Conn, ~Fits(queue[c])
  PROVE  News(queue[c])
<1>1. queue[c] \in Seq(Messages) /\ now.revision \in Nat
  BY DEF NewsInv, HubInv, TypeOK
<1>2. 1 \in 1 .. Len(queue[c]) /\ 2 \in 1 .. Len(queue[c])
  BY <1>1, BufferAssumption DEF Fits
<1>3. PICK i \in {1, 2} : queue[c][i].type # "SNAPSHOT"
  BY <1>2 DEF NewsInv, OneInitial
<1>4. queue[c][i] \in Messages /\ i \in 1 .. Len(queue[c])
  BY <1>1, <1>2
<1>5. queue[c][i].type = "STATE_UPDATED"
  BY <1>3, <1>4 DEF Messages
<1>6. queue[c][i].revision \in 0 .. now.revision
  BY <1>1, <1>4, <1>5 DEF Messages, NewsInv, NothingAhead
<1>7. queue[c][i] = Updated(queue[c][i].revision)
  BY <1>4, <1>5 DEF Messages, Updated
<1>. QED  BY <1>4, <1>6, <1>7 DEF News

(* So news that is sent is in the buffer, itself or other that came before.  *)
LEMMA NewsIsSent ==
  ASSUME NewsInv, NEW c \in Conn, Enqueue(c, Updated(writer.revision)), now' = now
  PROVE  News(queue[c])'
<1>1. /\ queue[c] \in Seq(Messages) /\ now.revision \in Nat /\ writer.revision \in Nat
      /\ queue \in [Conn -> Seq(Messages)]
  BY DEF NewsInv, HubInv, TypeOK
<1>2. CASE Fits(queue[c])
  <2>1. queue'[c] = Append(queue[c], Updated(writer.revision))
    BY <1>1, <1>2 DEF Enqueue
  <2>2. /\ Len(queue[c]) + 1 \in 1 .. Len(queue'[c])
        /\ queue'[c][Len(queue[c]) + 1] = Updated(writer.revision)
    BY <1>1, <2>1
  <2>3. writer.revision \in 0 .. now'.revision
    BY <1>1 DEF NewsInv, NothingAhead
  <2>. QED  BY <2>2, <2>3 DEF News
<1>3. CASE ~Fits(queue[c])
  <2>1. queue' = queue
    BY <1>3 DEF Enqueue
  <2>. QED  BY <1>3, <2>1, FullBufferHasNews DEF News
<1>. QED  BY <1>2, <1>3

(* A snapshot that the browser takes shows the room as it is, or nothing was *)
(* lost by it: what it showed, and what it took, were not the room's last.   *)
LEMMA SnapshotTaken ==
  ASSUME NewsInv, NEW s \in Snapshots, Known(s), SetSnapshot(s), ~MissedWith(s), now' = now
  PROVE  shown' = now' \/ (~missed /\ shown # now /\ s # now)
<1>1. now.version \in Nat /\ s.version \in Nat \cup {-1} /\ shown.version \in Nat \cup {-1}
  BY DEF NewsInv, HubInv, TypeOK, Snapshots
<1>. QED  BY <1>1 DEF SetSnapshot, MissedWith, Known

(* A step that disturbs nothing of what the browser shows or waits for.      *)
LEMMA Undisturbed ==
  ASSUME NewsInv, ClientsCatchUp, NEW c \in Conn, c \in registered, ws = c, ~missed,
         UNCHANGED <<now, shown, writer, fetch>>, left' = left,
         queue'[c] = queue[c], handler'[c] = handler[c], snap'[c] = snap[c]
  PROVE  (shown = now \/ OnItsWay(c))'
<1>1. shown = now \/ OnItsWay(c)
  BY DEF ClientsCatchUp
<1>. QED  BY <1>1 DEF OnItsWay

CaughtUp(c) == c \in registered /\ ws = c /\ ~missed => shown = now \/ OnItsWay(c)

LEMMA CatchUpRoom ==
  ASSUME NewsInv, ClientsCatchUp, NEW c \in Conn,
         RoomChanges \/ Kick \/ Broadcasting \/ ClosePlayer
  PROVE  CaughtUp(c)'
<1>. USE DEF NewsInv, HubInv
<1>. SUFFICES ASSUME c \in registered', ws' = c, ~missed'
              PROVE  (shown = now \/ OnItsWay(c))'
  BY DEF CaughtUp
<1>1. CASE RoomChanges \/ Kick
  <2>1. writer'.pc = "COMMITTED"
    BY <1>1 DEF RoomChanges, Kick, Commit
  <2>. QED  BY <2>1 DEF OnItsWay
<1>2. CASE BroadcastBegin
  BY <1>2 DEF BroadcastBegin, connVars, OnItsWay
<1>3. ASSUME NEW d \in Conn, BroadcastSend(d)  PROVE (shown = now \/ OnItsWay(c))'
  <2>1. UNCHANGED <<now, shown, fetch, writer, handler, snap, registered, ws>>
    BY <1>3 DEF BroadcastSend, browserVars
  <2>2. CASE d = c
    <3>1. News(queue[c])'
      BY <1>3, <2>1, <2>2, NewsIsSent DEF BroadcastSend
    <3>. QED  BY <3>1 DEF News, OnItsWay
  <2>3. CASE d # c
    <3>1. queue'[c] = queue[c] /\ (c \in left => c \in left') /\ ~missed
      BY <1>3, <2>1, <2>3 DEF BroadcastSend, Enqueue, TypeOK
    <3>2. shown = now \/ OnItsWay(c)
      BY <2>1, <3>1 DEF ClientsCatchUp
    <3>. QED  BY <2>1, <3>1, <3>2 DEF OnItsWay
  <2>. QED  BY <2>2, <2>3
<1>4. CASE BroadcastEnd
  <2>1. /\ UNCHANGED <<now, shown, fetch, left, handler, snap, queue, registered, ws, missed>>
        /\ writer.pc # "COMMITTED"
    BY <1>4 DEF BroadcastEnd, connVars, browserVars, historyVars
  <2>2. shown = now \/ OnItsWay(c)
    BY <2>1 DEF ClientsCatchUp
  <2>. QED  BY <2>1, <2>2 DEF OnItsWay
<1>5. CASE ClosePlayer
  BY <1>5, Undisturbed DEF ClosePlayer, browserVars, historyVars
<1>. QED  BY <1>1, <1>2, <1>3, <1>4, <1>5 DEF Broadcasting

LEMMA CatchUpConn ==
  ASSUME NewsInv, ClientsCatchUp, NEW c \in Conn, NEW d \in Conn, ConnStep(d)
  PROVE  CaughtUp(c)'
<1>. USE DEF NewsInv, HubInv
<1>. SUFFICES ASSUME c \in registered', ws' = c, ~missed'
              PROVE  (shown = now \/ OnItsWay(c))'
  BY DEF CaughtUp
<1>1. CASE PumpFails(d) \/ Unregister(d)
  BY <1>1, Undisturbed DEF PumpFails, Unregister, serverVars, browserVars, historyVars
<1>2. CASE CloseConn(d)
  <2>1. UNCHANGED browserVars
    <3>1. ASSUME ws = d  PROVE FALSE
      BY <1>2, <3>1 DEF CloseConn, GiveUp, OnClose, Conn
    <3>. QED  BY <1>2, <3>1 DEF CloseConn
  <2>2. ASSUME d = c  PROVE FALSE
    BY <1>2, <2>2 DEF CloseConn, RegisteredAreOpen
  <2>. QED  BY <1>2, <2>1, <2>2, Undisturbed DEF CloseConn, serverVars, browserVars, historyVars, TypeOK
<1>3. CASE OnDisconnect(d)
  <2>1. writer'.pc = "COMMITTED"
    BY <1>3 DEF OnDisconnect, Commit
  <2>. QED  BY <2>1 DEF OnItsWay
<1>4. CASE LoadSnapshot(d) \/ AcceptFails(d)
  <2>1. d # c
    BY <1>4 DEF LoadSnapshot, AcceptFails, RegisteredAreOpen
  <2>. QED
    BY <1>4, <2>1, Undisturbed DEF LoadSnapshot, AcceptFails, serverVars, browserVars, historyVars,
                                   TypeOK
<1>5. CASE Register(d)
  <2>1. CASE d = c
    <3>1. writer.pc = "COMMITTED" \/ snap[c] = now
      BY <1>5, <2>1 DEF Register, HubLocked, TypeOK
    <3>2. handler'[c] = "REGISTERED" /\ UNCHANGED <<now, writer, snap>>
      BY <1>5, <2>1 DEF Register, serverVars, TypeOK
    <3>. QED  BY <3>1, <3>2 DEF OnItsWay
  <2>2. CASE d # c
    <3>1. missed' = missed /\ c \in registered /\ ws = c /\ handler'[c] = handler[c]
      BY <1>5, <2>2 DEF Register, TypeOK
    <3>. QED  BY <1>5, <3>1, Undisturbed DEF Register, serverVars
  <2>. QED  BY <2>1, <2>2
<1>6. CASE SendSnapshot(d)
  <2>1. UNCHANGED <<now, writer, left, registered, snap, shown, fetch, ws, missed>>
    BY <1>6 DEF SendSnapshot, serverVars, browserVars, historyVars
  <2>2. CASE d # c
    <3>1. queue'[c] = queue[c] /\ handler'[c] = handler[c]
      BY <1>6, <2>2 DEF SendSnapshot, Enqueue, TypeOK
    <3>. QED  BY <2>1, <3>1, Undisturbed
  <2>3. CASE d = c
    <3>1. closing[c] \notin {"CLOSED", "DONE"}
      BY <2>1 DEF RegisteredAreOpen
    <3>2. Enqueue(c, Initial(snap[c]))
      BY <1>6, <2>3, <3>1 DEF SendSnapshot
    <3>3. shown = now \/ OnItsWay(c)
      BY <2>1 DEF ClientsCatchUp
    <3>4. CASE ~Fits(queue[c])
      <4>1. News(queue[c]) /\ queue' = queue
        BY <3>2, <3>4, FullBufferHasNews DEF Enqueue
      <4>. QED  BY <2>1, <4>1 DEF News, OnItsWay
    <3>5. CASE Fits(queue[c])
      <4>1. queue[c] \in Seq(Messages) /\ queue'[c] = Append(queue[c], Initial(snap[c]))
        BY <3>2, <3>5 DEF Enqueue, TypeOK
      <4>2. /\ \A i \in 1 .. Len(queue[c]) : i \in 1 .. Len(queue'[c]) /\ queue'[c][i] = queue[c][i]
            /\ Len(queue[c]) + 1 \in 1 .. Len(queue'[c])
            /\ queue'[c][Len(queue[c]) + 1] = Initial(snap[c])
        BY <4>1
      <4>3. CASE handler[c] = "REGISTERED" /\ snap[c] = now
        BY <2>1, <4>2, <4>3 DEF OnItsWay
      <4>4. CASE ~(handler[c] = "REGISTERED" /\ snap[c] = now)
        BY <2>1, <3>3, <4>2, <4>4 DEF OnItsWay
      <4>. QED  BY <4>3, <4>4
    <3>. QED  BY <3>4, <3>5
  <2>. QED  BY <2>2, <2>3
<1>7. CASE Deliver(d)
  <2>1. UNCHANGED <<now, writer, left, registered, handler, snap, ws>> /\ ws = d
    BY <1>7 DEF Deliver, serverVars
  <2>2. d = c
    BY <2>1
  <2>3. /\ queue[c] \in Seq(Messages) /\ queue[c] # <<>> /\ queue'[c] = Tail(queue[c])
        /\ Head(queue[c]) = queue[c][1] /\ 1 \in 1 .. Len(queue[c])
        /\ queue[c][1] \in Messages
    BY <1>7, <2>2 DEF Deliver, TypeOK
  <2>4. CASE queue[c][1].type = "STATE_UPDATED"
    <3>1. Ask("STATE")
      BY <1>7, <2>2, <2>3, <2>4 DEF Deliver
    <3>2. \E f \in Fetch : fetch'[f].status = "STATE"
      BY <3>1, AskBusy
    <3>. QED  BY <3>2 DEF OnItsWay
  <2>5. CASE queue[c][1].type = "SNAPSHOT"
    <3> DEFINE s == queue[c][1].snapshot
    <3>1. SetSnapshot(s) /\ ~MissedWith(s) /\ UNCHANGED fetch
      BY <1>7, <2>2, <2>3, <2>5 DEF Deliver
    <3>2. s \in Snapshots /\ Known(s)
      BY <2>3, <2>5 DEF Messages, NothingAhead
    <3>3. shown' = now' \/ (~missed /\ shown # now /\ s # now)
      BY <2>1, <3>1, <3>2, SnapshotTaken
    <3>4. ASSUME ~missed, shown # now, s # now  PROVE OnItsWay(c)'
      <4>1. OnItsWay(c)
        BY <2>1, <2>2, <3>4 DEF ClientsCatchUp
      <4>2. ASSUME NEW i \in 1 .. Len(queue[c]),
                   queue[c][i] \in {Initial(now)} \cup {Updated(n) : n \in 0 .. now.revision}
            PROVE  \E j \in 1 .. Len(queue'[c]) :
                     queue'[c][j] \in {Initial(now)} \cup {Updated(n) : n \in 0 .. now.revision}
        <5>1. i # 1
          BY <2>5, <3>4, <4>2 DEF Initial, Updated
        <5>2. i - 1 \in 1 .. Len(queue'[c]) /\ queue'[c][i - 1] = queue[c][i]
          BY <2>3, <5>1
        <5>. QED  BY <4>2, <5>2
      <4>. QED  BY <2>1, <3>1, <4>1, <4>2 DEF OnItsWay
    <3>. QED  BY <3>3, <3>4
  <2>. QED  BY <2>3, <2>4, <2>5 DEF Messages
<1>. QED  BY <1>1, <1>2, <1>3, <1>4, <1>5, <1>6, <1>7 DEF ConnStep

LEMMA CatchUpBrowser ==
  ASSUME NewsInv, ClientsCatchUp, NEW c \in Conn,
         (\E f \in Fetch : FetchStep(f)) \/ Drop \/ Open \/ OpenRefused \/ OpenFails
  PROVE  CaughtUp(c)'
<1>. USE DEF NewsInv, HubInv
<1>. SUFFICES ASSUME c \in registered', ws' = c, ~missed'
              PROVE  (shown = now \/ OnItsWay(c))'
  BY DEF CaughtUp
<1>1. ASSUME NEW f \in Fetch, ServeState(f)  PROVE (shown = now \/ OnItsWay(c))'
  <2>1. UNCHANGED <<now, shown, writer, left, registered, queue, handler, snap, ws, missed>>
    BY <1>1 DEF ServeState, serverVars, connVars, historyVars
  <2>2. fetch'[f].status = "REFUSED" \/ (fetch'[f].status = "ANSWERED" /\ fetch'[f].snapshot = now)
    BY <1>1 DEF ServeState, TypeOK
  <2>. QED  BY <2>1, <2>2 DEF OnItsWay
<1>2. ASSUME NEW f \in Fetch, ServeProbe(f)  PROVE (shown = now \/ OnItsWay(c))'
  <2>1. CASE revoked
    <3>1. fetch' = [fetch EXCEPT ![f].status = "REFUSED"]
      BY <1>2, <2>1 DEF ServeProbe
    <3>2. fetch'[f].status = "REFUSED"
      BY <3>1 DEF TypeOK
    <3>. QED  BY <3>2 DEF OnItsWay
  <2>2. CASE ~revoked
    <3>1. writer'.pc = "COMMITTED"
      BY <1>2, <2>2 DEF ServeProbe, Commit
    <3>. QED  BY <3>1 DEF OnItsWay
  <2>. QED  BY <2>1, <2>2
<1>3. ASSUME NEW f \in Fetch, Answer(f)  PROVE (shown = now \/ OnItsWay(c))'
  <2> DEFINE s == fetch[f].snapshot
  <2>1. /\ UNCHANGED <<now, writer, left, registered, queue, handler, snap, ws>>
        /\ SetSnapshot(s) /\ ~MissedWith(s)
        /\ \A g \in Fetch \ {f} : fetch'[g] = fetch[g]
        /\ fetch[f].status = "ANSWERED"
    BY <1>3 DEF Answer, serverVars, connVars, TypeOK
  <2>2. s \in Snapshots /\ Known(s)
    BY DEF TypeOK, NothingAhead
  <2>3. shown' = now' \/ (~missed /\ shown # now /\ s # now)
    BY <2>1, <2>2, SnapshotTaken
  <2>4. ASSUME ~missed, shown # now, s # now  PROVE OnItsWay(c)'
    <3>1. OnItsWay(c)
      BY <2>1, <2>4 DEF ClientsCatchUp
    <3>2. ASSUME NEW g \in Fetch,
                 \/ fetch[g].status \in {"STATE", "PROBE", "REFUSED"}
                 \/ fetch[g].status = "ANSWERED" /\ fetch[g].snapshot = now
          PROVE  fetch'[g] = fetch[g]
      BY <2>1, <2>4, <3>2
    <3>. QED  BY <2>1, <3>1, <3>2 DEF OnItsWay
  <2>. QED  BY <2>3, <2>4
<1>4. ASSUME NEW f \in Fetch, Refusal(f)  PROVE FALSE
  BY <1>4 DEF Refusal, GiveUp, Conn
<1>5. ASSUME NEW f \in Fetch, FetchFails(f)  PROVE FALSE
  BY <1>5 DEF FetchFails
<1>6. CASE Drop \/ OpenRefused \/ OpenFails
  BY <1>6 DEF Drop, OpenRefused, OpenFails, OnClose, Conn
<1>7. CASE Open
  <2>1. handler[c] = "NONE" /\ registered' = registered
    BY <1>7 DEF Open
  <2>. QED  BY <2>1 DEF RegisteredAreOpen
<1>. QED  BY <1>1, <1>2, <1>3, <1>4, <1>5, <1>6, <1>7 DEF FetchStep

LEMMA CatchUpStep == NewsInv /\ ClientsCatchUp /\ [Next]_vars => ClientsCatchUp'
<1>. SUFFICES ASSUME NewsInv, ClientsCatchUp, [Next]_vars  PROVE ClientsCatchUp'
  OBVIOUS
<1>1. HubInv'
  BY HubStep DEF NewsInv
<1>2. ASSUME NEW c \in Conn  PROVE CaughtUp(c)'
  <2>1. CASE UNCHANGED vars
    BY <2>1, Undisturbed DEF vars, serverVars, connVars, browserVars, historyVars, CaughtUp
  <2>. QED  BY <2>1, CatchUpRoom, CatchUpConn, CatchUpBrowser DEF Next
<1>. QED  BY <1>1, <1>2 DEF CaughtUp, ClientsCatchUp, HubInv, TypeOK

(* Whoever has a registered connection shows the room as it is or the news   *)
(* is on its way, through every interleaving of changes, broadcasts, full    *)
(* buffers, answers and reconnects, but for the named races; this is what    *)
(* Hub.Broadcast may rest on when it drops a message (hub.go).               *)
THEOREM HubClientsCatchUp == Spec => []ClientsCatchUp
<1>1. Init => ClientsCatchUp
  BY DEF Init, ClientsCatchUp
<1>. QED  BY <1>1, CatchUpStep, NewsInvariant, PTL DEF Spec

-----------------------------------------------------------------------------
(* The revision that the browser's commands carry.                           *)

LEMMA OnCloseBrings ==
  ASSUME HubInv, OnClose, NEW f \in Fetch, Brings(f)
  PROVE  Brings(f)'
<1>1. UNCHANGED <<fetch, expected>> \/ (Ask("PROBE") /\ expected' = expected)
  BY DEF OnClose
<1>. QED  BY <1>1, AskBusy DEF Brings

(* What is delivered or answered is nothing that the room has not reached.   *)
LEMMA DeliveredIsKnown ==
  ASSUME NewsInv, NEW c \in Conn, Deliver(c)
  PROVE  expected' \in Nat /\ expected' <= now.revision /\ now' = now
<1> DEFINE msg == Head(queue[c])
<1>1. queue[c] \in Seq(Messages) /\ queue[c] # <<>>
  BY DEF Deliver, NewsInv, HubInv, TypeOK
<1>2. 1 \in 1 .. Len(queue[c]) /\ msg = queue[c][1] /\ msg \in Messages
  BY <1>1
<1>3. msg.type = "SNAPSHOT" => msg.snapshot \in Snapshots /\ Known(msg.snapshot)
  BY <1>2 DEF Messages, NewsInv, NothingAhead
<1>4. msg.type = "STATE_UPDATED" => msg.revision \in Nat /\ msg.revision <= now.revision
  BY <1>2 DEF Messages, NewsInv, NothingAhead
<1>. HIDE DEF msg
<1>5. \/ msg.type = "SNAPSHOT" /\ SetSnapshot(msg.snapshot)
      \/ msg.type = "STATE_UPDATED" /\ expected' = msg.revision
  BY DEF Deliver, msg
<1>6. now' = now
  BY DEF Deliver, serverVars
<1>. QED  BY <1>3, <1>4, <1>5, <1>6 DEF SetSnapshot, Known, Snapshots

LEMMA ExpectedIsReached ==
  ASSUME NewsInv, expected <= now.revision, [Next]_vars
  PROVE  expected' <= now'.revision
<1>. USE DEF NewsInv, HubInv
<1>1. HubInv'
  BY HubStep
<1>2. now.revision <= now'.revision
  BY NowGrows DEF NothingAhead, TypeOK
<1>3. CASE expected' = expected
  BY <1>1, <1>2, <1>3 DEF TypeOK
<1>4. CASE RoomChanges \/ Kick \/ Broadcasting \/ ClosePlayer \/ Open \/ UNCHANGED vars
  BY <1>3, <1>4 DEF RoomChanges, Kick, Broadcasting, BroadcastBegin, BroadcastEnd, BroadcastSend,
                    ClosePlayer, Open, vars, browserVars
<1>5. CASE Drop \/ OpenRefused \/ OpenFails
  BY <1>3, <1>5 DEF Drop, OpenRefused, OpenFails, OnClose
<1>6. ASSUME NEW c \in Conn, Deliver(c)  PROVE expected' <= now'.revision
  BY <1>6, DeliveredIsKnown
<1>7. ASSUME NEW c \in Conn, ConnStep(c), ~Deliver(c)  PROVE expected' = expected
  BY <1>7 DEF ConnStep, PumpFails, Unregister, OnDisconnect, LoadSnapshot, Register, AcceptFails,
              SendSnapshot, CloseConn, GiveUp, OnClose, browserVars
<1>8. ASSUME NEW f \in Fetch, Answer(f)  PROVE expected' <= now'.revision
  <2>1. Known(fetch[f].snapshot) /\ fetch[f].snapshot \in Snapshots
    BY DEF NothingAhead, TypeOK
  <2>2. expected' = fetch[f].snapshot.revision /\ now' = now
    BY <1>8 DEF Answer, SetSnapshot, serverVars
  <2>. QED  BY <2>1, <2>2 DEF Known
<1>9. ASSUME NEW f \in Fetch, FetchStep(f), ~Answer(f)  PROVE expected' = expected
  BY <1>9 DEF FetchStep, ServeState, ServeProbe, Refusal, FetchFails, GiveUp
<1>. QED  BY <1>3, <1>4, <1>5, <1>6, <1>7, <1>8, <1>9 DEF Next

LEMMA ExpectedStep == NewsInv /\ ExpectedIsShown /\ [Next]_vars => ExpectedIsShown'
<1>. SUFFICES ASSUME NewsInv, ExpectedIsShown, [Next]_vars  PROVE ExpectedIsShown'
  OBVIOUS
<1>0. HubInv /\ HubInv' /\ expected <= now.revision /\ expected' <= now'.revision
  BY ExpectedIsReached, HubStep DEF NewsInv, ExpectedIsShown
<1>1. CASE UNCHANGED <<expected, shown, failed, lost, fetch>>
  BY <1>0, <1>1 DEF ExpectedIsShown, Brings
<1>2. CASE OnClose /\ failed' = failed
  BY <1>0, <1>2, OnCloseBrings DEF OnClose, ExpectedIsShown
<1>3. CASE GiveUp
  BY <1>0, <1>3 DEF GiveUp, ExpectedIsShown
<1>4. CASE RoomChanges \/ Kick \/ Broadcasting \/ ClosePlayer \/ Open \/ UNCHANGED vars
  BY <1>1, <1>4 DEF RoomChanges, Kick, Broadcasting, BroadcastBegin, BroadcastEnd, BroadcastSend,
                    ClosePlayer, Open, vars, browserVars, historyVars
<1>5. CASE Drop \/ OpenRefused \/ OpenFails
  BY <1>2, <1>5 DEF Drop, OpenRefused, OpenFails, historyVars
<1>6. ASSUME NEW c \in Conn, Deliver(c)  PROVE ExpectedIsShown'
  <2>1. CASE Ask("STATE")
    <3>1. PICK f \in Fetch : fetch'[f].status = "STATE"
      BY <1>0, <2>1, AskBusy
    <3>. QED  BY <1>0, <3>1 DEF ExpectedIsShown, Brings
  <2>2. CASE SetSnapshot(Head(queue[c]).snapshot)
    BY <1>0, <2>2 DEF SetSnapshot, ExpectedIsShown
  <2>. QED  BY <1>6, <2>1, <2>2 DEF Deliver
<1>7. ASSUME NEW c \in Conn, ConnStep(c), ~Deliver(c)  PROVE ExpectedIsShown'
  <2>1. CASE CloseConn(c)
    BY <1>1, <1>2, <1>3, <2>1 DEF CloseConn, browserVars, historyVars
  <2>2. CASE ~CloseConn(c)
    BY <1>1, <1>7, <2>2 DEF ConnStep, PumpFails, Unregister, OnDisconnect, LoadSnapshot,
                            Register, AcceptFails, SendSnapshot, browserVars, historyVars
  <2>. QED  BY <2>1, <2>2
<1>8. ASSUME NEW f \in Fetch, ServeState(f) \/ ServeProbe(f)  PROVE ExpectedIsShown'
  <2>1. UNCHANGED <<expected, shown, failed, lost>>
    BY <1>8 DEF ServeState, ServeProbe, historyVars
  <2>2. /\ fetch'[f].status \in {"REFUSED", "ANSWERED"}
        /\ fetch'[f].status = "ANSWERED" => fetch'[f].snapshot = now'
        /\ \A g \in Fetch \ {f} : fetch'[g] = fetch[g]
    <3>0. fetch \in [Fetch -> [status : {"NONE", "STATE", "PROBE", "ANSWERED", "REFUSED"},
                               snapshot : Snapshots]]
      BY <1>0 DEF HubInv, TypeOK
    <3>1. CASE ServeState(f)
      BY <3>0, <3>1 DEF ServeState, serverVars
    <3>2. CASE ServeProbe(f) /\ revoked
      <4>1. fetch' = [fetch EXCEPT ![f].status = "REFUSED"]
        BY <3>2 DEF ServeProbe
      <4>. QED  BY <3>0, <4>1
    <3>3. CASE ServeProbe(f) /\ ~revoked
      <4>1. fetch' = [fetch EXCEPT ![f] = [status |-> "ANSWERED", snapshot |-> now']]
        BY <3>3 DEF ServeProbe
      <4>. QED  BY <3>0, <4>1
    <3>. QED  BY <1>8, <3>1, <3>2, <3>3
  <2>3. expected' \in Nat /\ now'.revision \in Nat
    BY <1>0 DEF HubInv, TypeOK
  <2>4. Brings(f)'
    BY <1>0, <2>2, <2>3 DEF Brings
  <2>. QED  BY <1>0, <2>4 DEF ExpectedIsShown
<1>9. ASSUME NEW f \in Fetch, Answer(f)  PROVE ExpectedIsShown'
  BY <1>0, <1>9 DEF Answer, SetSnapshot, ExpectedIsShown
<1>10. ASSUME NEW f \in Fetch, Refusal(f) \/ FetchFails(f)  PROVE ExpectedIsShown'
  BY <1>0, <1>3, <1>10 DEF Refusal, FetchFails, ExpectedIsShown
<1>. QED  BY <1>4, <1>5, <1>6, <1>7, <1>8, <1>9, <1>10 DEF Next, FetchStep

(* A command from a picture that is no longer the room's carries a revision  *)
(* that is no longer the room's, unless the new picture is on its way or a   *)
(* request for it has failed (setSnapshot, applyStateUpdated).               *)
THEOREM HubStaleClicksAreRefused == Spec => []StaleClicksAreRefused
<1>1. Init => ExpectedIsShown
  BY DEF Init, ExpectedIsShown, NoSnapshot
<1>2. NewsInv /\ ExpectedIsShown => StaleClicksAreRefused
  <2>. SUFFICES ASSUME NewsInv, ExpectedIsShown, expected = now.revision,
                       NEW f \in Fetch, Brings(f), fetch[f].status = "ANSWERED"
                PROVE  fetch[f].snapshot.revision = now.revision
    BY DEF ExpectedIsShown, StaleClicksAreRefused, NewsIsFetched, Brings
  <2>1. Known(fetch[f].snapshot) /\ fetch[f].snapshot \in Snapshots /\ now.revision \in Nat
    BY DEF NewsInv, NothingAhead, HubInv, TypeOK
  <2>. QED  BY <2>1 DEF Known, Brings, Snapshots
<1>. QED  BY <1>1, <1>2, ExpectedStep, NewsInvariant, PTL DEF Spec
=============================================================================
