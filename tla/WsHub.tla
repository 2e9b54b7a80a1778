------------------------------- MODULE WsHub -------------------------------
(***************************************************************************)
(* How one player's browser follows a room: the hub and its clients        *)
(* (internal/transport/websocket), handleWS, and the browser's socket and  *)
(* stores (web/src).                                                       *)
(*                                                                         *)
(* The room is reduced to how many changes it has seen (version) and the   *)
(* revision it shows; the revision counts commands and timeouts only.  A   *)
(* snapshot is the pair.  The changes of a room and their broadcasts are   *)
(* serialized by its lock (RoomCoordinator).  The connections of other     *)
(* viewers are independent of these and left out.                          *)
(***************************************************************************)
EXTENDS Integers, Sequences, FiniteSetsExt

CONSTANTS
  Capacity,     \* the buffer of a client, 64 in the code
  ProbeAfter,   \* failed attempts before the browser probes, 3 in the code
  MaxConns,     \* bound: connections the browser ever opens
  MaxFetches,   \* bound: its requests under way at one time
  MaxVersion,   \* bound: no command, join or timeout beyond this version
  MaxTrouble    \* bound: network failures

ASSUME BoundsAssumption ==
  /\ Capacity \in Nat \ {0} /\ ProbeAfter \in Nat \ {0}
  /\ MaxConns \in Nat /\ MaxFetches \in Nat \ {0}
  /\ MaxVersion \in Nat /\ MaxTrouble \in Nat

(* Beside the first SNAPSHOT the buffer has room for the news of a change:  *)
(* one that the SNAPSHOT alone fills would drop news that nothing fetches.  *)
ASSUME BufferAssumption == Capacity > 1

VARIABLES
  now,          \* the room as it is: version and revision
  revoked,      \* the player has been kicked, the session revoked
  writer,       \* who holds the room lock, from commit to end of broadcast
  left,         \* the clients the broadcast has still to send to
  closer,       \* the goroutine that runs ClosePlayer
  registered,   \* Hub.rooms[room], this player's connections
  handler,      \* handleWS of each connection
  snap,         \* the snapshot handleWS has taken
  queue,        \* Client.send
  closing,      \* closeWithCode of each connection
  code,         \* the close code
  ws,           \* the browser's socket, 0 if it has none
  attempts,     \* reconnectAttempt, up to ProbeAfter
  shown,        \* the snapshot the browser shows
  expected,     \* gameSession.revision, which commands carry
  fetch,        \* the browser's requests for a snapshot
  lost,         \* the browser has gone back to the join form
  missed,       \* history: news of the room passed the browser by
  failed,       \* history: nothing has come since a request failed
  trouble

serverVars == <<now, revoked, writer, left, closer>>
connVars == <<registered, handler, snap, queue, closing, code>>
browserVars == <<ws, attempts, shown, expected, fetch, lost>>
historyVars == <<missed, failed>>
vars == <<serverVars, connVars, browserVars, historyVars, trouble>>

Conn == 1 .. MaxConns
Fetch == 1 .. MaxFetches
NoSnapshot == [version |-> -1, revision |-> 0]

Updated(revision) == [type |-> "STATE_UPDATED", revision |-> revision]
Initial(snapshot) == [type |-> "SNAPSHOT", snapshot |-> snapshot]

Snapshots == [version : Nat \cup {-1}, revision : Nat]
Messages == [type : {"STATE_UPDATED"}, revision : Nat]
              \cup [type : {"SNAPSHOT"}, snapshot : Snapshots]

-----------------------------------------------------------------------------
(* The room changes, and the change is broadcast before the lock is given  *)
(* up.  Commands name their revision; what joins, disconnects and timeouts *)
(* send has none, which the browser reads as 0.                            *)

Commit(counts, announced, kick) ==
  /\ writer.pc = "IDLE"
  /\ now' = [version |-> now.version + 1,
             revision |-> now.revision + (IF counts THEN 1 ELSE 0)]
  /\ writer' = [pc |-> "COMMITTED", kick |-> kick,
                revision |-> IF announced THEN now.revision + 1 ELSE 0]

CommandKinds == {[counts |-> TRUE, announced |-> TRUE],     \* HandleCommand
                 [counts |-> TRUE, announced |-> FALSE],    \* TIMEOUT_PHASE
                 [counts |-> FALSE, announced |-> FALSE]}   \* JoinRoom, Reconnect

RoomChanges ==
  /\ now.version < MaxVersion
  /\ \E k \in CommandKinds : Commit(k.counts, k.announced, FALSE)
  /\ UNCHANGED <<revoked, left, closer, connVars, browserVars, historyVars, trouble>>

(* KICK_PLAYER: the sessions are revoked with the command. *)
Kick ==
  /\ ~revoked
  /\ Commit(TRUE, TRUE, TRUE)
  /\ revoked' = TRUE
  /\ UNCHANGED <<left, closer, connVars, browserVars, historyVars, trouble>>

(* Hub.Broadcast holds the hub's read lock from the first send to the last. *)
BroadcastBegin ==
  /\ writer.pc = "COMMITTED"
  /\ writer' = [writer EXCEPT !.pc = "SENDING"]
  /\ left' = registered
  /\ UNCHANGED <<now, revoked, closer, connVars, browserVars, historyVars, trouble>>

(* Mutant: a buffer for one message. *)
FitsAlone(q) == Len(q) < 1

Fits(q) == Len(q) < Capacity

(* A message that does not fit is dropped, here and in Client.Send.         *)
Enqueue(c, msg) ==
  queue' = IF Fits(queue[c]) THEN [queue EXCEPT ![c] = Append(@, msg)] ELSE queue

BroadcastSend(c) ==
  /\ c \in left
  /\ left' = left \ {c}
  /\ Enqueue(c, Updated(writer.revision))
  /\ missed' = (missed /\ ws # c)
  /\ UNCHANGED <<failed, now, revoked, writer, closer, registered, handler, snap, closing,
                 code, browserVars, trouble>>

(* After the broadcast of a kick ClosePlayer runs on its own.               *)
BroadcastEnd ==
  /\ writer.pc = "SENDING" /\ left = {}
  /\ writer' = [writer EXCEPT !.pc = "IDLE", !.kick = FALSE]
  /\ closer' = IF writer.kick THEN "PENDING" ELSE closer
  /\ UNCHANGED <<now, revoked, left, connVars, browserVars, historyVars, trouble>>

HubLocked == writer.pc = "SENDING"

-----------------------------------------------------------------------------
(* Hub and clients.                                                         *)

(* ClosePlayer closes one of the player's connections, whichever it finds.  *)
ClosePlayer ==
  /\ closer = "PENDING"
  /\ closer' = "DONE"
  /\ \/ /\ registered = {}
        /\ UNCHANGED <<closing, code>>
     \/ \E c \in registered :
          IF closing[c] = "NO"
          THEN /\ closing' = [closing EXCEPT ![c] = "CHOSEN"]
               /\ code' = [code EXCEPT ![c] = "SESSION_REVOKED"]
          ELSE UNCHANGED <<closing, code>>
  /\ UNCHANGED <<now, revoked, writer, left, registered, handler, snap, queue,
                 browserVars, historyVars, trouble>>

(* A pump meets an error once the browser's end has gone.                   *)
PumpFails(c) ==
  /\ handler[c] = "RUNNING" /\ ws # c
  /\ closing[c] = "NO"
  /\ closing' = [closing EXCEPT ![c] = "CHOSEN"]
  /\ UNCHANGED <<serverVars, registered, handler, snap, queue, code, browserVars,
                 historyVars, trouble>>

(* Mutant: the hub's lock is not taken. *)
UnregisterAtOnce(c) ==
  /\ closing[c] = "CHOSEN"
  /\ closing' = [closing EXCEPT ![c] = "UNREGISTERED"]
  /\ registered' = registered \ {c}
  /\ UNCHANGED <<serverVars, handler, snap, queue, code, browserVars, historyVars, trouble>>

Unregister(c) ==
  /\ closing[c] = "CHOSEN" /\ ~HubLocked
  /\ closing' = [closing EXCEPT ![c] = "UNREGISTERED"]
  /\ registered' = registered \ {c}
  /\ UNCHANGED <<serverVars, handler, snap, queue, code, browserVars, historyVars, trouble>>

(* The browser's requests. *)
Free == {f \in Fetch : fetch[f].status = "NONE"}

Ask(kind) ==
  /\ Free # {}
  /\ fetch' = [fetch EXCEPT ![Min(Free)] = [status |-> kind, snapshot |-> NoSnapshot]]

(* Mutant: the session is never probed. *)
OnCloseUnprobed ==
  /\ ws' = 0
  /\ attempts' = IF attempts < ProbeAfter THEN attempts + 1 ELSE attempts
  /\ UNCHANGED <<fetch, shown, expected, lost>>

(* onclose without the code of a revocation: scheduleReconnect. *)
OnClose ==
  /\ ws' = 0
  /\ attempts' = IF attempts < ProbeAfter THEN attempts + 1 ELSE attempts
  /\ IF attempts' = ProbeAfter THEN Ask("PROBE") ELSE UNCHANGED fetch
  /\ UNCHANGED <<shown, expected, lost>>

(* notifySessionLost: back to the join form. *)
GiveUp ==
  /\ lost' = TRUE
  /\ ws' = 0
  /\ fetch' = [f \in Fetch |-> [status |-> "NONE", snapshot |-> NoSnapshot]]
  /\ UNCHANGED <<attempts, shown, expected>>

(* The channel and the connection are closed.  Until then the write pump    *)
(* may have sent any part of the queue (Deliver).  A browser that is still  *)
(* there learns the code.                                                   *)
CloseConn(c) ==
  /\ closing[c] = "UNREGISTERED"
  /\ closing' = [closing EXCEPT ![c] = "CLOSED"]
  /\ queue' = [queue EXCEPT ![c] = <<>>]
  /\ CASE ws # c -> UNCHANGED browserVars
       [] ws = c /\ code[c] = "SESSION_REVOKED" -> GiveUp
       [] OTHER -> OnClose
  /\ UNCHANGED <<serverVars, registered, handler, snap, code, historyVars, trouble>>

(* MarkDisconnected, a change of the room like any other.                   *)
OnDisconnect(c) ==
  /\ closing[c] = "CLOSED"
  /\ closing' = [closing EXCEPT ![c] = "DONE"]
  /\ Commit(FALSE, FALSE, FALSE)
  /\ UNCHANGED <<revoked, left, closer, registered, handler, snap, queue, code,
                 browserVars, historyVars, trouble>>

-----------------------------------------------------------------------------
(* handleWS: authenticate, take a snapshot, accept and register, send the   *)
(* snapshot, run the pumps.                                                 *)

LoadSnapshot(c) ==
  /\ handler[c] = "AUTHENTICATED"
  /\ handler' = [handler EXCEPT ![c] = "HANDSHAKE"]
  /\ snap' = [snap EXCEPT ![c] = now]
  /\ UNCHANGED <<serverVars, registered, queue, closing, code, browserVars, historyVars,
                 trouble>>

(* The browser's onopen comes with the acceptance.  What has been broadcast *)
(* since the snapshot, or a kick since the authentication, is missed.       *)
Register(c) ==
  /\ handler[c] = "HANDSHAKE" /\ ~HubLocked
  /\ handler' = [handler EXCEPT ![c] = "REGISTERED"]
  /\ registered' = registered \cup {c}
  /\ IF ws = c
     THEN /\ attempts' = 0
          /\ missed' = (writer.pc = "IDLE" /\ (revoked \/ snap[c] # now))
     ELSE UNCHANGED <<attempts, missed>>
  /\ UNCHANGED <<failed, serverVars, snap, queue, closing, code, ws, shown, expected, fetch,
                 lost, trouble>>

(* The browser has gone before the handshake was done. *)
AcceptFails(c) ==
  /\ handler[c] = "HANDSHAKE" /\ ws # c
  /\ handler' = [handler EXCEPT ![c] = "GONE"]
  /\ UNCHANGED <<serverVars, registered, snap, queue, closing, code, browserVars,
                 historyVars, trouble>>

SendSnapshot(c) ==
  /\ handler[c] = "REGISTERED"
  /\ handler' = [handler EXCEPT ![c] = "RUNNING"]
  /\ IF closing[c] = "CLOSED" \/ closing[c] = "DONE"
     THEN UNCHANGED queue
     ELSE Enqueue(c, Initial(snap[c]))
  /\ UNCHANGED <<serverVars, registered, snap, closing, code, browserVars, historyVars,
                 trouble>>

-----------------------------------------------------------------------------
(* The browser.                                                             *)

(* Mutant: the revision never goes back. *)
SetSnapshotForward(s) ==
  /\ shown' = s
  /\ expected' = Max({expected, s.revision})

(* setSnapshot takes whatever comes, be it older than what is shown.        *)
SetSnapshot(s) ==
  /\ shown' = s
  /\ expected' = s.revision

MissedWith(s) == s.version < shown.version \/ (missed /\ (s # now \/ revoked))

(* onmessage.  STATE_UPDATED sets the revision, and then asks for the state. *)
Deliver(c) ==
  /\ ws = c
  /\ handler[c] = "RUNNING" /\ closing[c] \in {"NO", "CHOSEN", "UNREGISTERED"}
  /\ queue[c] # <<>>
  /\ queue' = [queue EXCEPT ![c] = Tail(@)]
  /\ LET msg == Head(queue[c]) IN
     \/ /\ msg.type = "SNAPSHOT"
        /\ SetSnapshot(msg.snapshot)
        /\ missed' = MissedWith(msg.snapshot)
        /\ UNCHANGED fetch
     \/ /\ msg.type = "STATE_UPDATED"
        /\ expected' = msg.revision
        /\ Ask("STATE")
        /\ UNCHANGED <<shown, missed>>
  /\ failed' = FALSE
  /\ UNCHANGED <<serverVars, registered, handler, snap, closing, code, ws, attempts,
                 lost, trouble>>

(* snapshotFor answers with the room as it is, to who has a session.        *)
ServeState(f) ==
  /\ fetch[f].status = "STATE"
  /\ fetch' = [fetch EXCEPT ![f] =
                 [status |-> IF revoked THEN "REFUSED" ELSE "ANSWERED", snapshot |-> now]]
  /\ UNCHANGED <<serverVars, connVars, ws, attempts, shown, expected, lost, historyVars,
                 trouble>>

(* Coordinator.Reconnect, by which a browser without a socket asks whether  *)
(* it still has a session, marks the player connected.                      *)
ServeProbe(f) ==
  /\ fetch[f].status = "PROBE"
  /\ IF revoked
     THEN /\ fetch' = [fetch EXCEPT ![f].status = "REFUSED"]
          /\ UNCHANGED <<now, writer>>
     ELSE /\ Commit(FALSE, FALSE, FALSE)
          /\ fetch' = [fetch EXCEPT ![f] = [status |-> "ANSWERED", snapshot |-> now']]
  /\ UNCHANGED <<revoked, left, closer, connVars, ws, attempts, shown, expected, lost,
                 historyVars, trouble>>

(* Answers come in any order. *)
Answer(f) ==
  /\ fetch[f].status = "ANSWERED"
  /\ SetSnapshot(fetch[f].snapshot)
  /\ missed' = MissedWith(fetch[f].snapshot)
  /\ failed' = FALSE
  /\ fetch' = [fetch EXCEPT ![f] = [status |-> "NONE", snapshot |-> NoSnapshot]]
  /\ UNCHANGED <<serverVars, connVars, ws, attempts, lost, trouble>>

Refusal(f) ==
  /\ fetch[f].status = "REFUSED"
  /\ GiveUp
  /\ UNCHANGED <<serverVars, connVars, historyVars, trouble>>

(* A request that fails otherwise is forgotten. *)
FetchFails(f) ==
  /\ fetch[f].status # "NONE" /\ trouble < MaxTrouble
  /\ trouble' = trouble + 1
  /\ fetch' = [fetch EXCEPT ![f] = [status |-> "NONE", snapshot |-> NoSnapshot]]
  /\ missed' = TRUE /\ failed' = TRUE
  /\ UNCHANGED <<serverVars, connVars, ws, attempts, shown, expected, lost>>

Drop ==
  /\ ws # 0 /\ trouble < MaxTrouble
  /\ trouble' = trouble + 1
  /\ OnClose
  /\ UNCHANGED <<serverVars, connVars, historyVars>>

(* The timer of scheduleReconnect, or the page's connect.                   *)
Open ==
  /\ ws = 0 /\ ~lost
  /\ ~revoked
  /\ \E c \in Conn :
       /\ handler[c] = "NONE" /\ \A d \in Conn : handler[d] = "NONE" => c <= d
       /\ handler' = [handler EXCEPT ![c] = "AUTHENTICATED"]
       /\ ws' = c
  /\ UNCHANGED <<serverVars, registered, snap, queue, closing, code, attempts, shown,
                 expected, fetch, lost, historyVars, trouble>>

(* Authenticate refuses the upgrade. *)
OpenRefused ==
  /\ ws = 0 /\ ~lost
  /\ revoked
  /\ OnClose
  /\ UNCHANGED <<serverVars, connVars, historyVars, trouble>>

OpenFails ==
  /\ ws = 0 /\ ~lost /\ trouble < MaxTrouble
  /\ trouble' = trouble + 1
  /\ OnClose
  /\ UNCHANGED <<serverVars, connVars, historyVars>>

-----------------------------------------------------------------------------
Init ==
  /\ now = [version |-> 0, revision |-> 0]
  /\ revoked = FALSE
  /\ writer = [pc |-> "IDLE", revision |-> 0, kick |-> FALSE]
  /\ left = {}
  /\ closer = "NONE"
  /\ registered = {}
  /\ handler = [c \in Conn |-> "NONE"]
  /\ snap = [c \in Conn |-> NoSnapshot]
  /\ queue = [c \in Conn |-> <<>>]
  /\ closing = [c \in Conn |-> "NO"]
  /\ code = [c \in Conn |-> "NORMAL"]
  /\ ws = 0 /\ attempts = 0
  /\ shown = NoSnapshot /\ expected = 0
  /\ fetch = [f \in Fetch |-> [status |-> "NONE", snapshot |-> NoSnapshot]]
  /\ lost = FALSE /\ missed = FALSE /\ failed = FALSE /\ trouble = 0

Broadcasting == BroadcastBegin \/ BroadcastEnd \/ \E c \in Conn : BroadcastSend(c)

ConnStep(c) ==
  \/ PumpFails(c) \/ Unregister(c) \/ CloseConn(c) \/ OnDisconnect(c)
  \/ LoadSnapshot(c) \/ Register(c) \/ AcceptFails(c) \/ SendSnapshot(c)
  \/ Deliver(c)

FetchStep(f) ==
  ServeState(f) \/ ServeProbe(f) \/ Answer(f) \/ Refusal(f) \/ FetchFails(f)

Next ==
  \/ RoomChanges \/ Kick \/ Broadcasting \/ ClosePlayer
  \/ \E c \in Conn : ConnStep(c)
  \/ \E f \in Fetch : FetchStep(f)
  \/ Drop \/ Open \/ OpenRefused \/ OpenFails

Spec == Init /\ [][Next]_vars

(* The server's goroutines run, a live connection delivers, requests are    *)
(* answered and the browser's timers fire.  Whether a pump ever notices     *)
(* that the browser has gone is not assumed: Read has no deadline.          *)
FairSpec ==
  /\ Spec
  /\ WF_vars(Broadcasting) /\ WF_vars(ClosePlayer)
  /\ \A c \in Conn :
       /\ WF_vars(Unregister(c)) /\ WF_vars(CloseConn(c))
       /\ WF_vars(LoadSnapshot(c)) /\ WF_vars(Register(c)) /\ WF_vars(SendSnapshot(c))
       /\ WF_vars(Deliver(c))
  /\ \A f \in Fetch :
       WF_vars(ServeState(f) \/ ServeProbe(f)) /\ WF_vars(Answer(f) \/ Refusal(f))
  /\ WF_vars(Open) /\ WF_vars(OpenRefused)

-----------------------------------------------------------------------------
(* Properties.                                                              *)

TypeOK ==
  /\ now \in [version : Nat, revision : Nat]
  /\ revoked \in BOOLEAN /\ lost \in BOOLEAN
  /\ missed \in BOOLEAN /\ failed \in BOOLEAN
  /\ writer \in [pc : {"IDLE", "COMMITTED", "SENDING"}, revision : Nat, kick : BOOLEAN]
  /\ registered \subseteq Conn /\ left \subseteq Conn
  /\ closer \in {"NONE", "PENDING", "DONE"}
  /\ handler \in [Conn -> {"NONE", "AUTHENTICATED", "HANDSHAKE", "REGISTERED",
                           "RUNNING", "GONE"}]
  /\ snap \in [Conn -> Snapshots] /\ queue \in [Conn -> Seq(Messages)]
  /\ closing \in [Conn -> {"NO", "CHOSEN", "UNREGISTERED", "CLOSED", "DONE"}]
  /\ code \in [Conn -> {"NORMAL", "SESSION_REVOKED"}]
  /\ ws \in Conn \cup {0} /\ attempts \in Nat /\ trouble \in Nat
  /\ shown \in Snapshots /\ expected \in Nat
  /\ fetch \in [Fetch -> [status : {"NONE", "STATE", "PROBE", "ANSWERED", "REFUSED"},
                          snapshot : Snapshots]]

(* Broadcast writes to the clients' channels without their mutex; it never   *)
(* meets a closed one, however close, kick and broadcast overlap             *)
(* (Hub.Broadcast, Client.closeWithCode; a send on a closed channel panics). *)
NoSendOnClosed ==
  \A c \in left : closing[c] \notin {"CLOSED", "DONE"}

(* What can still tell the browser of connection c what it does not show.   *)
OnItsWay(c) ==
  \/ writer.pc = "COMMITTED" \/ c \in left
  \/ \E i \in 1 .. Len(queue[c]) : queue[c][i] \in {Initial(now)} \cup
       {Updated(n) : n \in 0 .. now.revision}
  \/ handler[c] = "REGISTERED" /\ snap[c] = now
  \/ \E f \in Fetch : \/ fetch[f].status \in {"STATE", "PROBE", "REFUSED"}
                      \/ fetch[f].status = "ANSWERED" /\ fetch[f].snapshot = now

(* A browser with a registered connection shows the room as it is, or the    *)
(* news is on its way: a full buffer drops nothing that an earlier message   *)
(* would not fetch.  Three races and a failed request alone leave it behind  *)
(* (missed): a change between the snapshot and the registration of a new     *)
(* connection (handleWS), the first SNAPSHOT or an answer overtaken by a     *)
(* newer one (setSnapshot).                                                  *)
ClientsCatchUp ==
  \A c \in registered : ws = c /\ ~missed => shown = now \/ OnItsWay(c)

(* Whoever looks at an old revision is refused by expectedRevision, unless   *)
(* the snapshot that will show the new one is under way: STATE_UPDATED puts  *)
(* the revision ahead of what is shown (applyStateUpdated), and only a       *)
(* failed request leaves it there.                                           *)
NewsIsFetched ==
  \E f \in Fetch : \/ fetch[f].status \in {"STATE", "PROBE", "REFUSED"}
                  \/ /\ fetch[f].status = "ANSWERED"
                     /\ fetch[f].snapshot.revision = now.revision

StaleClicksAreRefused ==
  shown # NoSnapshot /\ shown.revision # now.revision /\ expected = now.revision =>
    failed \/ lost \/ NewsIsFetched

(* A kicked player's browser goes back to the join form, whether it is told  *)
(* by the close code, by a refused request or, after it had lost its         *)
(* connection, by its probe; but for the connection that was being set up    *)
(* when the kick was broadcast, and for a failed request                     *)
(* (docs/websocket-protocol.md, ClosePlayer, scheduleReconnect).             *)
KickedClientGivesUp ==
  <>[]missed \/ (revoked ~> lost)
=============================================================================
