-------------------------- MODULE TimeoutScheduler --------------------------
(***************************************************************************)
(* Phase deadlines over all rooms (internal/coordinator): the scheduler's  *)
(* scan every second, the recovery scan before the server serves anybody,  *)
(* and the players' commands that change phases at the same time.          *)
(*                                                                         *)
(* A phase is told from the next by a bit that flips with every phase      *)
(* change.  A room is impeded while the engine refuses to resolve its      *)
(* phase: its content does not suffice for the next deal, or everyone has  *)
(* left it (GameEngine).                                                   *)
(***************************************************************************)
EXTENDS Integers, FiniteSets

CONSTANTS
  Room,
  None,         \* no room, nobody
  MaxCrashes,   \* bound: crashes of the server
  MaxTrouble    \* bound: how often a room becomes impeded

ASSUME BoundsAssumption ==
  /\ None \notin Room \cup {"SCAN", "CLIENT"}
  /\ MaxCrashes \in Nat /\ MaxTrouble \in Nat

VARIABLES
  server,     \* DOWN, RECOVERING (Recover) or UP
  state,      \* Room.State of each room, or DELETED
  phase,      \* which phase each room is in
  deadline,   \* the phase's deadline: NONE, RUNNING or OVERDUE
  impeded,    \* the rooms the engine cannot resolve
  holder,     \* who holds each room's lock: None, the SCAN or a CLIENT
  todo,       \* the rooms left in the list of the scan
  at,         \* the room the scan is at
  scan,       \* IDLE, LISTED, or INSIDE the lock of the room
  crashes, trouble

roomVars == <<state, phase, deadline>>
scanVars == <<todo, at, scan>>
vars == <<server, roomVars, impeded, holder, scanVars, crashes, trouble>>

InGame == {r \in Room : state[r] = "IN_GAME"}

(* A new phase, with or without a deadline, or the end of the game.        *)
ChangePhase(r) ==
  /\ phase' = [phase EXCEPT ![r] = 1 - @]
  /\ \/ /\ \E d \in {"NONE", "RUNNING"} : deadline' = [deadline EXCEPT ![r] = d]
        /\ UNCHANGED state
     \/ /\ deadline' = [deadline EXCEPT ![r] = "NONE"]
        /\ state' = [state EXCEPT ![r] = "CLOSED"]

-----------------------------------------------------------------------------
(* CheckOverdueDeadlines and Recover: the same scan, started by the ticker *)
(* or by main.                                                             *)

List ==
  /\ server \in {"RECOVERING", "UP"}
  /\ scan = "IDLE"
  /\ scan' = "LISTED"
  /\ todo' = InGame
  /\ UNCHANGED <<server, roomVars, impeded, holder, at, crashes, trouble>>

(* The next room of the list, in whatever order the query gave them.       *)
Pick ==
  /\ scan = "LISTED" /\ at = None
  /\ \E r \in todo : at' = r /\ todo' = todo \ {r}
  /\ UNCHANGED <<server, roomVars, impeded, holder, scan, crashes, trouble>>

LockRoom ==
  /\ scan = "LISTED" /\ at # None
  /\ holder[at] = None
  /\ holder' = [holder EXCEPT ![at] = "SCAN"]
  /\ scan' = "INSIDE"
  /\ UNCHANGED <<server, roomVars, impeded, todo, at, crashes, trouble>>

Unlock == holder' = [holder EXCEPT ![at] = None]

(* Mutant: the deadline is not looked at again under the lock. *)
DueWhenListed(r) == state[r] = "IN_GAME"

(* applyTimeoutIfOverdue looks again, under the lock.                      *)
Due(r) == state[r] = "IN_GAME" /\ deadline[r] = "OVERDUE"

(* Mutant: a room where nothing is due any more is an error. *)
SkipAsError ==
  /\ scan = "INSIDE"
  /\ state[at] # "DELETED" /\ ~Due(at)
  /\ Unlock
  /\ scan' = "IDLE" /\ at' = None /\ todo' = {}
  /\ server' = IF server = "RECOVERING" THEN "DOWN" ELSE server
  /\ UNCHANGED <<roomVars, impeded, crashes, trouble>>

(* Nothing is due here any more. *)
Skip ==
  /\ scan = "INSIDE"
  /\ state[at] # "DELETED" /\ ~Due(at)
  /\ Unlock
  /\ scan' = "LISTED" /\ at' = None
  /\ UNCHANGED <<server, roomVars, impeded, todo, crashes, trouble>>

Apply ==
  /\ scan = "INSIDE"
  /\ Due(at) /\ at \notin impeded
  /\ ChangePhase(at)
  /\ Unlock
  /\ scan' = "LISTED" /\ at' = None
  /\ UNCHANGED <<server, impeded, todo, crashes, trouble>>

(* An error, the engine's or that of a room deleted since, ends the scan:   *)
(* the scheduler waits for its next tick, main exits.                      *)
Abort ==
  /\ scan = "INSIDE"
  /\ state[at] = "DELETED" \/ (Due(at) /\ at \in impeded)
  /\ Unlock
  /\ scan' = "IDLE" /\ at' = None /\ todo' = {}
  /\ server' = IF server = "RECOVERING" THEN "DOWN" ELSE server
  /\ UNCHANGED <<roomVars, impeded, crashes, trouble>>

Finish ==
  /\ scan = "LISTED" /\ at = None /\ todo = {}
  /\ scan' = "IDLE"
  /\ server' = "UP"
  /\ UNCHANGED <<roomVars, impeded, holder, todo, at, crashes, trouble>>

-----------------------------------------------------------------------------
(* The rooms and their players.                                            *)

(* A command waits for the lock of its room and changes the phase, or not. *)
ClientLock(r) ==
  /\ server = "UP"
  /\ holder[r] = None
  /\ holder' = [holder EXCEPT ![r] = "CLIENT"]
  /\ UNCHANGED <<server, roomVars, impeded, scanVars, crashes, trouble>>

ClientActs(r) ==
  /\ holder[r] = "CLIENT"
  /\ holder' = [holder EXCEPT ![r] = None]
  /\ \/ state[r] = "IN_GAME" /\ ChangePhase(r)
     \/ /\ state[r] # "DELETED"
        /\ state' = [state EXCEPT ![r] = "DELETED"]
        /\ deadline' = [deadline EXCEPT ![r] = "NONE"]
        /\ UNCHANGED phase
     \/ UNCHANGED roomVars
  /\ UNCHANGED <<server, impeded, scanVars, crashes, trouble>>

Expire(r) ==
  /\ deadline[r] = "RUNNING"
  /\ deadline' = [deadline EXCEPT ![r] = "OVERDUE"]
  /\ UNCHANGED <<server, state, phase, impeded, holder, scanVars, crashes, trouble>>

(* Memes are disabled, or everyone leaves; memes are enabled again. *)
Impede(r) ==
  /\ server = "UP" /\ trouble < MaxTrouble
  /\ trouble' = trouble + 1
  /\ impeded' = impeded \cup {r}
  /\ UNCHANGED <<server, roomVars, holder, scanVars, crashes>>

Relieve(r) ==
  /\ server = "UP"
  /\ impeded' = impeded \ {r}
  /\ UNCHANGED <<server, roomVars, holder, scanVars, crashes, trouble>>

Crash ==
  /\ server # "DOWN" /\ crashes < MaxCrashes
  /\ crashes' = crashes + 1
  /\ server' = "DOWN"
  /\ holder' = [r \in Room |-> None]
  /\ scan' = "IDLE" /\ at' = None /\ todo' = {}
  /\ UNCHANGED <<roomVars, impeded, trouble>>

(* Somebody, or a supervisor, starts the server again. *)
Start ==
  /\ server = "DOWN"
  /\ server' = "RECOVERING"
  /\ UNCHANGED <<roomVars, impeded, holder, scanVars, crashes, trouble>>

-----------------------------------------------------------------------------
(* Games have begun, and the server is about to serve them.                *)
Init ==
  /\ server = "DOWN"
  /\ state = [r \in Room |-> "IN_GAME"]
  /\ phase = [r \in Room |-> 0]
  /\ deadline \in [Room -> {"NONE", "RUNNING"}]
  /\ impeded = {}
  /\ holder = [r \in Room |-> None]
  /\ todo = {} /\ at = None /\ scan = "IDLE"
  /\ crashes = 0 /\ trouble = 0

ScanStep == List \/ Pick \/ LockRoom \/ Skip \/ Apply \/ Abort \/ Finish

RoomStep(r) ==
  ClientLock(r) \/ ClientActs(r) \/ Expire(r) \/ Impede(r) \/ Relieve(r)

Next == ScanStep \/ Crash \/ Start \/ \E r \in Room : RoomStep(r)

Spec == Init /\ [][Next]_vars

(* The scheduler's goroutine runs, a command in the lock leaves it, a lock *)
(* that is released again and again is had in the end (sync.Mutex does not *)
(* starve its waiters), and a stopped server is started again.             *)
FairSpec ==
  /\ Spec
  /\ WF_vars(List) /\ WF_vars(Pick) /\ SF_vars(LockRoom)
  /\ WF_vars(Skip \/ Apply \/ Abort) /\ WF_vars(Finish)
  /\ \A r \in Room : WF_vars(ClientActs(r))
  /\ WF_vars(Start)

-----------------------------------------------------------------------------
(* Properties.                                                             *)

TypeOK ==
  /\ server \in {"DOWN", "RECOVERING", "UP"}
  /\ state \in [Room -> {"IN_GAME", "CLOSED", "DELETED"}]
  /\ phase \in [Room -> {0, 1}]
  /\ deadline \in [Room -> {"NONE", "RUNNING", "OVERDUE"}]
  /\ impeded \subseteq Room
  /\ holder \in [Room -> {None, "SCAN", "CLIENT"}]
  /\ todo \subseteq Room /\ at \in Room \cup {None}
  /\ scan \in {"IDLE", "LISTED", "INSIDE"}
  /\ crashes \in Nat /\ trouble \in Nat

(* A timeout ends the phase whose deadline has passed and no other: between *)
(* the listing and the lock the last answer may have come and begun the     *)
(* next phase (applyTimeoutIfOverdue).                                      *)
TimeoutsAreDue ==
  [][\A r \in Room : phase'[r] # phase[r] =>
       holder[r] = "CLIENT" \/ (holder[r] = "SCAN" /\ deadline[r] = "OVERDUE")]_vars

(* Once no room is impeded any more, every overdue phase ends, although one *)
(* failing room ends a whole scan and the scans begin anew with whatever    *)
(* room comes first (StartTimeoutScheduler: "so timers work during a live   *)
(* game").                                                                  *)
OverdueEnds ==
  <>[](impeded = {}) =>
    \A r \in Room : deadline[r] = "OVERDUE" ~> deadline[r] # "OVERDUE"

(* A stopped server serves again, unless the room that Recover fails on is  *)
(* impeded: then it can never start, and no administrator can mend the room *)
(* (main exits with Recover's error).                                       *)
ServerComesUp ==
  server = "DOWN" ~> server = "UP" \/ \E r \in impeded : deadline[r] = "OVERDUE"
=============================================================================
