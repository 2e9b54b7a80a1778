---------------------------- MODULE RoomPlayers ----------------------------
(***************************************************************************)
(* What the requests of a room make of its players: who has a row, who of  *)
(* them has left, and who is host.  GameEngine, where a step is a command, *)
(* and RoomCoordinator, where a request takes many and the game is only    *)
(* counted, both implement this specification: the one does to the players *)
(* what the other takes it to do.                                          *)
(***************************************************************************)
EXTENDS Integers, FiniteSetsExt

CONSTANT NumPlayers

Player == 1 .. NumPlayers     \* in the order of joinedAt

VARIABLES
  state,    \* Room.State
  rows,     \* the players who have a row
  gone,     \* those of them with LeftAt set
  hosts     \* those of them whose role is HOST

vars == <<state, rows, gone, hosts>>

Members == rows \ gone

(* JoinRoom: whoever finds no row becomes the host. *)
Join(p) ==
  /\ state = "LOBBY" /\ p \notin rows
  /\ rows' = rows \cup {p}
  /\ hosts' = IF rows = {} THEN {p} ELSE hosts
  /\ UNCHANGED <<state, gone>>

Start ==
  /\ state = "LOBBY" /\ Members # {}
  /\ state' = "IN_GAME"
  /\ UNCHANGED <<rows, gone, hosts>>

(* Any other command of the game: it may be the game's last. *)
Play ==
  /\ state = "IN_GAME" /\ state' = "CLOSED"
  /\ UNCHANGED <<rows, gone, hosts>>

(* Without a game the row goes, else it is marked; a host who leaves hands  *)
(* over to the oldest of the others, and remains host if there are none.    *)
Leave(p) ==
  LET others == Members \ {p}
      heirs == IF p \in hosts /\ others # {} THEN {Min(others)} ELSE hosts
  IN
  /\ p \in Members
  /\ state' = state \/ (state = "IN_GAME" /\ state' = "CLOSED")
  /\ rows' = IF state = "LOBBY" THEN rows \ {p} ELSE rows
  /\ gone' = IF state = "LOBBY" THEN gone ELSE gone \cup {p}
  /\ hosts' = heirs \cap rows'

(* START_NEW_GAME goes through as long as nobody who played has left. *)
Reset ==
  /\ state = "CLOSED" /\ gone = {}
  /\ state' = "LOBBY"
  /\ UNCHANGED <<rows, gone, hosts>>

Delete ==
  /\ state # "DELETED"
  /\ state' = "DELETED" /\ rows' = {} /\ gone' = {} /\ hosts' = {}

Init == state = "LOBBY" /\ rows = {} /\ gone = {} /\ hosts = {}

Next ==
  \/ \E p \in Player : Join(p) \/ Leave(p)
  \/ Start \/ Play \/ Reset
  \/ Delete

Spec == Init /\ [][Next]_vars
=============================================================================
