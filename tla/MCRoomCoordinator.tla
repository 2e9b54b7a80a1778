------------------------- MODULE MCRoomCoordinator -------------------------
(* A small instance of RoomCoordinator for TLC. *)
EXTENDS RoomCoordinator, TLC

(* Commands of the host, of the second player and of the administrator.     *)
Commands ==
  {[actor |-> 1, type |-> "START_GAME", target |-> 1, blind |-> FALSE],
   [actor |-> 2, type |-> "PLAY", target |-> 2, blind |-> FALSE],
   [actor |-> 1, type |-> "LEAVE_ROOM", target |-> 1, blind |-> FALSE],
   [actor |-> Admin, type |-> "KICK_PLAYER", target |-> 1, blind |-> TRUE]}

Symmetry == Permutations(Request) \cup Permutations(CommandId)
=============================================================================
