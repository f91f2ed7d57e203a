-------------------------- MODULE MCRoomPersistence --------------------------
(* Two players who sit in one room, then in two; players are alike.        *)
EXTENDS RoomPersistence, TLC

Alike == Permutations(Player)
=============================================================================
