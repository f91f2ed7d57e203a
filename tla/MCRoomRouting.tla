---------------------------- MODULE MCRoomRouting ----------------------------
(***************************************************************************)
(* Instances of RoomRouting.  Player a has the connections a1 and a2, if   *)
(* the instance has them, and player b the connection b1.                  *)
(***************************************************************************)
EXTENDS RoomRouting, TLC

CONSTANTS a, b, a1, a2, b1, r1, r2

MCPlayerOf == [s \in Session |-> IF s = b1 THEN b ELSE a]
\* With a connection each the two players are alike, and so are the rooms.
Alike == Permutations(Room) \cup {a :> b @@ b :> a @@ a1 :> b1 @@ b1 :> a1}
=============================================================================
