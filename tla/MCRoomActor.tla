----------------------------- MODULE MCRoomActor -----------------------------
(* Instances of RoomActor: two players, the first with an old and a new    *)
(* connection; and a stranger who tries again and again to join a restored *)
(* room whose players stay away.                                           *)
EXTENDS RoomActor

CONSTANTS a, b, c, a1, a2, b1, c1

MCPlayer      == {a, b}
MCSession     == {a1, a2, b1}
MCPlayerOf    == [s \in MCSession |-> IF s = b1 THEN b ELSE a]
WithStranger  == {a, b, c}
OnlyStranger  == {c1}
OnlyStrangerOf == [s \in OnlyStranger |-> c]

AwayInit ==
    Init /\ Members = {a, b} /\ phase = "playing" /\ abandoned = {}
         /\ \A p \in Player : strikes[p] = 0

\* Strangers only reach the room with join_room.
StrangerNext ==
    Next /\ \A i \in DOMAIN mailbox' : mailbox'[i].kind \in Requests => mailbox'[i].kind = "join"

StrangerSpec == AwayInit /\ [][StrangerNext]_vars /\ Fairness
=============================================================================
