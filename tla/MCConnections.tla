---------------------------- MODULE MCConnections ----------------------------
(* One room: with two members that are connected already and may start a   *)
(* round, or with none, and one connection to come to the room or to its   *)
(* round.  Small buffers.  The two members are alike, so that it is enough *)
(* that one of them sends something.                                       *)
EXTENDS Connections

CONSTANTS s1, s2

WaitingOrEmpty ==
    {[up |-> {s1, s2}, playing |-> FALSE], [up |-> {}, playing |-> FALSE], [up |-> {}, playing |-> TRUE]}
=============================================================================
