-------------------------------- MODULE IdGen --------------------------------
(***************************************************************************)
(* The id generator of a process (src/internal/idgen/idgen.go): 41 bits of *)
(* milliseconds, 10 of node, 12 of sequence.  A mutex makes a call to Next *)
(* one step, but for the wait for the next millisecond when the sequence   *)
(* of this one is used up: the clock moves while the caller waits.         *)
(***************************************************************************)
EXTENDS Integers, Sequences

CONSTANTS
    NodeID, MaxNodeID,
    MaxSequence,    \* last sequence number of a millisecond, 4095
    MaxTimestamp,   \* last millisecond after the epoch
    MaxIds          \* bound on the ids handed out

ASSUME IdGenAssumption ==
    /\ MaxNodeID \in Nat /\ NodeID \in 0 .. MaxNodeID
    /\ MaxSequence \in Nat /\ MaxTimestamp \in Nat /\ MaxIds \in Nat

VARIABLES
    clock,       \* elapsed milliseconds as time.Now has them
    lastMillis,
    sequence,
    waiting,     \* a caller is in waitNextMillis and holds the mutex
    issued,      \* history: the ids handed out
    cutShort     \* history: a wait ended with an error

vars == <<clock, lastMillis, sequence, waiting, issued, cutShort>>

\* Before the epoch, in the 41 bits, and past them.
Times == -1 .. MaxTimestamp + 1
InRange(t) == t \in 0 .. MaxTimestamp

Id(millis, seq) == (millis * (MaxNodeID + 1) + NodeID) * (MaxSequence + 1) + seq

\* An id that is not positive is refused after the state has moved on.
Issue(millis, seq) ==
    /\ lastMillis' = millis /\ sequence' = seq
    /\ issued' = IF Id(millis, seq) > 0 THEN Append(issued, Id(millis, seq)) ELSE issued
    /\ waiting' = FALSE

NextSequence_NoWrap == sequence + 1
NextSequence == (sequence + 1) % (MaxSequence + 1)

NewMillisecond_NoOrder(t) ==
    /\ InRange(t) /\ t # lastMillis
    /\ Issue(t, 0)
NewMillisecond(t) ==
    /\ InRange(t) /\ t > lastMillis
    /\ Issue(t, 0)

SameMillisecond(t) ==
    /\ InRange(t) /\ t = lastMillis
    /\ IF NextSequence # 0 THEN Issue(t, NextSequence)
       ELSE /\ sequence' = 0 /\ waiting' = TRUE
            /\ UNCHANGED <<lastMillis, issued>>

\* A clock out of range or behind lastMillis is an error that changes nothing,
\* and so not a step.
Call ==
    /\ ~waiting /\ Len(issued) < MaxIds
    /\ NewMillisecond(clock) \/ SameMillisecond(clock)
    /\ UNCHANGED <<clock, cutShort>>

WaitEnds ==
    /\ waiting /\ InRange(clock) /\ clock > lastMillis
    /\ Issue(clock, sequence)
    /\ UNCHANGED <<clock, cutShort>>

\* The error leaves lastMillis as it was, and the sequence at 0.
WaitFails ==
    /\ waiting
    /\ ~InRange(clock) \/ clock < lastMillis
    /\ waiting' = FALSE /\ cutShort' = TRUE
    /\ UNCHANGED <<clock, lastMillis, sequence, issued>>

\* External: the wall clock advances, and may be set back.
ClockMoves == clock' \in Times /\ UNCHANGED <<lastMillis, sequence, waiting, issued, cutShort>>

Init ==
    /\ clock \in Times /\ lastMillis = -1 /\ sequence = 0 /\ waiting = FALSE
    /\ issued = <<>> /\ cutShort = FALSE

Next == Call \/ WaitEnds \/ WaitFails \/ ClockMoves

Spec == Init /\ [][Next]_vars

-----------------------------------------------------------------------------
(* Types: the sequence stays in its bits, so an id never runs into the     *)
(* node or the millisecond beside it.                                      *)
TypeOK ==
    /\ clock \in Times
    /\ lastMillis \in -1 .. MaxTimestamp
    /\ sequence \in 0 .. MaxSequence
    /\ waiting \in BOOLEAN /\ cutShort \in BOOLEAN
    /\ issued \in Seq(Nat \ {0})

Increasing(ids) == \A i, j \in DOMAIN ids : i < j => ids[i] < ids[j]

(* What Source promises of Next: ids grow on a node, so none comes twice.  *)
IdsIncrease == Increasing(issued)

(* However the clock jumps, ids only stop growing after a wait for the     *)
(* next millisecond was cut short by the clock going back: every other     *)
(* jump is refused without harm.                                           *)
IdsIncreaseUnlessCutShort == cutShort \/ Increasing(issued)
=============================================================================
