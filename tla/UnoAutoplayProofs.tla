-------------------------- MODULE UnoAutoplayProofs --------------------------
(***************************************************************************)
(* Proofs about UnoAutoplay.  An automated turn is made of engine calls a  *)
(* player could make, so everything UnoEngineProofs shows of the engine    *)
(* holds with automation too; the rest is about the calls of one turn      *)
(* fitting each other.                                                     *)
(***************************************************************************)
EXTENDS UnoAutoplay, UnoEngineProofs

\* While an automated turn is under way it has a seat.
ActorFits == step # "idle" => step \in {"play_drawn", "choose"} /\ actor \in Seats

AutoInv == IInv /\ ActorFits /\ AutomationIsAccepted

(* The player whose decision is due sits at the table.                     *)
LEMMA DueSeatIsSeat ==
    ASSUME IInv, phase # "finished"
    PROVE  DueSeat \in Seats
BY DEF IInv, TypeOK, SnapshotRestores, ValidLifecycle, ValidPendingActions, DueSeat

(* Every call of an automated turn is a command of its seat.               *)
LEMMA AutomationCommands ==
    ASSUME AutoInv, AutomatedTurn \/ PlayDrawn \/ ChooseRandomColor
    PROVE  \E s \in Seats : PlayerAction(s)
<1>1. CASE AutomatedTurn
  <2>1. DueSeat \in Seats /\ PerformAutomaticAction(DueSeat)
    BY <1>1, DueSeatIsSeat DEF AutomatedTurn, AutoInv
  <2>2. PlayableCards(DueSeat) \subseteq Card
    BY <2>1 DEF PlayableCards, AutoInv, IInv, TypeOK
  <2> QED
    BY <2>1, <2>2 DEF PerformAutomaticAction, PlayAutomaticCard, DrawAutomatically, PlayerAction
<1>2. CASE PlayDrawn
  <2>1. actor \in Seats /\ Play(actor, drawnCard, TRUE)
    BY <1>2 DEF PlayDrawn, PlayAutomaticCard, AutoInv, ActorFits
  <2>2. drawnCard \in Card
    BY <2>1 DEF Play, AutoInv, IInv, TypeOK
  <2> QED
    BY <2>1, <2>2 DEF PlayerAction
<1>3. CASE ChooseRandomColor
  BY <1>3 DEF ChooseRandomColor, AutoInv, ActorFits, PlayerAction
<1> QED
  BY <1>1, <1>2, <1>3

(* A step of the room is a step of the engine, or leaves it alone.         *)
LEMMA AutomationIsEngine ==
    ASSUME AutoInv, [AutoNext]_autoVars
    PROVE  [Next]_vars
BY AutomationCommands DEF AutoNext, OtherCommand, autoVars, Next

(* What the engine's answer to a call lets the automation do next.         *)
LEMMA PlayedAnswer ==
    ASSUME NEW s \in Seats, NEW c, Play(s, c, TRUE)
    PROVE  \/ phase' = "awaiting_color" /\ pendingColor'.seat = s
           \/ phase' \in {"playing", "finished"}
BY DEF Play, ApplyCardEffect, FinishIfResolved, FinishRound

(* A colour that is chosen ends the decision.                              *)
LEMMA ColorAnswer ==
    ASSUME NEW s, NEW color, ChooseColor(s, color)
    PROVE  phase' \in {"playing", "finished"}
BY DEF ChooseColor, ApplyCardEffect, FinishIfResolved, FinishRound

(* A card kept for a decision can be played by the seat that drew it.      *)
LEMMA DrawAnswer ==
    ASSUME IInv, NEW s \in Seats, DrawOrdinary(s)
    PROVE  \/ /\ phase' = "awaiting_draw_decision" /\ s = currentSeat'
              /\ drawnCard' \in PlayableCards(s)'
           \/ phase' = "playing"
<1>1. PICK D \in DrawnSets(drawPile, discard, 1) : TakeCards(s, D) /\ DecideOnDrawn(s, D)
  BY DEF DrawOrdinary
<1>2. hand'[s] = hand[s] \cup D /\ top' = top
  BY <1>1, TakeCardsFacts DEF IInv, SnapshotRestores
<1>3. /\ s = currentSeat /\ phase = "playing"
      /\ currentColor' = currentColor /\ pendingDraw' = pendingDraw
  BY DEF DrawOrdinary
<1>4. CASE \E c \in D : /\ Playable(c) /\ phase' = "awaiting_draw_decision"
                        /\ drawnCard' = c /\ currentSeat' = currentSeat
  BY <1>2, <1>3, <1>4 DEF PlayableCards, Playable
<1>5. CASE phase' = phase
  BY <1>3, <1>5
<1> QED
  BY <1>1, <1>4, <1>5 DEF DecideOnDrawn

(* A call of the automation leaves it where the engine accepts the next.   *)
LEMMA AutomationStep ==
    ASSUME AutoInv, AutomatedTurn \/ PlayDrawn \/ ChooseRandomColor
    PROVE  /\ ActorFits' /\ AutomationIsAccepted'
           /\ step' = "idle" => phase' \in {"playing", "finished"}
<1>1. ASSUME NEW s \in Seats, NEW c, PlayAutomaticCard(s, c)
      PROVE  /\ ActorFits' /\ AutomationIsAccepted'
             /\ step' = "idle" => phase' \in {"playing", "finished"}
  <2>1. \/ phase' = "awaiting_color" /\ pendingColor'.seat = s
        \/ phase' \in {"playing", "finished"}
    BY <1>1, PlayedAnswer DEF PlayAutomaticCard
  <2>2. /\ step' = IF phase' = "awaiting_color" THEN "choose" ELSE "idle"
        /\ actor' = IF step' = "idle" THEN NoSeat ELSE s
    BY <1>1 DEF PlayAutomaticCard, Begin
  <2> QED
    BY <2>1, <2>2 DEF ActorFits, AutomationIsAccepted
<1>2. ASSUME NEW s \in Seats, NEW color, ChooseColor(s, color), Begin(s, "idle")
      PROVE  /\ ActorFits' /\ AutomationIsAccepted'
             /\ step' = "idle" => phase' \in {"playing", "finished"}
  BY <1>2, ColorAnswer DEF Begin, ActorFits, AutomationIsAccepted
<1>3. CASE AutomatedTurn
  <2>1. PICK s \in Seats : PerformAutomaticAction(s)
    BY <1>3, DueSeatIsSeat DEF AutomatedTurn, AutoInv
  <2>2. CASE DrawPenalty(s) /\ Begin(s, "idle")
    BY <2>2 DEF DrawPenalty, FinishIfResolved, FinishRound, Begin, ActorFits,
                AutomationIsAccepted
  <2>3. CASE DrawAutomatically(s)
    <3>1. \/ /\ phase' = "awaiting_draw_decision" /\ s = currentSeat'
             /\ drawnCard' \in PlayableCards(s)'
          \/ phase' = "playing"
      BY <2>1, <2>3, DrawAnswer DEF DrawAutomatically, AutoInv
    <3>2. /\ step' = IF phase' = "awaiting_draw_decision" THEN "play_drawn" ELSE "idle"
          /\ actor' = IF step' = "idle" THEN NoSeat ELSE s
      BY <2>3 DEF DrawAutomatically, Begin
    <3> QED
      BY <2>1, <3>1, <3>2 DEF ActorFits, AutomationIsAccepted
  <2>4. CASE Pass(s) /\ Begin(s, "idle")
    BY <2>4 DEF Pass, Begin, ActorFits, AutomationIsAccepted
  <2> QED
    BY <1>1, <1>2, <2>1, <2>2, <2>3, <2>4 DEF PerformAutomaticAction
<1>4. CASE PlayDrawn
  BY <1>1, <1>4 DEF PlayDrawn, AutoInv, ActorFits
<1>5. CASE ChooseRandomColor
  BY <1>2, <1>5 DEF ChooseRandomColor, AutoInv, ActorFits
<1> QED
  BY <1>3, <1>4, <1>5

(* The invariant holds in every reachable state.                           *)
LEMMA AutoInductive == AutoSpec => []AutoInv
<1>1. AutoInit => AutoInv
  BY InitIInv DEF AutoInit, AutoInv, ActorFits, AutomationIsAccepted
<1>2. ASSUME AutoInv, [AutoNext]_autoVars
      PROVE  AutoInv'
  <2>1. IInv'
    BY <1>2, AutomationIsEngine, NextIInv DEF AutoInv
  <2>2. CASE AutomatedTurn \/ PlayDrawn \/ ChooseRandomColor
    BY <1>2, <2>1, <2>2, AutomationStep DEF AutoInv
  <2>3. CASE OtherCommand
    BY <2>1, <2>3 DEF OtherCommand, AutoInv, ActorFits, AutomationIsAccepted
  <2>4. CASE UNCHANGED autoVars
    BY <1>2, <2>1, <2>4
       DEF autoVars, vars, turn, piles, AutoInv, ActorFits, AutomationIsAccepted,
           PlayableCards, Playable
  <2> QED
    BY <1>2, <2>2, <2>3, <2>4 DEF AutoNext
<1> QED
  BY <1>1, <1>2, PTL DEF AutoSpec

(* Automation plays by the rules: all it does are commands of the engine,  *)
(* by the player whose decision is due.  Whatever holds of the engine      *)
(* holds of a room that plays for its absent players.                      *)
THEOREM AutomationPlaysByTheRules == AutoSpec => Spec
<1>1. AutoInit => Init
  BY DEF AutoInit
<1>2. AutoInv /\ [AutoNext]_autoVars => [Next]_vars
  BY AutomationIsEngine
<1> QED
  BY <1>1, <1>2, AutoInductive, PTL DEF AutoSpec, Spec

(* The engine never refuses the second or third call of an automated turn. *)
THEOREM AutomationNeverRefused == AutoSpec => []AutomationIsAccepted
<1>1. AutoInv => AutomationIsAccepted
  BY DEF AutoInv
<1> QED
  BY <1>1, AutoInductive, PTL

(* An automated turn ends with the round over or an ordinary turn to take. *)
THEOREM AutomatedTurnsComplete == AutoSpec => AutomatedTurnCompletes
<1>1. AutoInv =>
        [step' = "idle" /\ (AutomatedTurn \/ PlayDrawn \/ ChooseRandomColor)
           => phase' \in {"playing", "finished"}]_autoVars
  BY AutomationStep
<1> QED
  BY <1>1, AutoInductive, PTL DEF AutoSpec, AutomatedTurnCompletes
=============================================================================
