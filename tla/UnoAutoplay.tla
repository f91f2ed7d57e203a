----------------------------- MODULE UnoAutoplay -----------------------------
(***************************************************************************)
(* The automated turns of a room (src/internal/room/automation.go) on top  *)
(* of the rules engine.  A turn event makes the room act for the player    *)
(* whose decision is due.  One automated turn is up to three engine calls: *)
(* draw, play, choose a colour.  The room actor makes them without serving *)
(* another command in between, so while `step` is not "idle" nobody else   *)
(* acts.  A call that the engine refused would end the turn half done.     *)
(***************************************************************************)
EXTENDS UnoEngine

VARIABLES
    step,   \* what the automated turn does next: "idle", "play_drawn", "choose"
    actor   \* the seat it acts for, NoSeat when idle

autoVars == <<vars, step, actor>>

\* currentActorView: the chooser of a colour, else the player in turn.
DueSeat == IF phase = "awaiting_color" THEN pendingColor.seat ELSE currentSeat

\* PlayableCardIDs of the view of the seat in turn.
PlayableCards(s) ==
    {c \in hand[s] : /\ phase = "awaiting_draw_decision" => c = drawnCard
                     /\ Playable(c)}

Begin(s, next) == step' = next /\ actor' = IF next = "idle" THEN NoSeat ELSE s

PlayAutomaticCard_NoChoice(s, c) == Play(s, c, TRUE) /\ Begin(s, "idle")
\* playAutomaticCard: UNO is always said; a wild card gets its colour at once.
PlayAutomaticCard(s, c) ==
    /\ Play(s, c, TRUE)
    /\ Begin(s, IF phase' = "awaiting_color" THEN "choose" ELSE "idle")

DrawAutomatically_AnyCard(s) ==
    /\ DrawOrdinary(s)
    /\ Begin(s, IF hand' # hand THEN "play_drawn" ELSE "idle")
\* Nothing can be played: draw one card and, when it can be played, play it.
DrawAutomatically(s) ==
    /\ DrawOrdinary(s)
    /\ Begin(s, IF phase' = "awaiting_draw_decision" THEN "play_drawn" ELSE "idle")

\* performAutomaticAction.  A penalty is taken, never stacked.
PerformAutomaticAction(s) ==
    \/ \E color \in Colors : ChooseColor(s, color) /\ Begin(s, "idle")
    \/ DrawPenalty(s) /\ Begin(s, "idle")
    \/ /\ phase = "awaiting_draw_decision" \/ pendingDraw = 0
       /\ IF PlayableCards(s) # {} THEN \E c \in PlayableCards(s) : PlayAutomaticCard(s, c)
          ELSE IF phase = "playing" THEN DrawAutomatically(s)
          ELSE Pass(s) /\ Begin(s, "idle")

\* A turn event that carries the current token reaches the actor.
AutomatedTurn ==
    /\ step = "idle" /\ phase # "finished"
    /\ PerformAutomaticAction(DueSeat)

PlayDrawn ==
    /\ step = "play_drawn"
    /\ PlayAutomaticCard(actor, drawnCard)

ChooseRandomColor ==
    /\ step = "choose"
    /\ \E color \in Colors : ChooseColor(actor, color)
    /\ Begin(actor, "idle")

\* Everything that does not come from the automation, between two turns.
OtherCommand ==
    /\ step = "idle"
    /\ Next
    /\ UNCHANGED <<step, actor>>

AutoInit == Init /\ step = "idle" /\ actor = NoSeat
AutoNext == AutomatedTurn \/ PlayDrawn \/ ChooseRandomColor \/ OtherCommand
AutoSpec == AutoInit /\ [][AutoNext]_autoVars

-----------------------------------------------------------------------------
(* The engine never refuses the second or third call of an automated turn, *)
(* although the room chose it from the result of the call before: the card *)
(* it drew can be played by that seat, and the colour is that seat's to    *)
(* choose.  A refusal would leave the seat in a decision it already made.  *)
AutomationIsAccepted ==
    /\ step = "play_drawn" => /\ phase = "awaiting_draw_decision"
                              /\ actor = currentSeat
                              /\ drawnCard \in PlayableCards(actor)
    /\ step = "choose" => phase = "awaiting_color" /\ pendingColor.seat = actor

(* An automated turn is a whole turn: it ends with the round over, or with *)
(* an ordinary turn to take.  It never hands a half-made decision (a drawn *)
(* card, a wild card without colour) to the next timer.                    *)
AutomatedTurnCompletes ==
    [][step' = "idle" /\ (AutomatedTurn \/ PlayDrawn \/ ChooseRandomColor)
          => phase' \in {"playing", "finished"}]_autoVars
=============================================================================
