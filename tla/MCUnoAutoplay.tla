---------------------------- MODULE MCUnoAutoplay ----------------------------
(* Two players: every rule that differs with two seats, penalty chains, and *)
(* automated turns in every decision.  One card of every action; a deck is *)
(* a table of cards, and the id of a card is its place in the table.       *)
EXTENDS UnoAutoplay

CONSTANT MaxPending  \* bound on a penalty chain: recycling makes it endless

Action(kind, color) == [kind |-> kind, color |-> color, number |-> 0]

Deck == <<[kind |-> "number", color |-> "blue", number |-> 3],
          Action("skip", "red"), Action("reverse", "blue"),
          Action("draw_two", "red"), Action("draw_two", "blue"),
          Action("wild", NoColor), Action("wild_draw_four", NoColor)>>

MCColors == {"red", "blue"}
MCCard   == DOMAIN Deck
MCKind   == [c \in MCCard |-> Deck[c].kind]
MCColor  == [c \in MCCard |-> Deck[c].color]
MCNumber == [c \in MCCard |-> Deck[c].number]

\* A wild draw four that waits for its colour is about to raise the penalty.
ComingPenalty == IF phase = "awaiting_color" THEN PenaltyOf(top) ELSE 0

MCNext == AutoNext /\ pendingDraw' + ComingPenalty' <= MaxPending
MCSpec == AutoInit /\ [][MCNext]_autoVars
=============================================================================
