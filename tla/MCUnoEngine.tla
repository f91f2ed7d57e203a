----------------------------- MODULE MCUnoEngine -----------------------------
(* Three players of UnoEngine (MCUnoAutoplay has two).  A deck is a table  *)
(* of cards; the id of a card is its place in the table.                   *)
EXTENDS UnoEngine

CONSTANT MaxPending  \* bound on a penalty chain: recycling makes it endless

Number(color, n) == [kind |-> "number", color |-> color, number |-> n]
Action(kind, color) == [kind |-> kind, color |-> color, number |-> 0]
Wild(kind) == [kind |-> kind, color |-> NoColor, number |-> 0]

\* Both directions, skips, chains of more than two seats.
Deck == <<Number("red", 1), Action("skip", "blue"), Action("reverse", "red"),
          Action("draw_two", "red"), Action("draw_two", "blue"),
          Wild("wild_draw_four")>>

MCColors == {"red", "blue"}

MCCard   == DOMAIN Deck
MCKind   == [c \in MCCard |-> Deck[c].kind]
MCColor  == [c \in MCCard |-> Deck[c].color]
MCNumber == [c \in MCCard |-> Deck[c].number]

\* A wild draw four that waits for its colour is about to raise the penalty.
ComingPenalty == IF phase = "awaiting_color" THEN PenaltyOf(top) ELSE 0

MCNext == Next /\ pendingDraw' + ComingPenalty' <= MaxPending
MCSpec == Init /\ [][MCNext]_vars
=============================================================================
