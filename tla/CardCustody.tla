------------------------------ MODULE CardCustody ------------------------------
(***************************************************************************)
(* What a round promises about its physical cards, whatever the rules of   *)
(* matching, colours, penalties and challenges are: every card is in one   *)
(* place; it leaves a hand only by being played on top of the discard      *)
(* pile, one at a time; it enters a hand only from the draw pile, or from  *)
(* under the top of the discard pile when the draw pile is exhausted; and  *)
(* nothing moves once the round is over, which takes an empty hand.        *)
(***************************************************************************)
EXTENDS Integers

CONSTANTS Card, Seats

VARIABLES owner, over

InDraw    == -1
InDiscard == -2
OnTop     == -3

Held(p) == {c \in Card : owner[c] = p}

Init ==
    /\ owner \in [Card -> Seats \cup {InDraw, OnTop}]
    /\ \E c \in Card : Held(OnTop) = {c}
    /\ over = FALSE

PlayCard(s, c) ==
    /\ owner[c] = s
    /\ owner' = [d \in Card |-> IF d = c THEN OnTop
                                ELSE IF owner[d] = OnTop THEN InDiscard ELSE owner[d]]

\* Taking no card at all is allowed: both piles may be exhausted.
TakeCards(s, D) ==
    LET recycles == ~(D \subseteq Held(InDraw))
    IN  /\ recycles => Held(InDraw) \subseteq D
        /\ owner' = [d \in Card |->
                        IF d \in D THEN s
                        ELSE IF recycles /\ owner[d] = InDiscard THEN InDraw ELSE owner[d]]

Next ==
    /\ ~over
    /\ \E s \in Seats :
          \/ \E c \in Card : PlayCard(s, c)
          \/ \E D \in SUBSET (Held(InDraw) \cup Held(InDiscard)) : TakeCards(s, D)
    /\ over' \in BOOLEAN
    /\ over' => \E s \in Seats : Held(s)' = {}

Spec == Init /\ [][Next]_<<owner, over>>
=============================================================================
