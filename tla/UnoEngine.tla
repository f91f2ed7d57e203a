------------------------------ MODULE UnoEngine ------------------------------
(***************************************************************************)
(* The rules engine of one round (src/internal/game/uno).  The engine is   *)
(* not concurrent itself: the room actor is its only writer, so one engine *)
(* call is one action.  A rejected call leaves the engine unchanged and is *)
(* a stuttering step, except that it may purge a lapsed UNO challenge.     *)
(*                                                                         *)
(* Seats stand for player ids (playerSeat is a bijection).  The order of a *)
(* shuffled pile is unknown to everybody until a card is drawn, so a pile  *)
(* is a set and drawing takes an arbitrary card of it; the discard pile is *)
(* its top card and the set of the cards under it.                         *)
(***************************************************************************)
EXTENDS Integers, Sequences, FiniteSets, FiniteSetsExt

CONSTANTS
    Card,      \* the physical cards of the deck, by id
    KindOf,    \* the kind of each card
    ColorOf,   \* its printed colour, NoColor for a wild card
    NumberOf,  \* its number, 0 for an action card
    Colors,    \* the colours of the deck
    N,         \* number of players
    HandSize   \* cards dealt to each player

Kinds   == {"number", "skip", "reverse", "draw_two", "wild", "wild_draw_four"}
Wilds   == {"wild", "wild_draw_four"}
Phases  == {"playing", "awaiting_color", "awaiting_draw_decision", "finished"}
NoColor == "none"
NoCard  == 0
NoSeat  == -1
Seats   == 0 .. N - 1

ASSUME PlayersAssumption == N \in Nat /\ N >= 2

ASSUME DeckAssumption ==
    /\ IsFiniteSet(Card) /\ NoCard \notin Card
    /\ NoColor \notin Colors
    /\ KindOf \in [Card -> Kinds]
    /\ ColorOf \in [Card -> Colors \cup {NoColor}]
    /\ \A c \in Card : ColorOf[c] = NoColor <=> KindOf[c] \in Wilds
    /\ NumberOf \in [Card -> Nat]
    /\ HandSize \in Nat \ {0}

VARIABLES
    hand,          \* the cards each seat holds
    drawPile,      \* face-down cards
    discard,       \* cards under the top of the discard pile
    top,           \* the top of the discard pile
    currentSeat,
    direction,     \* 1 clockwise, -1 counter-clockwise
    currentColor,
    pendingDraw,   \* stacked penalty cards not yet taken
    phase,
    drawnCard,     \* the only card playable in the draw decision
    pendingColor,  \* the wild card that waits for a colour
    uno,           \* missed-UNO challenge against each seat
    candidates,    \* seats with empty hands, in the order they emptied
    result

piles == <<hand, drawPile, discard, top>>
turn  == <<currentSeat, direction, currentColor, pendingDraw, phase, drawnCard,
           pendingColor>>
vars  == <<piles, turn, uno, candidates, result>>

NoChoice     == [seat |-> NoSeat, card |-> NoCard, opening |-> FALSE]
NoResult     == [winner |-> NoSeat, score |-> 0]
NoChallenges == [s \in Seats |-> "none"]

IsWild(c)      == KindOf[c] \in Wilds
IsPenalty(c)   == KindOf[c] \in {"draw_two", "wild_draw_four"}
PenaltyOf(c)   == IF ~IsPenalty(c) THEN 0 ELSE IF IsWild(c) THEN 4 ELSE 2
IsSingleton(h) == \E c \in h : h = {c}

\* Go's % keeps the sign of the dividend and the code adds N back; % is never
\* negative here.
StepFrom_NoWrap(s, steps, d) == s + steps * d
StepFrom(s, steps, d) == (s + steps * d) % N

Matches(c, t, color) ==
    \/ IsWild(c)
    \/ ColorOf[c] = color
    \/ /\ ~IsWild(t) /\ KindOf[c] = KindOf[t]
       /\ KindOf[c] = "number" => NumberOf[c] = NumberOf[t]

Playable_NoStacking(c) == Matches(c, top, currentColor)
Playable(c) ==
    IF pendingDraw > 0 THEN IsPenalty(c) ELSE Matches(c, top, currentColor)

Points(c) == IF KindOf[c] = "number" THEN NumberOf[c]
             ELSE IF IsWild(c) THEN 50 ELSE 20
HandPoints(h) == MapThenSumSet(Points, h)
WinnerScore(h, w) == MapThenSumSet(LAMBDA s : HandPoints(h[s]), Seats \ {w})

-----------------------------------------------------------------------------
(* Drawing.  A request for n cards empties the draw pile first, then turns *)
(* the discard pile over (its top stays) and goes on, and is cut short     *)
(* when both are exhausted.                                                *)

Smaller(m, n) == IF m <= n THEN m ELSE n

DrawnSets_NoRecycle(pile, under, n) == kSubset(Smaller(n, Cardinality(pile)), pile)
DrawnSets(pile, under, n) ==
    IF n <= Cardinality(pile) THEN kSubset(n, pile)
    ELSE {pile \cup more : more \in
            kSubset(Smaller(n - Cardinality(pile), Cardinality(under)), under)}

TakeCards_AlwaysRecycle(s, D) ==
    /\ hand' = [hand EXCEPT ![s] = @ \cup D]
    /\ drawPile' = (drawPile \cup discard) \ D /\ discard' = {}
    /\ UNCHANGED top
\* Cards D go to seat s; the pile was recycled iff D is not all face-down cards.
TakeCards(s, D) ==
    /\ hand' = [hand EXCEPT ![s] = @ \cup D]
    /\ drawPile' = IF D \subseteq drawPile THEN drawPile \ D ELSE discard \ D
    /\ discard' = IF D \subseteq drawPile THEN discard ELSE {}
    /\ UNCHANGED top

\* What drawCardsTo does to the challenge against the seat that took D.
ChallengesAfterDraw_Kept(s, D) == uno
ChallengesAfterDraw(s, D) ==
    IF IsSingleton(hand[s] \cup D) THEN uno ELSE [uno EXCEPT ![s] = "none"]

Indices(q, s) == {i \in DOMAIN q : q[i] = s}

AddCandidate_InFront(s) == <<s>> \o candidates
AddCandidate_FirstOnly(s) == IF candidates = <<>> THEN <<s>> ELSE candidates
AddCandidate(s) ==
    IF Indices(candidates, s) = {} THEN Append(candidates, s) ELSE candidates

RemoveAt(q, i) == SubSeq(q, 1, i - 1) \o SubSeq(q, i + 1, Len(q))

CandidatesAfterDraw(s, D) ==
    IF D = {} \/ Indices(candidates, s) = {} THEN candidates
    ELSE RemoveAt(candidates, CHOOSE i \in Indices(candidates, s) : TRUE)

-----------------------------------------------------------------------------
(* Settling.  Once no penalty is pending, the earliest candidate whose     *)
(* hand is still empty wins; otherwise play goes on at the given seat.     *)

StillEmpty(q) == {i \in DOMAIN q : hand'[q[i]] = {}}

FinishRound(w) ==
    /\ result' = [winner |-> w, score |-> WinnerScore(hand', w)]
    /\ candidates' = <<w>>
    /\ phase' = "finished"
    /\ currentSeat' = NoSeat
    /\ pendingDraw' = 0
    /\ uno' = NoChallenges

FinishIfResolved(q, pending, nextSeat, challenges) ==
    \/ /\ pending = 0
       /\ \E i \in StillEmpty(q) :
             /\ \A j \in StillEmpty(q) : i <= j
             /\ FinishRound(q[i])
    \/ /\ pending = 0 => StillEmpty(q) = {}
       /\ candidates' = IF pending = 0 THEN <<>> ELSE q
       /\ phase' = "playing"
       /\ currentSeat' = nextSeat
       /\ pendingDraw' = pending
       /\ uno' = challenges
       /\ UNCHANGED result

ApplyCardEffect(s, c, q, challenges) ==
    LET flips == KindOf[c] = "reverse" /\ N # 2
        skips == KindOf[c] = "skip" \/ (KindOf[c] = "reverse" /\ N = 2)
    IN  /\ direction' = IF flips THEN -direction ELSE direction
        /\ FinishIfResolved(q, pendingDraw + PenaltyOf(c),
                            StepFrom(s, IF skips THEN 2 ELSE 1, direction'),
                            challenges)

-----------------------------------------------------------------------------
(* A new round: any deal, any opening card but a wild draw four (which is  *)
(* put back and the pile reshuffled until another card turns up).          *)

OpeningTurn(dealer, c) ==
    LET first == StepFrom(dealer, 1, 1)
        flips == KindOf[c] = "reverse" /\ N # 2
        skips == \/ KindOf[c] \in {"skip", "draw_two"}
                 \/ KindOf[c] = "reverse" /\ N = 2
    IN  /\ direction = IF flips THEN -1 ELSE 1
        /\ currentSeat = IF flips THEN StepFrom(dealer, 1, -1)
                         ELSE IF skips THEN StepFrom(first, 1, 1) ELSE first
        /\ currentColor = ColorOf[c]
        /\ phase = IF IsWild(c) THEN "awaiting_color" ELSE "playing"
        /\ pendingColor = IF IsWild(c)
                          THEN [seat |-> first, card |-> c, opening |-> TRUE]
                          ELSE NoChoice

DealtHands ==
    {h \in [Seats -> kSubset(HandSize, Card)] :
        \A s, t \in Seats : s # t => h[s] \cap h[t] = {}}

Init ==
    \E dealt \in DealtHands, dealer \in Seats :
      LET rest  == Card \ UNION {dealt[s] : s \in Seats}
          first == StepFrom(dealer, 1, 1)
      IN  \E c \in {x \in rest : KindOf[x] # "wild_draw_four"} :
            /\ top = c /\ discard = {}
            /\ \E D \in IF KindOf[c] = "draw_two"
                        THEN DrawnSets(rest \ {c}, {}, 2) ELSE {{}} :
                  /\ hand = [dealt EXCEPT ![first] = @ \cup D]
                  /\ drawPile = (rest \ {c}) \ D
            /\ OpeningTurn(dealer, c)
            /\ pendingDraw = 0 /\ drawnCard = NoCard
            /\ uno = NoChallenges /\ candidates = <<>> /\ result = NoResult

-----------------------------------------------------------------------------
(* The engine's commands, by the seat that issues them.                    *)

Play(s, c, sayUNO) ==
    LET left == hand[s] \ {c}
        challenges ==
            [uno EXCEPT ![s] = IF IsSingleton(left) /\ ~sayUNO THEN "open" ELSE "none"]
        emptied == IF left = {} THEN AddCandidate(s) ELSE candidates
    IN  /\ phase \in {"playing", "awaiting_draw_decision"}
        /\ s = currentSeat
        /\ c \in hand[s]
        /\ phase = "awaiting_draw_decision" => c = drawnCard
        /\ Playable(c)
        /\ hand' = [hand EXCEPT ![s] = left]
        /\ discard' = discard \cup {top}
        /\ top' = c
        /\ drawnCard' = NoCard
        /\ UNCHANGED drawPile
        /\ \/ /\ IsWild(c)
              /\ currentColor' = NoColor
              /\ phase' = "awaiting_color"
              /\ pendingColor' = [seat |-> s, card |-> c, opening |-> FALSE]
              /\ candidates' = emptied
              /\ uno' = challenges
              /\ UNCHANGED <<currentSeat, direction, pendingDraw, result>>
           \/ /\ ~IsWild(c)
              /\ currentColor' = ColorOf[c]
              /\ ApplyCardEffect(s, c, emptied, challenges)
              /\ UNCHANGED pendingColor

ChooseColor(s, color) ==
    /\ phase = "awaiting_color"
    /\ s = pendingColor.seat
    /\ currentColor' = color
    /\ pendingColor' = NoChoice
    /\ UNCHANGED <<piles, drawnCard>>
    /\ \/ /\ pendingColor.opening
          /\ phase' = "playing"
          /\ UNCHANGED <<currentSeat, direction, pendingDraw, uno, candidates, result>>
       \/ /\ ~pendingColor.opening
          /\ ApplyCardEffect(s, pendingColor.card, candidates, uno)

\* Draw with a penalty pending: take all of it and end the turn.
DrawPenalty(s) ==
    /\ phase = "playing" /\ s = currentSeat /\ pendingDraw > 0
    /\ \E D \in DrawnSets(drawPile, discard, pendingDraw) :
          /\ TakeCards(s, D)
          /\ FinishIfResolved(CandidatesAfterDraw(s, D), 0, StepFrom(s, 1, direction),
                              ChallengesAfterDraw(s, D))
    /\ UNCHANGED <<direction, currentColor, drawnCard, pendingColor>>

DecideOnDrawn_Unchecked(s, D) ==
    \/ \E c \in D : phase' = "awaiting_draw_decision" /\ drawnCard' = c /\ UNCHANGED currentSeat
    \/ D = {} /\ currentSeat' = StepFrom(s, 1, direction) /\ UNCHANGED <<phase, drawnCard>>
DecideOnDrawn(s, D) ==
    \/ \E c \in D : /\ Playable(c)
                    /\ phase' = "awaiting_draw_decision"
                    /\ drawnCard' = c
                    /\ UNCHANGED currentSeat
    \/ /\ \A c \in D : ~Playable(c)
       /\ currentSeat' = StepFrom(s, 1, direction)
       /\ UNCHANGED <<phase, drawnCard>>

\* Draw with nothing pending: one card, kept for a decision when it is playable.
DrawOrdinary(s) ==
    /\ phase = "playing" /\ s = currentSeat /\ pendingDraw = 0
    /\ \E D \in DrawnSets(drawPile, discard, 1) :
          /\ TakeCards(s, D)
          /\ uno' = IF D = {} THEN uno ELSE [uno EXCEPT ![s] = "none"]
          /\ DecideOnDrawn(s, D)
    /\ UNCHANGED <<direction, currentColor, pendingDraw, pendingColor, candidates, result>>

Pass(s) ==
    /\ phase = "awaiting_draw_decision" /\ s = currentSeat
    /\ drawnCard' = NoCard
    /\ phase' = "playing"
    /\ currentSeat' = StepFrom(s, 1, direction)
    /\ UNCHANGED <<piles, direction, currentColor, pendingDraw, pendingColor, uno,
                   candidates, result>>

\* Out of turn: the seat saves itself before it is caught.
CallUNO(s) ==
    /\ phase # "finished" /\ uno[s] = "open"
    /\ uno' = [uno EXCEPT ![s] = "none"]
    /\ UNCHANGED <<piles, turn, candidates, result>>

\* Out of turn: another seat makes the target take two cards.
CatchUNO(challenger, target) ==
    /\ phase # "finished" /\ challenger # target /\ uno[target] = "open"
    /\ \E D \in DrawnSets(drawPile, discard, 2) :
          /\ TakeCards(target, D)
          /\ candidates' = CandidatesAfterDraw(target, D)
    /\ uno' = [uno EXCEPT ![target] = "none"]
    /\ UNCHANGED <<turn, result>>

\* The window of four seconds runs out; the record is still there.
ChallengeLapses(s) ==
    /\ uno[s] = "open"
    /\ uno' = [uno EXCEPT ![s] = "lapsed"]
    /\ UNCHANGED <<piles, turn, candidates, result>>

\* A call or catch that comes too late fails, and purges the lapsed record.
RejectLateCall(s) ==
    /\ phase # "finished" /\ uno[s] = "lapsed"
    /\ uno' = [uno EXCEPT ![s] = "none"]
    /\ UNCHANGED <<piles, turn, candidates, result>>

ExpireUNOChallenges ==
    /\ \E s \in Seats : uno[s] = "lapsed"
    /\ uno' = [s \in Seats |-> IF uno[s] = "lapsed" THEN "none" ELSE uno[s]]
    /\ UNCHANGED <<piles, turn, candidates, result>>

PlayerAction(s) ==
    \/ \E c \in Card, sayUNO \in BOOLEAN : Play(s, c, sayUNO)
    \/ \E color \in Colors : ChooseColor(s, color)
    \/ DrawPenalty(s)
    \/ DrawOrdinary(s)
    \/ Pass(s)
    \/ CallUNO(s)
    \/ \E target \in Seats : CatchUNO(s, target)

\* A finished round accepts no command any more.
RoundOver == phase = "finished" /\ UNCHANGED vars

Next ==
    \/ \E s \in Seats : PlayerAction(s) \/ ChallengeLapses(s) \/ RejectLateCall(s)
    \/ ExpireUNOChallenges
    \/ RoundOver

Spec == Init /\ [][Next]_vars

-----------------------------------------------------------------------------
(* Every variable stays in its type.                                       *)
TypeOK ==
    /\ hand \in [Seats -> SUBSET Card]
    /\ drawPile \subseteq Card /\ discard \subseteq Card /\ top \in Card
    /\ currentSeat \in Seats \cup {NoSeat}
    /\ direction \in {1, -1}
    /\ currentColor \in Colors \cup {NoColor}
    /\ pendingDraw \in Nat
    /\ phase \in Phases
    /\ drawnCard \in Card \cup {NoCard}
    /\ \/ pendingColor = NoChoice
       \/ pendingColor \in [seat : Seats, card : Card, opening : BOOLEAN]
    /\ uno \in [Seats -> {"none", "open", "lapsed"}]
    /\ candidates \in Seq(Seats)
    /\ result.winner \in Seats \cup {NoSeat}

(* What Restore demands of a snapshot, one operator per validate function. *)
ValidShape ==
    \A i \in DOMAIN candidates :
        /\ hand[candidates[i]] = {}
        /\ \A j \in DOMAIN candidates : candidates[i] = candidates[j] => i = j

ValidLifecycle ==
    /\ IF phase = "finished"
       THEN /\ currentSeat = NoSeat /\ result # NoResult
            /\ pendingDraw = 0 /\ candidates # <<>>
       ELSE /\ currentSeat \in Seats /\ result = NoResult
            /\ candidates # <<>> /\ pendingDraw = 0 => phase = "awaiting_color"
    /\ IF phase = "awaiting_color"
       THEN pendingColor # NoChoice /\ currentColor = NoColor
       ELSE pendingColor = NoChoice /\ currentColor \in Colors
    /\ IF phase = "awaiting_draw_decision"
       THEN drawnCard # NoCard /\ pendingDraw = 0
       ELSE drawnCard = NoCard
    /\ ~IsWild(top) => currentColor = ColorOf[top]

ValidCards ==
    /\ Card = (UNION {hand[s] : s \in Seats}) \cup drawPile \cup discard \cup {top}
    /\ \A s, t \in Seats : s # t => hand[s] \cap hand[t] = {}
    /\ \A s \in Seats : hand[s] \cap (drawPile \cup discard \cup {top}) = {}
    /\ drawPile \cap discard = {}
    /\ top \notin drawPile \cup discard

ValidPendingActions ==
    /\ phase = "awaiting_draw_decision" => drawnCard \in hand[currentSeat]
    /\ pendingColor # NoChoice =>
          /\ pendingColor.seat = currentSeat
          /\ IsWild(top) /\ pendingColor.card = top
          /\ pendingColor.opening => KindOf[top] = "wild"
    /\ \A s \in Seats : uno[s] # "none" => IsSingleton(hand[s])

ValidResult ==
    result # NoResult =>
        /\ result.winner = candidates[1]
        /\ result.score = WinnerScore(hand, result.winner)

(* Whatever commands were played, in whatever order, the state the room    *)
(* saves after each of them is one that Restore accepts: no reachable      *)
(* round is lost by a restart.                                             *)
SnapshotRestores ==
    ValidShape /\ ValidLifecycle /\ ValidCards /\ ValidPendingActions /\ ValidResult

(* No winner is forgotten: while a round is on, the candidates are exactly *)
(* the seats without cards, also after stacked penalties and catches.      *)
EmptyHandsAreCandidates ==
    phase # "finished" =>
        \A s \in Seats : hand[s] = {} <=> Indices(candidates, s) # {}

(* The card of a draw decision can still be played whatever others did in  *)
(* between, so Pass is never the only way out of it.                       *)
DrawnCardStaysPlayable ==
    phase = "awaiting_draw_decision" => Playable(drawnCard)

(* A stacked penalty always lies under the card that raised it: a catch    *)
(* that turns the discard pile over in mid-chain does not lose it, and no  *)
(* other card gets on top before the penalty is taken.                     *)
PenaltyShowsOnTop ==
    pendingDraw > 0 => IsPenalty(top)

Rank(s) == IF Indices(candidates, s) = {} THEN Len(candidates) + 1
           ELSE CHOOSE i \in Indices(candidates, s) : TRUE

(* The round goes to the seat that emptied its hand first: of two seats    *)
(* that stay without cards, the one ahead stays ahead, and the one behind  *)
(* never wins, however long the chain of penalties in between.             *)
FirstToEmptyWins ==
    [][phase # "finished" =>
          \A s, t \in Seats :
             hand'[s] = {} /\ hand'[t] = {} /\ Rank(s) < Rank(t) =>
                IF phase' = "finished" THEN result'.winner # t
                ELSE Rank(s)' < Rank(t)']_vars

(* A stacked penalty is never dropped: it only goes down when the player   *)
(* in turn takes all of it, or every card there is to take; the end of the *)
(* round included.                                                         *)
PenaltyIsPaid ==
    [][pendingDraw' < pendingDraw =>
          Cardinality(hand'[currentSeat] \ hand[currentSeat])
             = Smaller(pendingDraw, Cardinality(drawPile) + Cardinality(discard))]_vars

Owner == [c \in Card |->
            IF c = top THEN -3
            ELSE IF c \in drawPile THEN -1
            ELSE IF c \in discard THEN -2
            ELSE CHOOSE s \in Seats : c \in hand[s]]

Custody == INSTANCE CardCustody WITH owner <- Owner, over <- phase = "finished"

(* The engine keeps the promise about its cards that CardCustody states.   *)
ImplementsCustody == Custody!Spec
=============================================================================
