--------------------------- MODULE UnoEngineProofs ---------------------------
(***************************************************************************)
(* Proofs about UnoEngine for every deck, number of players and hand size. *)
(* The inductive invariant is the conjunction of the invariants the runs   *)
(* check and of one strengthening about the opening wild card.  From it    *)
(* follow that penalties are paid, that the first to empty its hand wins,  *)
(* and, step by step, that the engine implements CardCustody.              *)
(***************************************************************************)
EXTENDS UnoEngine, TLAPS, FiniteSetTheorems, SequenceTheorems

OpeningIsClean == pendingColor.opening => candidates = <<>> /\ pendingDraw = 0

IInv ==
    /\ TypeOK
    /\ SnapshotRestores
    /\ EmptyHandsAreCandidates
    /\ DrawnCardStaysPlayable
    /\ PenaltyShowsOnTop
    /\ OpeningIsClean

(* A step from a seat ends at a seat, in both directions.                  *)
LEMMA StepFromSeat ==
    ASSUME NEW s \in Seats, NEW k \in {1, 2}, NEW d \in {1, -1}
    PROVE  StepFrom(s, k, d) \in Seats
<1>1. s + k * d \in Int
  BY PlayersAssumption DEF Seats
<1>2. \A a \in Int : a % N \in 0 .. N - 1
  BY PlayersAssumption
<1> QED
  BY <1>1, <1>2 DEF StepFrom, Seats

(* A draw takes cards of the two piles, and turns the discard pile over    *)
(* only when the draw pile is used up.                                     *)
LEMMA DrawnSetsSound ==
    ASSUME NEW pile, NEW under, NEW n, NEW D \in DrawnSets(pile, under, n)
    PROVE  /\ D \subseteq pile \cup under
           /\ D \subseteq pile \/ pile \subseteq D
BY DEF DrawnSets, kSubset

(* Removing one place of a sequence without repetitions removes one value. *)
LEMMA RemoveAtFacts ==
    ASSUME NEW S, NEW q \in Seq(S), NEW i \in DOMAIN q
    PROVE  /\ RemoveAt(q, i) \in Seq(S)
           /\ Len(RemoveAt(q, i)) = Len(q) - 1
           /\ \A j \in 1 .. Len(q) - 1 :
                 RemoveAt(q, i)[j] = IF j < i THEN q[j] ELSE q[j + 1]
<1>1. /\ SubSeq(q, 1, i - 1) \in Seq(S) /\ Len(SubSeq(q, 1, i - 1)) = i - 1
      /\ \A j \in 1 .. i - 1 : SubSeq(q, 1, i - 1)[j] = q[j]
  OBVIOUS
<1>2. /\ SubSeq(q, i + 1, Len(q)) \in Seq(S) /\ Len(SubSeq(q, i + 1, Len(q))) = Len(q) - i
      /\ \A j \in 1 .. Len(q) - i : SubSeq(q, i + 1, Len(q))[j] = q[i + j]
  OBVIOUS
<1> DEFINE a == SubSeq(q, 1, i - 1)
           b == SubSeq(q, i + 1, Len(q))
           r == RemoveAt(q, i)
<1>3. /\ r \in Seq(S) /\ Len(r) = Len(a) + Len(b)
      /\ \A j \in 1 .. Len(a) + Len(b) : r[j] = IF j <= Len(a) THEN a[j] ELSE b[j - Len(a)]
  BY <1>1, <1>2, ConcatProperties, Zenon DEF RemoveAt
<1>4. i \in 1 .. Len(q) /\ Len(q) \in Nat /\ Len(a) = i - 1 /\ Len(b) = Len(q) - i
  BY <1>1, <1>2
<1>7. /\ \A j \in 1 .. i - 1 : a[j] = q[j]
      /\ \A j \in 1 .. Len(q) - i : b[j] = q[i + j]
  BY <1>1, <1>2
<1> HIDE DEF a, b, r
<1>5. ASSUME NEW j \in 1 .. Len(q) - 1
      PROVE  r[j] = IF j < i THEN q[j] ELSE q[j + 1]
  <2>0. j \in 1 .. Len(a) + Len(b)
    BY <1>4
  <2>1. CASE j < i
    <3>1. r[j] = a[j] /\ j \in 1 .. i - 1
      BY <2>0, <2>1, <1>3, <1>4
    <3> QED BY <2>1, <3>1, <1>7
  <2>2. CASE ~(j < i)
    <3>1. r[j] = b[j - (i - 1)]
      <4>1. ~(j <= Len(a)) /\ j - Len(a) = j - (i - 1)
        BY <2>2, <1>4
      <4> QED BY <2>0, <4>1, <1>3
    <3>2. j - (i - 1) \in 1 .. Len(q) - i /\ i + (j - (i - 1)) = j + 1
      BY <2>2, <1>4
    <3>3. b[j - (i - 1)] = q[i + (j - (i - 1))]
      BY <3>2, <1>7
    <3> QED
      BY <2>2, <3>1, <3>2, <3>3
  <2> QED
    BY <2>1, <2>2
<1>6. r \in Seq(S) /\ Len(r) = Len(q) - 1
  BY <1>3, <1>4
<1> QED
  BY <1>5, <1>6 DEF r

-----------------------------------------------------------------------------
(* The candidates.                                                         *)

In(q, s) == Indices(q, s) # {}
NoRepeat(q) == \A i, j \in DOMAIN q : q[i] = q[j] => i = j

(* Taking cards removes exactly the taker from the candidates.             *)
LEMMA CandidatesAfterDrawFacts ==
    ASSUME candidates \in Seq(Seats), NoRepeat(candidates), NEW s \in Seats, NEW D
    PROVE  /\ CandidatesAfterDraw(s, D) \in Seq(Seats)
           /\ NoRepeat(CandidatesAfterDraw(s, D))
           /\ \A t : In(CandidatesAfterDraw(s, D), t)
                       <=> In(candidates, t) /\ (t # s \/ D = {})
<1> DEFINE q == CandidatesAfterDraw(s, D)
<1>1. CASE D = {} \/ ~In(candidates, s)
  BY <1>1 DEF CandidatesAfterDraw, In, Indices, NoRepeat
<1>2. CASE D # {} /\ In(candidates, s)
  <2>1. PICK i \in DOMAIN candidates :
          candidates[i] = s /\ q = RemoveAt(candidates, i)
    BY <1>2 DEF CandidatesAfterDraw, In, Indices
  <2>2. /\ q \in Seq(Seats) /\ Len(q) = Len(candidates) - 1
        /\ \A j \in 1 .. Len(candidates) - 1 :
              q[j] = IF j < i THEN candidates[j] ELSE candidates[j + 1]
    BY <2>1, RemoveAtFacts, Zenon
  <2>3. /\ DOMAIN candidates = 1 .. Len(candidates) /\ Len(candidates) \in Nat
        /\ DOMAIN q = 1 .. Len(candidates) - 1
    BY <2>2
  <2> HIDE DEF q
  <2>4. NoRepeat(q)
    <3>1. SUFFICES ASSUME NEW j \in 1 .. Len(candidates) - 1,
                          NEW k \in 1 .. Len(candidates) - 1, q[j] = q[k]
                   PROVE  j = k
      BY <2>3 DEF NoRepeat
    <3> DEFINE from(x) == IF x < i THEN x ELSE x + 1
    <3>2. from(j) \in DOMAIN candidates /\ from(k) \in DOMAIN candidates
      BY <2>3
    <3>3. candidates[from(j)] = candidates[from(k)]
      BY <3>1, <2>2
    <3>4. from(j) = from(k)
      BY <3>2, <3>3 DEF NoRepeat
    <3> QED
      BY <3>4, <2>3
  <2>5. ASSUME NEW t, In(candidates, t), t # s PROVE In(q, t)
    <3>1. PICK k \in DOMAIN candidates : candidates[k] = t
      BY <2>5 DEF In, Indices
    <3>2. CASE k < i
      BY <3>1, <3>2, <2>1, <2>2, <2>3 DEF In, Indices
    <3>3. CASE k > i
      <4>1. k - 1 \in DOMAIN q /\ ~(k - 1 < i) /\ (k - 1) + 1 = k
        BY <3>3, <2>1, <2>3
      <4>2. q[k - 1] = t
        BY <4>1, <3>1, <2>2, <2>3
      <4> QED
        BY <4>1, <4>2 DEF In, Indices
    <3> QED
      BY <3>1, <3>2, <3>3, <2>1, <2>3, <2>5
  <2>6. ASSUME NEW t, In(q, t) PROVE In(candidates, t) /\ t # s
    <3>1. PICK j \in 1 .. Len(candidates) - 1 : q[j] = t
      BY <2>6, <2>3 DEF In, Indices
    <3> DEFINE k == IF j < i THEN j ELSE j + 1
    <3>2. k \in DOMAIN candidates /\ k # i /\ candidates[k] = t
      BY <3>1, <2>1, <2>2, <2>3
    <3> HIDE DEF k
    <3>3. t # s
      BY <3>2, <2>1 DEF NoRepeat
    <3> QED
      BY <3>2, <3>3 DEF In, Indices
  <2> QED
    BY <1>2, <2>2, <2>4, <2>5, <2>6 DEF q
<1> QED
  BY <1>1, <1>2

(* Settling either ends the round for a seat without cards, or goes on     *)
(* with candidates that are again exactly the seats without cards.         *)
LEMMA FinishIfResolvedFacts ==
    ASSUME NEW q \in Seq(Seats), NoRepeat(q), NEW pending \in Nat,
           NEW nextSeat, NEW challenges,
           \A t \in Seats : hand'[t] = {} => In(q, t),
           pending > 0 => \A t \in Seats : In(q, t) => hand'[t] = {},
           FinishIfResolved(q, pending, nextSeat, challenges)
    PROVE  \/ \E w \in Seats : hand'[w] = {} /\ FinishRound(w)
           \/ /\ candidates' \in Seq(Seats) /\ NoRepeat(candidates')
              /\ \A t \in Seats : hand'[t] = {} <=> In(candidates', t)
              /\ candidates' # <<>> => pending > 0
              /\ phase' = "playing" /\ currentSeat' = nextSeat
              /\ pendingDraw' = pending /\ uno' = challenges /\ result' = result
<1>1. CASE pending = 0 /\ \E i \in StillEmpty(q) : FinishRound(q[i])
  <2>1. \A i \in DOMAIN q : q[i] \in Seats
    OBVIOUS
  <2> QED
    BY <1>1, <2>1 DEF StillEmpty
<1>2. CASE /\ pending = 0 => StillEmpty(q) = {}
           /\ candidates' = IF pending = 0 THEN <<>> ELSE q
           /\ phase' = "playing" /\ currentSeat' = nextSeat
           /\ pendingDraw' = pending /\ uno' = challenges /\ result' = result
  <2>1. CASE pending = 0
    <3>1. \A t \in Seats : hand'[t] # {}
      BY <1>2, <2>1 DEF StillEmpty, In, Indices
    <3>2. candidates' = <<>> /\ <<>> \in Seq(Seats) /\ DOMAIN <<>> = {}
      BY <1>2, <2>1
    <3> QED
      BY <1>2, <2>1, <3>1, <3>2 DEF In, Indices, NoRepeat
  <2>2. CASE pending > 0
    BY <1>2, <2>2
  <2> QED
    BY <2>1, <2>2
<1> QED
  BY <1>1, <1>2 DEF FinishIfResolved

(* Settling establishes the invariant, whatever command led to it.         *)
LEMMA SettleStep ==
    ASSUME IInv, phase # "finished",
           NEW q \in Seq(Seats), NoRepeat(q), NEW pending \in Nat,
           NEW nextSeat \in Seats,
           NEW challenges \in [Seats -> {"none", "open", "lapsed"}],
           hand' \in [Seats -> SUBSET Card], drawPile' \subseteq Card,
           discard' \subseteq Card, top' \in Card, ValidCards',
           direction' \in {1, -1}, currentColor' \in Colors,
           ~IsWild(top') => currentColor' = ColorOf[top'],
           drawnCard' = NoCard, pendingColor' = NoChoice,
           \A t \in Seats : hand'[t] = {} => In(q, t),
           pending > 0 => \A t \in Seats : In(q, t) => hand'[t] = {},
           \A t \in Seats : challenges[t] # "none" => IsSingleton(hand'[t]),
           pending > 0 => IsPenalty(top'),
           FinishIfResolved(q, pending, nextSeat, challenges)
    PROVE  IInv'
<1>1. NoChoice.opening = FALSE /\ NoResult.winner = NoSeat /\ NoSeat \notin Seats
      /\ result.winner \in Seats \cup {NoSeat} /\ result = NoResult
  BY DEF NoChoice, NoResult, NoSeat, Seats, IInv, TypeOK, SnapshotRestores, ValidLifecycle
<1>2. CASE \E w \in Seats : hand'[w] = {} /\ FinishRound(w)
  <2>1. PICK w \in Seats : hand'[w] = {} /\ FinishRound(w)
    BY <1>2
  <2>2. /\ result' = [winner |-> w, score |-> WinnerScore(hand', w)]
        /\ candidates' = <<w>> /\ phase' = "finished" /\ currentSeat' = NoSeat
        /\ pendingDraw' = 0 /\ uno' = NoChallenges
    BY <2>1 DEF FinishRound
  <2>3. /\ result'.winner = w /\ result'.score = WinnerScore(hand', w)
        /\ candidates'[1] = w /\ DOMAIN candidates' = {1}
        /\ candidates' \in Seq(Seats) /\ candidates' # <<>>
    BY <2>2
  <2>4. result' # NoResult
    BY <2>3, <1>1
  <2>5. uno' \in [Seats -> {"none", "open", "lapsed"}] /\ \A t \in Seats : uno'[t] = "none"
    BY <2>2 DEF NoChallenges
  <2>6. TypeOK'
    BY <2>2, <2>3, <2>5 DEF TypeOK, Phases
  <2>7. ValidShape' /\ ValidResult'
    BY <2>1, <2>3 DEF ValidShape, ValidResult
  <2>8. ValidLifecycle'
    BY <2>2, <2>3, <2>4 DEF ValidLifecycle
  <2>9. ValidPendingActions'
    BY <2>2, <2>5 DEF ValidPendingActions
  <2>10. (EmptyHandsAreCandidates /\ DrawnCardStaysPlayable /\ PenaltyShowsOnTop
            /\ OpeningIsClean)'
    BY <2>2, <1>1 DEF EmptyHandsAreCandidates, DrawnCardStaysPlayable, PenaltyShowsOnTop,
                      OpeningIsClean
  <2> QED
    BY <2>6, <2>7, <2>8, <2>9, <2>10 DEF IInv, SnapshotRestores
<1>3. CASE /\ candidates' \in Seq(Seats) /\ NoRepeat(candidates')
           /\ \A t \in Seats : hand'[t] = {} <=> In(candidates', t)
           /\ candidates' # <<>> => pending > 0
           /\ phase' = "playing" /\ currentSeat' = nextSeat
           /\ pendingDraw' = pending /\ uno' = challenges /\ result' = result
  <2>1. TypeOK'
    BY <1>1, <1>3 DEF TypeOK, Phases
  <2>2. ValidShape' /\ ValidResult'
    BY <1>1, <1>3 DEF ValidShape, ValidResult, In, Indices, NoRepeat
  <2>3. ValidLifecycle'
    BY <1>1, <1>3 DEF ValidLifecycle
  <2>4. ValidPendingActions'
    BY <1>3 DEF ValidPendingActions
  <2>5. (EmptyHandsAreCandidates /\ DrawnCardStaysPlayable /\ PenaltyShowsOnTop
           /\ OpeningIsClean)'
    BY <1>1, <1>3 DEF EmptyHandsAreCandidates, DrawnCardStaysPlayable, PenaltyShowsOnTop,
                      OpeningIsClean, In
  <2> QED
    BY <2>1, <2>2, <2>3, <2>4, <2>5 DEF IInv, SnapshotRestores
<1> QED
  BY <1>2, <1>3, FinishIfResolvedFacts

-----------------------------------------------------------------------------
(* The cards.                                                              *)

(* Dealing cards of the piles to a seat keeps every card in one place.     *)
LEMMA TakeCardsFacts ==
    ASSUME TypeOK, ValidCards, NEW s \in Seats, NEW n,
           NEW D \in DrawnSets(drawPile, discard, n), TakeCards(s, D)
    PROVE  /\ hand' \in [Seats -> SUBSET Card]
           /\ hand'[s] = hand[s] \cup D
           /\ \A t \in Seats : t # s => hand'[t] = hand[t]
           /\ drawPile' \subseteq Card /\ discard' \subseteq Card /\ top' = top
           /\ D \subseteq Card
           /\ ValidCards'
<1>1. D \subseteq drawPile \cup discard /\ (D \subseteq drawPile \/ drawPile \subseteq D)
  BY DrawnSetsSound
<1>2. D \subseteq Card
  BY <1>1 DEF TypeOK
<1>3. /\ hand' \in [Seats -> SUBSET Card]
      /\ hand'[s] = hand[s] \cup D
      /\ \A t \in Seats : t # s => hand'[t] = hand[t]
      /\ drawPile' \subseteq Card /\ discard' \subseteq Card /\ top' = top
  BY <1>2 DEF TakeCards, TypeOK
<1>4. /\ D \subseteq drawPile => drawPile' = drawPile \ D /\ discard' = discard
      /\ ~(D \subseteq drawPile) => drawPile' = discard \ D /\ discard' = {}
  BY DEF TakeCards
<1>5. drawPile' \cup discard' = (drawPile \cup discard) \ D
  BY <1>1, <1>4 DEF ValidCards
<1>6. UNION {hand'[t] : t \in Seats} = (UNION {hand[t] : t \in Seats}) \cup D
  BY <1>3
<1>7. Card = (UNION {hand'[t] : t \in Seats}) \cup drawPile' \cup discard' \cup {top'}
  BY <1>1, <1>3, <1>5, <1>6 DEF ValidCards
<1>8. \A t, u \in Seats : t # u => hand'[t] \cap hand'[u] = {}
  BY <1>1, <1>3 DEF ValidCards
<1>9. \A t \in Seats : hand'[t] \cap (drawPile' \cup discard' \cup {top'}) = {}
  BY <1>1, <1>3, <1>5 DEF ValidCards
<1>10. drawPile' \cap discard' = {} /\ top' \notin drawPile' \cup discard'
  BY <1>3, <1>4, <1>5 DEF ValidCards
<1> QED
  BY <1>2, <1>3, <1>7, <1>8, <1>9, <1>10 DEF ValidCards

(* Playing a card onto the discard pile keeps every card in one place.     *)
LEMMA PlayedCardFacts ==
    ASSUME TypeOK, ValidCards, NEW s \in Seats, NEW c \in hand[s],
           hand' = [hand EXCEPT ![s] = hand[s] \ {c}],
           discard' = discard \cup {top}, top' = c, drawPile' = drawPile
    PROVE  /\ hand' \in [Seats -> SUBSET Card]
           /\ hand'[s] = hand[s] \ {c}
           /\ \A t \in Seats : t # s => hand'[t] = hand[t]
           /\ drawPile' \subseteq Card /\ discard' \subseteq Card /\ top' \in Card
           /\ ValidCards'
<1>1. /\ hand' \in [Seats -> SUBSET Card]
      /\ hand'[s] = hand[s] \ {c}
      /\ \A t \in Seats : t # s => hand'[t] = hand[t]
      /\ drawPile' \subseteq Card /\ discard' \subseteq Card /\ top' \in Card
  BY DEF TypeOK
<1>2. (UNION {hand'[t] : t \in Seats}) \cup {c} = UNION {hand[t] : t \in Seats}
  <2>1. \A x \in UNION {hand[t] : t \in Seats} :
            x = c \/ x \in UNION {hand'[t] : t \in Seats}
    BY <1>1
  <2>2. \A x \in UNION {hand'[t] : t \in Seats} : x \in UNION {hand[t] : t \in Seats}
    BY <1>1
  <2>3. c \in UNION {hand[t] : t \in Seats}
    OBVIOUS
  <2> QED
    BY <2>1, <2>2, <2>3
<1>3. Card = (UNION {hand'[t] : t \in Seats}) \cup drawPile' \cup discard' \cup {top'}
  BY <1>2 DEF ValidCards
<1>4. \A t, u \in Seats : t # u => hand'[t] \cap hand'[u] = {}
  BY <1>1 DEF ValidCards
<1>5. \A t \in Seats : c \notin hand'[t]
  BY <1>1 DEF ValidCards
<1>6. \A t \in Seats : hand'[t] \cap (drawPile' \cup discard' \cup {top'}) = {}
  BY <1>1, <1>5 DEF ValidCards
<1>7. drawPile' \cap discard' = {} /\ top' \notin drawPile' \cup discard'
  BY DEF ValidCards
<1> QED
  BY <1>1, <1>3, <1>4, <1>6, <1>7 DEF ValidCards

-----------------------------------------------------------------------------
(* One lemma per command: it preserves the invariant.                      *)

(* What the invariant says of a state in which a seat may play or draw.    *)
Active ==
    /\ currentSeat \in Seats /\ result = NoResult
    /\ pendingColor = NoChoice /\ NoChoice.opening = FALSE
    /\ NoChoice.seat = NoSeat /\ NoSeat \notin Seats
    /\ candidates \in Seq(Seats) /\ NoRepeat(candidates)
    /\ \A t \in Seats : hand[t] = {} <=> In(candidates, t)
    /\ pendingDraw = 0 => candidates = <<>>
    /\ pendingDraw \in Nat /\ direction \in {1, -1}
    /\ currentColor \in Colors
    /\ uno \in [Seats -> {"none", "open", "lapsed"}]
    /\ \A t \in Seats : uno[t] # "none" => IsSingleton(hand[t])

(* The invariant says this of every turn that is played or decided.        *)
LEMMA ActiveFacts ==
    ASSUME IInv, phase \in {"playing", "awaiting_draw_decision"}
    PROVE  Active
BY DEF IInv, TypeOK, SnapshotRestores, ValidShape, ValidLifecycle, ValidPendingActions,
       EmptyHandsAreCandidates, NoChoice, NoSeat, Seats, In, NoRepeat, Active

(* The candidates once the seat has played one of its cards.               *)
LEMMA EmptiedFacts ==
    ASSUME candidates \in Seq(Seats), NoRepeat(candidates),
           NEW s \in Seats, ~In(candidates, s), NEW left,
           NEW q, q = IF left = {} THEN AddCandidate(s) ELSE candidates
    PROVE  /\ q \in Seq(Seats) /\ NoRepeat(q)
           /\ \A t : In(q, t) <=> In(candidates, t) \/ (t = s /\ left = {})
<1>1. CASE left # {}
  BY <1>1
<1>2. CASE left = {}
  <2>1. q = Append(candidates, s)
    BY <1>2 DEF AddCandidate, In
  <2>2. /\ q \in Seq(Seats) /\ Len(q) = Len(candidates) + 1
        /\ DOMAIN q = 1 .. Len(candidates) + 1 /\ Len(candidates) \in Nat
        /\ DOMAIN candidates = 1 .. Len(candidates)
        /\ \A j \in 1 .. Len(candidates) : q[j] = candidates[j]
        /\ q[Len(candidates) + 1] = s
    BY <2>1
  <2>3. NoRepeat(q)
    BY <2>2 DEF NoRepeat, In, Indices
  <2>4. \A t : In(q, t) <=> In(candidates, t) \/ t = s
    BY <2>2 DEF In, Indices
  <2> QED
    BY <1>2, <2>2, <2>3, <2>4
<1> QED
  BY <1>1, <1>2

(* A card played, onto an ordinary turn or a stacked penalty.              *)
LEMMA PlayStep ==
    ASSUME IInv, NEW s \in Seats, NEW c \in Card, NEW sayUNO \in BOOLEAN,
           Play(s, c, sayUNO)
    PROVE  IInv'
<1> DEFINE left == hand[s] \ {c}
           challenges == [uno EXCEPT ![s] = IF IsSingleton(left) /\ ~sayUNO
                                            THEN "open" ELSE "none"]
           q == IF left = {} THEN AddCandidate(s) ELSE candidates
<1>1. /\ phase \in {"playing", "awaiting_draw_decision"}
      /\ s = currentSeat /\ c \in hand[s] /\ Playable(c)
      /\ hand' = [hand EXCEPT ![s] = left]
      /\ discard' = discard \cup {top} /\ top' = c /\ drawPile' = drawPile
      /\ drawnCard' = NoCard
  BY DEF Play
<1>2. TypeOK /\ ValidCards /\ phase # "finished" /\ Active
  BY <1>1, ActiveFacts DEF IInv, SnapshotRestores
<1>3. /\ hand' \in [Seats -> SUBSET Card] /\ hand'[s] = left
      /\ \A t \in Seats : t # s => hand'[t] = hand[t]
      /\ drawPile' \subseteq Card /\ discard' \subseteq Card /\ top' \in Card
      /\ ValidCards'
  BY <1>1, <1>2, PlayedCardFacts
<1>4. hand[s] # {} /\ ~In(candidates, s)
  BY <1>1, <1>2 DEF Active
<1>5. /\ q \in Seq(Seats) /\ NoRepeat(q)
      /\ \A t : In(q, t) <=> In(candidates, t) \/ (t = s /\ left = {})
  BY <1>2, <1>4, EmptiedFacts DEF Active
<1>6. \A t \in Seats : hand'[t] = {} <=> In(q, t)
  BY <1>2, <1>3, <1>4, <1>5 DEF Active
<1>7. /\ challenges \in [Seats -> {"none", "open", "lapsed"}]
      /\ \A t \in Seats : challenges[t] # "none" => IsSingleton(hand'[t])
  BY <1>2, <1>3 DEF Active
<1>8. pendingDraw > 0 => IsPenalty(c)
  BY <1>1 DEF Playable
<1> HIDE DEF left, challenges, q
<1>9. CASE /\ IsWild(c) /\ currentColor' = NoColor /\ phase' = "awaiting_color"
           /\ pendingColor' = [seat |-> s, card |-> c, opening |-> FALSE]
           /\ candidates' = q /\ uno' = challenges
           /\ UNCHANGED <<currentSeat, direction, pendingDraw, result>>
  <2>1. /\ pendingColor'.seat = s /\ pendingColor'.card = c /\ ~pendingColor'.opening
        /\ pendingColor' # NoChoice
        /\ pendingColor' \in [seat : Seats, card : Card, opening : BOOLEAN]
    BY <1>2, <1>9 DEF Active, NoChoice
  <2>2. TypeOK'
    BY <1>1, <1>2, <1>3, <1>5, <1>7, <1>9, <2>1 DEF TypeOK, Phases
  <2>3. ValidShape' /\ ValidResult'
    <3>1. result' = NoResult
      BY <1>2, <1>9 DEF Active
    <3>2. \A i \in DOMAIN q : q[i] \in Seats /\ In(q, q[i])
      BY <1>5 DEF In, Indices
    <3> QED
      BY <1>5, <1>6, <1>9, <3>1, <3>2 DEF ValidShape, ValidResult, NoRepeat
  <2>4. ValidLifecycle'
    BY <1>1, <1>2, <1>9, <2>1 DEF ValidLifecycle, Active
  <2>5. ValidPendingActions'
    BY <1>1, <1>7, <1>9, <2>1 DEF ValidPendingActions
  <2>6. (EmptyHandsAreCandidates /\ DrawnCardStaysPlayable /\ PenaltyShowsOnTop
           /\ OpeningIsClean)'
    BY <1>1, <1>6, <1>8, <1>9, <2>1
       DEF EmptyHandsAreCandidates, DrawnCardStaysPlayable, PenaltyShowsOnTop,
           OpeningIsClean, In
  <2> QED
    BY <1>3, <2>2, <2>3, <2>4, <2>5, <2>6 DEF IInv, SnapshotRestores
<1>10. CASE /\ ~IsWild(c) /\ currentColor' = ColorOf[c]
            /\ ApplyCardEffect(s, c, q, challenges)
            /\ UNCHANGED pendingColor
  <2> DEFINE pending == pendingDraw + PenaltyOf(c)
             flips == KindOf[c] = "reverse" /\ N # 2
             skips == KindOf[c] = "skip" \/ (KindOf[c] = "reverse" /\ N = 2)
             next == StepFrom(s, IF skips THEN 2 ELSE 1, direction')
  <2>1. /\ direction' = IF flips THEN -direction ELSE direction
        /\ FinishIfResolved(q, pending, next, challenges)
    BY <1>10 DEF ApplyCardEffect
  <2>2. direction' \in {1, -1}
    BY <2>1, <1>2 DEF Active
  <2>3. next \in Seats
    BY <2>2, StepFromSeat
  <2>4. pending \in Nat /\ (pending > 0 => IsPenalty(c))
    BY <1>2, <1>8 DEF PenaltyOf, Active
  <2>5. currentColor' \in Colors /\ pendingColor' = NoChoice
    BY <1>2, <1>10, DeckAssumption DEF IsWild, Active
  <2> HIDE DEF pending, next
  <2>6. /\ IInv /\ phase # "finished" /\ q \in Seq(Seats) /\ NoRepeat(q)
        /\ challenges \in [Seats -> {"none", "open", "lapsed"}]
        /\ hand' \in [Seats -> SUBSET Card] /\ drawPile' \subseteq Card
        /\ discard' \subseteq Card /\ top' \in Card /\ ValidCards'
        /\ drawnCard' = NoCard
    BY <1>1, <1>2, <1>3, <1>5, <1>6, <1>7
  <2>7. /\ ~IsWild(top') => currentColor' = ColorOf[top']
        /\ pending > 0 => IsPenalty(top')
    BY <1>1, <1>10, <2>4
  <2>8. /\ \A t \in Seats : hand'[t] = {} => In(q, t)
        /\ \A t \in Seats : In(q, t) => hand'[t] = {}
        /\ \A t \in Seats : challenges[t] # "none" => IsSingleton(hand'[t])
    BY <1>6, <1>7
  <2> HIDE DEF q, challenges
  <2> QED
    BY <2>1, <2>2, <2>3, <2>4, <2>5, <2>6, <2>7, <2>8, SettleStep
<1> QED
  BY <1>9, <1>10 DEF Play, left, challenges, q

(* The colour of an opening or of a played wild card.                      *)
LEMMA ChooseColorStep ==
    ASSUME IInv, NEW s \in Seats, NEW color \in Colors, ChooseColor(s, color)
    PROVE  IInv'
<1>1. /\ phase = "awaiting_color" /\ s = pendingColor.seat
      /\ currentColor' = color /\ pendingColor' = NoChoice
      /\ hand' = hand /\ drawPile' = drawPile /\ discard' = discard /\ top' = top
      /\ drawnCard' = drawnCard
  BY DEF ChooseColor, piles
<1>2. /\ TypeOK /\ ValidCards /\ ValidShape /\ ValidLifecycle /\ ValidPendingActions
      /\ EmptyHandsAreCandidates /\ PenaltyShowsOnTop /\ OpeningIsClean
  BY DEF IInv, SnapshotRestores
<1>3. /\ s = currentSeat /\ IsWild(top) /\ pendingColor.card = top
      /\ drawnCard = NoCard /\ result = NoResult
      /\ candidates \in Seq(Seats) /\ pendingDraw \in Nat
  BY <1>1, <1>2 DEF ValidPendingActions, ValidLifecycle, TypeOK
<1>4. /\ NoRepeat(candidates)
      /\ \A t \in Seats : hand[t] = {} <=> In(candidates, t)
  BY <1>1, <1>2 DEF ValidShape, NoRepeat, EmptyHandsAreCandidates, In
<1>5. /\ NoChoice.opening = FALSE /\ NoChoice.seat = NoSeat /\ NoSeat \notin Seats
  BY DEF NoChoice, NoSeat, Seats
<1>6. ValidCards'
  BY <1>1, <1>2 DEF ValidCards
<1>7. CASE /\ pendingColor.opening
           /\ phase' = "playing"
           /\ UNCHANGED <<currentSeat, direction, pendingDraw, uno, candidates, result>>
  <2>1. candidates = <<>> /\ pendingDraw = 0
    BY <1>2, <1>7 DEF OpeningIsClean
  <2>2. TypeOK'
    BY <1>1, <1>2, <1>7 DEF TypeOK, Phases
  <2>3. ValidShape' /\ ValidResult' /\ ValidLifecycle'
    BY <1>1, <1>2, <1>3, <1>7, <2>1 DEF ValidShape, ValidResult, ValidLifecycle
  <2>4. ValidPendingActions'
    BY <1>1, <1>2, <1>7 DEF ValidPendingActions
  <2>5. (EmptyHandsAreCandidates /\ DrawnCardStaysPlayable /\ PenaltyShowsOnTop
           /\ OpeningIsClean)'
    BY <1>1, <1>4, <1>5, <1>7, <2>1
       DEF EmptyHandsAreCandidates, DrawnCardStaysPlayable, PenaltyShowsOnTop,
           OpeningIsClean, In
  <2> QED
    BY <1>6, <2>2, <2>3, <2>4, <2>5 DEF IInv, SnapshotRestores
<1>8. CASE ApplyCardEffect(s, pendingColor.card, candidates, uno)
  <2> DEFINE pending == pendingDraw + PenaltyOf(top)
             flips == KindOf[top] = "reverse" /\ N # 2
             skips == KindOf[top] = "skip" \/ (KindOf[top] = "reverse" /\ N = 2)
             next == StepFrom(s, IF skips THEN 2 ELSE 1, direction')
  <2>1. /\ direction' = IF flips THEN -direction ELSE direction
        /\ FinishIfResolved(candidates, pending, next, uno)
    BY <1>3, <1>8 DEF ApplyCardEffect
  <2>2. direction' \in {1, -1}
    BY <2>1, <1>2 DEF TypeOK
  <2>3. next \in Seats
    BY <2>2, StepFromSeat
  <2>4. pending \in Nat /\ (pending > 0 => IsPenalty(top))
    BY <1>2, <1>3 DEF PenaltyOf, PenaltyShowsOnTop
  <2>5. /\ uno \in [Seats -> {"none", "open", "lapsed"}]
        /\ \A t \in Seats : uno[t] # "none" => IsSingleton(hand'[t])
    BY <1>1, <1>2 DEF TypeOK, ValidPendingActions
  <2>6. /\ hand' \in [Seats -> SUBSET Card] /\ drawPile' \subseteq Card
        /\ discard' \subseteq Card /\ top' \in Card
    BY <1>1, <1>2 DEF TypeOK
  <2>7. \A t \in Seats : hand'[t] = {} <=> In(candidates, t)
    BY <1>1, <1>4
  <2> HIDE DEF pending, next
  <2> QED
    BY <1>1, <1>3, <1>4, <1>6, <2>1, <2>2, <2>3, <2>4, <2>5, <2>6, <2>7, SettleStep
<1> QED
  BY <1>7, <1>8 DEF ChooseColor

(* A penalty taken, by the seat it has come to.                            *)
LEMMA DrawPenaltyStep ==
    ASSUME IInv, NEW s \in Seats, DrawPenalty(s)
    PROVE  IInv'
<1>1. /\ phase = "playing" /\ s = currentSeat /\ pendingDraw > 0
      /\ direction' = direction /\ currentColor' = currentColor
      /\ drawnCard' = drawnCard /\ pendingColor' = pendingColor
  BY DEF DrawPenalty
<1>2. PICK D \in DrawnSets(drawPile, discard, pendingDraw) :
        /\ TakeCards(s, D)
        /\ FinishIfResolved(CandidatesAfterDraw(s, D), 0, StepFrom(s, 1, direction),
                            ChallengesAfterDraw(s, D))
  BY DEF DrawPenalty
<1>3. /\ TypeOK /\ ValidCards /\ Active /\ drawnCard = NoCard
      /\ ~IsWild(top) => currentColor = ColorOf[top]
  BY <1>1, ActiveFacts DEF IInv, SnapshotRestores, ValidLifecycle
<1>4. /\ hand' \in [Seats -> SUBSET Card]
      /\ hand'[s] = hand[s] \cup D
      /\ \A t \in Seats : t # s => hand'[t] = hand[t]
      /\ drawPile' \subseteq Card /\ discard' \subseteq Card /\ top' = top
      /\ ValidCards'
  BY <1>2, <1>3, TakeCardsFacts
<1> DEFINE q == CandidatesAfterDraw(s, D)
           challenges == ChallengesAfterDraw(s, D)
           next == StepFrom(s, 1, direction)
<1>5. /\ q \in Seq(Seats) /\ NoRepeat(q)
      /\ \A t : In(q, t) <=> In(candidates, t) /\ (t # s \/ D = {})
  BY <1>3, CandidatesAfterDrawFacts DEF Active
<1>6. \A t \in Seats : hand'[t] = {} => In(q, t)
  BY <1>3, <1>4, <1>5 DEF Active
<1>7. /\ challenges \in [Seats -> {"none", "open", "lapsed"}]
      /\ \A t \in Seats : challenges[t] # "none" => IsSingleton(hand'[t])
  BY <1>3, <1>4 DEF ChallengesAfterDraw, Active
<1>8. next \in Seats
  BY <1>3, StepFromSeat DEF Active
<1>9. /\ top' \in Card /\ direction' \in {1, -1} /\ currentColor' \in Colors
      /\ pendingColor' = NoChoice /\ drawnCard' = NoCard
      /\ ~IsWild(top') => currentColor' = ColorOf[top']
  BY <1>1, <1>3, <1>4 DEF TypeOK, Active
<1> DEFINE pending == 0
<1>10. FinishIfResolved(q, pending, next, challenges)
  BY <1>2
<1>11. pending \in Nat /\ ~(pending > 0) /\ phase # "finished"
  BY <1>1
<1> HIDE DEF q, challenges, next, pending
<1> QED
  BY <1>4, <1>5, <1>6, <1>7, <1>8, <1>9, <1>10, <1>11, SettleStep

(* One card drawn, kept for a decision or not.                             *)
LEMMA DrawOrdinaryStep ==
    ASSUME IInv, NEW s \in Seats, DrawOrdinary(s)
    PROVE  IInv'
<1>1. /\ phase = "playing" /\ s = currentSeat /\ pendingDraw = 0
      /\ UNCHANGED <<direction, currentColor, pendingDraw, pendingColor, candidates, result>>
  BY DEF DrawOrdinary
<1>2. PICK D \in DrawnSets(drawPile, discard, 1) :
        /\ TakeCards(s, D)
        /\ uno' = IF D = {} THEN uno ELSE [uno EXCEPT ![s] = "none"]
        /\ DecideOnDrawn(s, D)
  BY DEF DrawOrdinary
<1>3. /\ TypeOK /\ ValidCards /\ Active /\ drawnCard = NoCard /\ ValidLifecycle
  BY <1>1, ActiveFacts DEF IInv, SnapshotRestores, ValidLifecycle
<1>4. /\ hand' \in [Seats -> SUBSET Card]
      /\ hand'[s] = hand[s] \cup D
      /\ \A t \in Seats : t # s => hand'[t] = hand[t]
      /\ drawPile' \subseteq Card /\ discard' \subseteq Card /\ top' = top
      /\ D \subseteq Card
      /\ ValidCards'
  BY <1>2, <1>3, TakeCardsFacts
<1>5. candidates = <<>> /\ \A t \in Seats : hand[t] # {} /\ ~In(candidates, t)
  BY <1>1, <1>3 DEF Active, In, Indices
<1>6. /\ uno' \in [Seats -> {"none", "open", "lapsed"}]
      /\ \A t \in Seats : uno'[t] # "none" => IsSingleton(hand'[t])
  BY <1>2, <1>3, <1>4 DEF Active
<1>7. \A t \in Seats : hand'[t] # {}
  BY <1>4, <1>5
<1>8. NoCard \notin Card /\ StepFrom(s, 1, direction) \in Seats
  BY <1>3, StepFromSeat, DeckAssumption DEF Active
<1>9. \/ \E c \in D : /\ Playable(c) /\ phase' = "awaiting_draw_decision"
                     /\ drawnCard' = c /\ currentSeat' = currentSeat
      \/ /\ currentSeat' = StepFrom(s, 1, direction)
         /\ phase' = phase /\ drawnCard' = drawnCard
  BY <1>2 DEF DecideOnDrawn
<1>10. TypeOK'
  BY <1>1, <1>3, <1>4, <1>6, <1>8, <1>9 DEF TypeOK, Phases
<1>11. ValidShape' /\ ValidResult'
  BY <1>1, <1>3, <1>5 DEF ValidShape, ValidResult, Active
<1>12. ValidLifecycle'
  BY <1>1, <1>3, <1>4, <1>5, <1>8, <1>9 DEF ValidLifecycle, Active
<1>13. ValidPendingActions'
  BY <1>1, <1>3, <1>4, <1>6, <1>9 DEF ValidPendingActions, Active
<1>14. EmptyHandsAreCandidates'
  BY <1>1, <1>5, <1>7 DEF EmptyHandsAreCandidates, In, Indices
<1>15. DrawnCardStaysPlayable'
  BY <1>1, <1>4, <1>9 DEF DrawnCardStaysPlayable, Playable
<1>16. PenaltyShowsOnTop' /\ OpeningIsClean'
  BY <1>1, <1>3 DEF PenaltyShowsOnTop, OpeningIsClean, Active
<1> QED
  BY <1>4, <1>10, <1>11, <1>12, <1>13, <1>14, <1>15, <1>16 DEF IInv, SnapshotRestores

(* A drawn card that is kept.                                              *)
LEMMA PassStep ==
    ASSUME IInv, NEW s \in Seats, Pass(s)
    PROVE  IInv'
<1>1. /\ phase = "awaiting_draw_decision" /\ s = currentSeat
      /\ drawnCard' = NoCard /\ phase' = "playing"
      /\ currentSeat' = StepFrom(s, 1, direction)
      /\ hand' = hand /\ drawPile' = drawPile /\ discard' = discard /\ top' = top
      /\ UNCHANGED <<direction, currentColor, pendingDraw, pendingColor, uno, candidates,
                     result>>
  BY DEF Pass, piles
<1>2. /\ TypeOK /\ ValidCards /\ ValidShape /\ ValidLifecycle /\ ValidPendingActions
      /\ ValidResult /\ EmptyHandsAreCandidates /\ PenaltyShowsOnTop /\ OpeningIsClean
      /\ Active
  BY <1>1, ActiveFacts DEF IInv, SnapshotRestores
<1>3. StepFrom(s, 1, direction) \in Seats
  BY <1>2, StepFromSeat DEF Active
<1>4. TypeOK' /\ ValidCards' /\ ValidShape' /\ ValidResult'
  BY <1>1, <1>2, <1>3 DEF TypeOK, ValidCards, ValidShape, ValidResult, Phases
<1>5. ValidLifecycle' /\ ValidPendingActions'
  BY <1>1, <1>2, <1>3 DEF ValidLifecycle, ValidPendingActions, Active
<1>6. (EmptyHandsAreCandidates /\ DrawnCardStaysPlayable /\ PenaltyShowsOnTop
         /\ OpeningIsClean)'
  BY <1>1, <1>2 DEF EmptyHandsAreCandidates, DrawnCardStaysPlayable, PenaltyShowsOnTop,
                    OpeningIsClean, Indices
<1> QED
  BY <1>4, <1>5, <1>6 DEF IInv, SnapshotRestores

(* A catch only touches a hand of one card, so no candidate and no turn.   *)
LEMMA CatchUNOStep ==
    ASSUME IInv, NEW s \in Seats, NEW target \in Seats, CatchUNO(s, target)
    PROVE  IInv'
<1>1. /\ phase # "finished" /\ uno[target] = "open"
      /\ uno' = [uno EXCEPT ![target] = "none"]
      /\ UNCHANGED <<currentSeat, direction, currentColor, pendingDraw, phase, drawnCard,
                     pendingColor, result>>
  BY DEF CatchUNO, turn
<1>2. PICK D \in DrawnSets(drawPile, discard, 2) :
        TakeCards(target, D) /\ candidates' = CandidatesAfterDraw(target, D)
  BY DEF CatchUNO
<1>3. /\ TypeOK /\ ValidCards /\ ValidShape /\ ValidLifecycle /\ ValidPendingActions
      /\ ValidResult /\ EmptyHandsAreCandidates /\ DrawnCardStaysPlayable
      /\ PenaltyShowsOnTop /\ OpeningIsClean
  BY DEF IInv, SnapshotRestores
<1>4. /\ hand' \in [Seats -> SUBSET Card]
      /\ hand'[target] = hand[target] \cup D
      /\ \A t \in Seats : t # target => hand'[t] = hand[t]
      /\ drawPile' \subseteq Card /\ discard' \subseteq Card /\ top' = top
      /\ ValidCards'
  BY <1>2, <1>3, TakeCardsFacts
<1>5. IsSingleton(hand[target])
  BY <1>1, <1>3 DEF ValidPendingActions
<1>6. hand[target] # {} /\ Indices(candidates, target) = {}
  BY <1>1, <1>3, <1>5 DEF IsSingleton, EmptyHandsAreCandidates
<1>7. candidates' = candidates
  BY <1>2, <1>6 DEF CandidatesAfterDraw
<1>8. \A t \in Seats : hand'[t] = {} <=> hand[t] = {}
  BY <1>4, <1>6
<1>9. TypeOK'
  BY <1>1, <1>3, <1>4, <1>7 DEF TypeOK
<1>10. ValidShape'
  <2>1. \A i \in DOMAIN candidates : candidates[i] \in Seats
    BY <1>3 DEF TypeOK
  <2> QED
    BY <1>3, <1>7, <1>8, <2>1 DEF ValidShape
<1>11. ValidLifecycle' /\ ValidResult'
  BY <1>1, <1>3, <1>4, <1>7 DEF ValidLifecycle, ValidResult
<1>12. ValidPendingActions'
  BY <1>1, <1>3, <1>4 DEF ValidPendingActions, TypeOK, ValidLifecycle
<1>13. EmptyHandsAreCandidates'
  BY <1>1, <1>3, <1>7, <1>8 DEF EmptyHandsAreCandidates
<1>14. (DrawnCardStaysPlayable /\ PenaltyShowsOnTop /\ OpeningIsClean)'
  BY <1>1, <1>3, <1>4, <1>7
     DEF DrawnCardStaysPlayable, Playable, PenaltyShowsOnTop, OpeningIsClean
<1> QED
  BY <1>4, <1>9, <1>10, <1>11, <1>12, <1>13, <1>14 DEF IInv, SnapshotRestores

(* The commands and events that only touch the challenge records.          *)
LEMMA ChallengeStep ==
    ASSUME IInv, UNCHANGED <<piles, turn, candidates, result>>,
           uno' \in [Seats -> {"none", "open", "lapsed"}],
           \A t \in Seats : uno'[t] # "none" => uno[t] # "none"
    PROVE  IInv'
<1>1. UNCHANGED <<hand, drawPile, discard, top, currentSeat, direction, currentColor,
                  pendingDraw, phase, drawnCard, pendingColor, candidates, result>>
  BY DEF piles, turn
<1>2. TypeOK' /\ ValidShape' /\ ValidLifecycle'
  BY <1>1 DEF IInv, SnapshotRestores, TypeOK, ValidShape, ValidLifecycle
<1>3. ValidCards' /\ ValidPendingActions' /\ ValidResult'
  BY <1>1 DEF IInv, SnapshotRestores, ValidCards, ValidPendingActions, ValidResult
<1>4. (EmptyHandsAreCandidates /\ DrawnCardStaysPlayable /\ PenaltyShowsOnTop
         /\ OpeningIsClean)'
  BY <1>1 DEF IInv, EmptyHandsAreCandidates, DrawnCardStaysPlayable, PenaltyShowsOnTop,
              OpeningIsClean, Indices, Playable
<1> QED
  BY <1>2, <1>3, <1>4 DEF IInv, SnapshotRestores

(* Every deal and every opening card satisfy the invariant.                *)
LEMMA InitIInv ==
    ASSUME Init
    PROVE  IInv
<1> USE PlayersAssumption, DeckAssumption
<1>1. PICK dealt \in DealtHands, dealer \in Seats :
        LET rest  == Card \ UNION {dealt[s] : s \in Seats}
            first == StepFrom(dealer, 1, 1)
        IN  \E c \in {x \in rest : KindOf[x] # "wild_draw_four"} :
              /\ top = c /\ discard = {}
              /\ \E D \in IF KindOf[c] = "draw_two"
                          THEN DrawnSets(rest \ {c}, {}, 2) ELSE {{}} :
                    /\ hand = [dealt EXCEPT ![first] = @ \cup D]
                    /\ drawPile = (rest \ {c}) \ D
              /\ OpeningTurn(dealer, c)
              /\ pendingDraw = 0 /\ drawnCard = NoCard
              /\ uno = NoChallenges /\ candidates = <<>> /\ result = NoResult
  BY DEF Init
<1> DEFINE rest  == Card \ UNION {dealt[s] : s \in Seats}
           first == StepFrom(dealer, 1, 1)
<1>2. PICK c \in {x \in rest : KindOf[x] # "wild_draw_four"} :
        /\ top = c /\ discard = {}
        /\ \E D \in IF KindOf[c] = "draw_two"
                    THEN DrawnSets(rest \ {c}, {}, 2) ELSE {{}} :
              /\ hand = [dealt EXCEPT ![first] = @ \cup D]
              /\ drawPile = (rest \ {c}) \ D
        /\ OpeningTurn(dealer, c)
        /\ pendingDraw = 0 /\ drawnCard = NoCard
        /\ uno = NoChallenges /\ candidates = <<>> /\ result = NoResult
  BY <1>1
<1>3. PICK D \in IF KindOf[c] = "draw_two" THEN DrawnSets(rest \ {c}, {}, 2) ELSE {{}} :
        /\ hand = [dealt EXCEPT ![first] = @ \cup D]
        /\ drawPile = (rest \ {c}) \ D
  BY <1>2
<1>4. D \subseteq rest \ {c}
  BY DrawnSetsSound
<1>5. /\ dealt \in [Seats -> SUBSET Card]
      /\ \A s \in Seats : dealt[s] # {}
      /\ \A s, t \in Seats : s # t => dealt[s] \cap dealt[t] = {}
  <2>1. dealt \in [Seats -> kSubset(HandSize, Card)]
        /\ \A s, t \in Seats : s # t => dealt[s] \cap dealt[t] = {}
    BY DEF DealtHands
  <2>2. \A h \in kSubset(HandSize, Card) : h \subseteq Card /\ Cardinality(h) = HandSize
    BY DEF kSubset
  <2>3. \A h \in kSubset(HandSize, Card) : h # {}
    BY <2>2, FS_EmptySet
  <2> QED
    BY <2>1, <2>2, <2>3
<1>6. first \in Seats /\ StepFrom(dealer, 1, -1) \in Seats /\ StepFrom(first, 1, 1) \in Seats
  BY StepFromSeat
<1>7. /\ c \in Card /\ c # NoCard /\ c \in rest /\ KindOf[c] # "wild_draw_four"
      /\ \A s \in Seats : dealt[s] \cap rest = {}
      /\ Card = rest \cup UNION {dealt[s] : s \in Seats}
  BY <1>5
<1>8. hand \in [Seats -> SUBSET Card] /\ \A s \in Seats : hand[s] # {}
  BY <1>3, <1>4, <1>5, <1>6
<1>9. /\ direction \in {1, -1} /\ currentSeat \in Seats
      /\ currentColor = ColorOf[c]
      /\ IsWild(c) => /\ phase = "awaiting_color" /\ currentSeat = first
                      /\ pendingColor = [seat |-> first, card |-> c, opening |-> TRUE]
      /\ ~IsWild(c) => phase = "playing" /\ pendingColor = NoChoice
  BY <1>2, <1>6 DEF OpeningTurn, IsWild, Wilds
<1>10. /\ IsWild(c) => currentColor = NoColor /\ KindOf[c] = "wild"
       /\ ~IsWild(c) => currentColor \in Colors
  BY <1>7, <1>9 DEF IsWild, Wilds
<1>11. uno \in [Seats -> {"none", "open", "lapsed"}] /\ \A s \in Seats : uno[s] = "none"
  BY <1>2 DEF NoChallenges
<1>12. NoResult.winner = NoSeat /\ NoChoice.seat = NoSeat /\ ~NoChoice.opening
       /\ NoSeat \notin Seats
  BY DEF NoResult, NoChoice, NoSeat, Seats
<1>13. DOMAIN candidates = {} /\ candidates \in Seq(Seats)
  BY <1>2
<1> HIDE DEF rest, first
<1>21. drawPile \subseteq Card /\ discard \subseteq Card /\ top \in Card
  BY <1>2, <1>3, <1>7
<1>22. \/ pendingColor = NoChoice
       \/ pendingColor \in [seat : Seats, card : Card, opening : BOOLEAN]
  <2>1. first \in Seats /\ c \in Card
    BY <1>6, <1>7
  <2>2. [seat |-> first, card |-> c, opening |-> TRUE]
          \in [seat : Seats, card : Card, opening : BOOLEAN]
    BY <2>1
  <2> QED
    BY <1>9, <2>2
<1>23. phase \in Phases /\ currentColor \in Colors \cup {NoColor} /\ result.winner = NoSeat
  BY <1>2, <1>9, <1>10, <1>12 DEF Phases
<1>24. /\ pendingDraw = 0 /\ drawnCard = NoCard
       /\ direction \in {1, -1} /\ currentSeat \in Seats
  BY <1>2, <1>9
<1>14. TypeOK
  BY <1>8, <1>11, <1>13, <1>21, <1>22, <1>23, <1>24 DEF TypeOK
<1>15. ValidShape /\ ValidResult
  BY <1>2, <1>13 DEF ValidShape, ValidResult
<1>16. ValidLifecycle
  BY <1>2, <1>6, <1>9, <1>10, <1>12 DEF ValidLifecycle
<1>17. ValidCards
  <2>1. hand[first] = dealt[first] \cup D /\ \A s \in Seats : s # first => hand[s] = dealt[s]
    BY <1>3, <1>5, <1>6
  <2>2. UNION {hand[s] : s \in Seats} = (UNION {dealt[s] : s \in Seats}) \cup D
    BY <2>1, <1>6
  <2>3. Card = (UNION {hand[s] : s \in Seats}) \cup drawPile \cup discard \cup {top}
    BY <2>2, <1>2, <1>3, <1>4, <1>7
  <2>4. \A s, t \in Seats : s # t => hand[s] \cap hand[t] = {}
    BY <2>1, <1>4, <1>5, <1>7
  <2>5. \A s \in Seats : hand[s] \cap (drawPile \cup discard \cup {top}) = {}
    BY <2>1, <1>2, <1>3, <1>4, <1>7
  <2> QED
    BY <2>3, <2>4, <2>5, <1>2, <1>3 DEF ValidCards
<1>18. ValidPendingActions
  BY <1>2, <1>7, <1>9, <1>10, <1>11 DEF ValidPendingActions
<1>19. EmptyHandsAreCandidates
  BY <1>8, <1>13 DEF EmptyHandsAreCandidates, Indices
<1>20. DrawnCardStaysPlayable /\ PenaltyShowsOnTop /\ OpeningIsClean
  BY <1>2, <1>9 DEF DrawnCardStaysPlayable, PenaltyShowsOnTop, OpeningIsClean
<1> QED
  BY <1>14, <1>15, <1>16, <1>17, <1>18, <1>19, <1>20 DEF IInv, SnapshotRestores

(* Every step preserves the invariant.                                     *)
LEMMA NextIInv ==
    ASSUME IInv, [Next]_vars
    PROVE  IInv'
<1>1. uno \in [Seats -> {"none", "open", "lapsed"}]
  BY DEF IInv, TypeOK
<1>2. ASSUME NEW s \in Seats, PlayerAction(s)
      PROVE  IInv'
  <2>1. CASE \E c \in Card, sayUNO \in BOOLEAN : Play(s, c, sayUNO)
    BY <2>1, PlayStep
  <2>2. CASE \E color \in Colors : ChooseColor(s, color)
    BY <2>2, ChooseColorStep
  <2>3. CASE DrawPenalty(s)
    BY <2>3, DrawPenaltyStep
  <2>4. CASE DrawOrdinary(s)
    BY <2>4, DrawOrdinaryStep
  <2>5. CASE Pass(s)
    BY <2>5, PassStep
  <2>6. CASE CallUNO(s)
    BY <2>6, <1>1, ChallengeStep DEF CallUNO
  <2>7. CASE \E target \in Seats : CatchUNO(s, target)
    BY <2>7, CatchUNOStep
  <2> QED
    BY <1>2, <2>1, <2>2, <2>3, <2>4, <2>5, <2>6, <2>7 DEF PlayerAction
<1>3. ASSUME NEW s \in Seats, ChallengeLapses(s)
      PROVE  IInv'
  BY <1>1, <1>3, ChallengeStep DEF ChallengeLapses
<1>4. ASSUME NEW s \in Seats, RejectLateCall(s)
      PROVE  IInv'
  BY <1>1, <1>4, ChallengeStep DEF RejectLateCall
<1>5. CASE ExpireUNOChallenges
  BY <1>1, <1>5, ChallengeStep DEF ExpireUNOChallenges
<1>6. CASE UNCHANGED vars
  BY <1>1, <1>6, ChallengeStep DEF vars
<1> QED
  BY <1>2, <1>3, <1>4, <1>5, <1>6 DEF Next, RoundOver

(* The invariant holds in every reachable state.                           *)
LEMMA Inductive == Spec => []IInv
<1>1. Init => IInv
  BY InitIInv
<1>2. IInv /\ [Next]_vars => IInv'
  BY NextIInv
<1> QED
  BY <1>1, <1>2, PTL DEF Spec

(* Every variable of the engine stays in its type, for every deck, number  *)
(* of players and hand size.                                               *)
THEOREM TypeCorrect == Spec => []TypeOK
<1>1. IInv => TypeOK
  BY DEF IInv
<1> QED
  BY <1>1, Inductive, PTL

(* The validation of snapshot.go accepts every state the engine can reach: *)
(* a restart loses no round because its snapshot looks impossible.         *)
THEOREM ReachableStatesRestore == Spec => []SnapshotRestores
<1>1. IInv => SnapshotRestores
  BY DEF IInv
<1> QED
  BY <1>1, Inductive, PTL

(* While a round is on, its candidates are exactly the seats without cards.*)
THEOREM NoWinnerForgotten == Spec => []EmptyHandsAreCandidates
<1>1. IInv => EmptyHandsAreCandidates
  BY DEF IInv
<1> QED
  BY <1>1, Inductive, PTL

(* The card a player drew and may play stays playable until it decides.    *)
THEOREM DrawDecisionIsReal == Spec => []DrawnCardStaysPlayable
<1>1. IInv => DrawnCardStaysPlayable
  BY DEF IInv
<1> QED
  BY <1>1, Inductive, PTL

(* The card that raised a pending penalty stays on top until it is taken.  *)
THEOREM PenaltyStaysOnTop == Spec => []PenaltyShowsOnTop
<1>1. IInv => PenaltyShowsOnTop
  BY DEF IInv
<1> QED
  BY <1>1, Inductive, PTL

-----------------------------------------------------------------------------
(* What a step does to the penalty.                                        *)

(* Settling a penalty leaves it as it is, or there was none.               *)
LEMMA SettledPending ==
    ASSUME NEW q, NEW pending, NEW nextSeat, NEW challenges,
           FinishIfResolved(q, pending, nextSeat, challenges)
    PROVE  pendingDraw' = pending
BY DEF FinishIfResolved, FinishRound

(* A draw of n cards gives all of them, or every card there is.            *)
LEMMA DrawnSetsCardinality ==
    ASSUME NEW pile, NEW under, IsFiniteSet(pile), IsFiniteSet(under), pile \cap under = {},
           NEW n \in Nat, NEW D \in DrawnSets(pile, under, n)
    PROVE  Cardinality(D) = Smaller(n, Cardinality(pile) + Cardinality(under))
<1>1. Cardinality(pile) \in Nat /\ Cardinality(under) \in Nat
  BY FS_CardinalityType
<1>2. CASE n <= Cardinality(pile)
  BY <1>1, <1>2 DEF DrawnSets, kSubset, Smaller
<1>3. CASE ~(n <= Cardinality(pile))
  <2>1. PICK more \in kSubset(Smaller(n - Cardinality(pile), Cardinality(under)), under) :
          D = pile \cup more
    BY <1>3 DEF DrawnSets
  <2>2. /\ more \subseteq under
        /\ Cardinality(more) = Smaller(n - Cardinality(pile), Cardinality(under))
    BY <2>1 DEF kSubset
  <2>3. IsFiniteSet(more) /\ pile \cap more = {}
    BY <2>2, FS_Subset
  <2>4. Cardinality(D) = Cardinality(pile) + Cardinality(more)
    <3>1. Cardinality(pile \cup more) = Cardinality(pile) + Cardinality(more)
                                          - Cardinality(pile \cap more)
      BY <2>3, FS_Union
    <3>2. Cardinality(pile \cap more) = 0 /\ Cardinality(more) \in Nat
      BY <2>3, FS_EmptySet, FS_CardinalityType
    <3> QED
      BY <1>1, <2>1, <3>1, <3>2
  <2> QED
    BY <1>1, <1>3, <2>2, <2>4 DEF Smaller
<1> QED
  BY <1>2, <1>3

(* A penalty that goes down is taken whole by the seat in turn.            *)
LEMMA PenaltyStep ==
    ASSUME IInv, [Next]_vars, pendingDraw' < pendingDraw
    PROVE  Cardinality(hand'[currentSeat] \ hand[currentSeat])
             = Smaller(pendingDraw, Cardinality(drawPile) + Cardinality(discard))
<1>1. pendingDraw \in Nat
  BY DEF IInv, TypeOK
<1>2. \A c : PenaltyOf(c) \in Nat
  BY DEF PenaltyOf
<1>3. pendingDraw' # pendingDraw
  BY <1>1
<1>4. PICK s \in Seats : PlayerAction(s)
  BY <1>3 DEF Next, RoundOver, ChallengeLapses, RejectLateCall, ExpireUNOChallenges, turn, vars
<1>5. ~\E c \in Card, sayUNO \in BOOLEAN : Play(s, c, sayUNO)
  <2> SUFFICES ASSUME NEW c \in Card, NEW sayUNO \in BOOLEAN, Play(s, c, sayUNO)
               PROVE  FALSE
    OBVIOUS
  <2>1. \/ pendingDraw' = pendingDraw
        \/ \E q, challenges : ApplyCardEffect(s, c, q, challenges)
    BY DEF Play
  <2>2. pendingDraw' = pendingDraw + PenaltyOf(c)
    BY <1>3, <2>1, SettledPending DEF ApplyCardEffect
  <2> QED
    BY <1>1, <1>2, <2>2
<1>6. ~\E color \in Colors : ChooseColor(s, color)
  <2> SUFFICES ASSUME NEW color \in Colors, ChooseColor(s, color)
               PROVE  FALSE
    OBVIOUS
  <2>1. \/ pendingDraw' = pendingDraw
        \/ ApplyCardEffect(s, pendingColor.card, candidates, uno)
    BY DEF ChooseColor
  <2>2. pendingDraw' = pendingDraw + PenaltyOf(pendingColor.card)
    BY <1>3, <2>1, SettledPending DEF ApplyCardEffect
  <2> QED
    BY <1>1, <1>2, <2>2
<1>7. DrawPenalty(s)
  BY <1>3, <1>4, <1>5, <1>6
     DEF PlayerAction, DrawOrdinary, Pass, CallUNO, CatchUNO, turn
<1>8. PICK D \in DrawnSets(drawPile, discard, pendingDraw) : TakeCards(s, D)
  BY <1>7 DEF DrawPenalty
<1>9. s = currentSeat /\ TypeOK /\ ValidCards
  BY <1>7 DEF DrawPenalty, IInv, SnapshotRestores
<1>10. hand'[s] = hand[s] \cup D /\ D \subseteq drawPile \cup discard
  BY <1>8, <1>9, TakeCardsFacts, DrawnSetsSound
<1>11. hand'[s] \ hand[s] = D
  BY <1>9, <1>10 DEF ValidCards
<1>12. IsFiniteSet(drawPile) /\ IsFiniteSet(discard) /\ drawPile \cap discard = {}
  BY <1>9, FS_Subset, DeckAssumption DEF TypeOK, ValidCards
<1> QED
  BY <1>1, <1>8, <1>9, <1>11, <1>12, DrawnSetsCardinality

(* A stacked penalty goes down only when the seat in turn takes all of it, *)
(* or every card there is to take.                                         *)
THEOREM PenaltiesArePaid == Spec => PenaltyIsPaid
<1>1. IInv /\ [Next]_vars =>
        [pendingDraw' < pendingDraw =>
          Cardinality(hand'[currentSeat] \ hand[currentSeat])
             = Smaller(pendingDraw, Cardinality(drawPile) + Cardinality(discard))]_vars
  BY PenaltyStep
<1> QED
  BY <1>1, Inductive, PTL DEF Spec, PenaltyIsPaid

-----------------------------------------------------------------------------
(* The order in which the seats emptied their hands.                       *)

\* Seat s is a candidate of q, and t is none or one behind it.
Ahead(q, s, t) ==
    \E i \in DOMAIN q : q[i] = s /\ \A j \in DOMAIN q : q[j] = t => i < j

RankIn(q, s) == IF Indices(q, s) = {} THEN Len(q) + 1
                ELSE CHOOSE i \in Indices(q, s) : TRUE

(* The rank of a candidate is its place, everybody else's is behind them.  *)
LEMMA RankIsAhead ==
    ASSUME NEW q \in Seq(Seats), NoRepeat(q), NEW s, NEW t
    PROVE  RankIn(q, s) < RankIn(q, t) <=> Ahead(q, s, t)
<1>1. DOMAIN q = 1 .. Len(q) /\ Len(q) \in Nat
  OBVIOUS
<1>2. ASSUME NEW x, Indices(q, x) # {}
      PROVE  /\ RankIn(q, x) \in DOMAIN q /\ q[RankIn(q, x)] = x
             /\ \A i \in DOMAIN q : q[i] = x => RankIn(q, x) = i
  BY <1>2 DEF RankIn, Indices, NoRepeat
<1>3. ASSUME NEW x, Indices(q, x) = {}
      PROVE  RankIn(q, x) = Len(q) + 1 /\ \A i \in DOMAIN q : q[i] # x
  BY <1>3 DEF RankIn, Indices
<1>4. CASE Indices(q, s) = {}
  <2>1. ~Ahead(q, s, t) /\ RankIn(q, s) = Len(q) + 1
    BY <1>3, <1>4 DEF Ahead
  <2>2. RankIn(q, t) \in 1 .. Len(q) + 1
    BY <1>1, <1>2, <1>3
  <2>3. ~(RankIn(q, s) < RankIn(q, t))
    BY <1>1, <2>1, <2>2
  <2> QED
    BY <2>1, <2>3
<1>5. CASE Indices(q, s) # {}
  <2>1. RankIn(q, s) \in DOMAIN q /\ q[RankIn(q, s)] = s
    BY <1>2, <1>5
  <2>2. Ahead(q, s, t) <=> \A j \in DOMAIN q : q[j] = t => RankIn(q, s) < j
    BY <1>2, <1>5, <2>1 DEF Ahead
  <2>3. CASE Indices(q, t) = {}
    <3>1. RankIn(q, s) < RankIn(q, t)
      BY <1>1, <1>3, <2>1, <2>3
    <3> QED
      BY <1>3, <2>2, <2>3, <3>1
  <2>4. CASE Indices(q, t) # {}
    BY <1>2, <2>2, <2>4
  <2> QED
    BY <2>3, <2>4
<1> QED
  BY <1>4, <1>5

(* A seat that empties its hand queues up behind the others.               *)
LEMMA AheadOfNext ==
    ASSUME candidates \in Seq(Seats), NEW u, NEW q, q \in {candidates, AddCandidate(u)},
           NEW s, NEW t, Ahead(candidates, s, t)
    PROVE  Ahead(q, s, t)
<1>1. CASE q = candidates
  BY <1>1
<1>2. CASE q = Append(candidates, u)
  <2>1. PICK i \in DOMAIN candidates :
          candidates[i] = s /\ \A j \in DOMAIN candidates : candidates[j] = t => i < j
    BY DEF Ahead
  <2>2. /\ DOMAIN q = 1 .. Len(candidates) + 1 /\ Len(candidates) \in Nat
        /\ DOMAIN candidates = 1 .. Len(candidates)
        /\ \A j \in 1 .. Len(candidates) : q[j] = candidates[j]
    BY <1>2
  <2>3. i \in DOMAIN q /\ q[i] = s
    BY <2>1, <2>2
  <2>4. \A j \in DOMAIN q : q[j] = t => i < j
    BY <2>1, <2>2
  <2> QED
    BY <2>3, <2>4 DEF Ahead
<1> QED
  BY <1>1, <1>2 DEF AddCandidate

(* A seat that takes cards leaves the queue; the others keep their order.  *)
LEMMA AheadAfterDraw ==
    ASSUME candidates \in Seq(Seats), NEW u \in Seats, NEW D,
           NEW s, NEW t, Ahead(candidates, s, t), s # u \/ D = {}
    PROVE  Ahead(CandidatesAfterDraw(u, D), s, t)
<1> DEFINE q == CandidatesAfterDraw(u, D)
<1>1. CASE q = candidates
  BY <1>1
<1>2. CASE q # candidates
  <2>1. PICK k \in DOMAIN candidates : candidates[k] = u /\ q = RemoveAt(candidates, k)
    BY <1>2 DEF CandidatesAfterDraw, Indices
  <2>2. /\ q \in Seq(Seats) /\ Len(q) = Len(candidates) - 1
        /\ \A j \in 1 .. Len(candidates) - 1 :
              q[j] = IF j < k THEN candidates[j] ELSE candidates[j + 1]
    BY <2>1, RemoveAtFacts, Zenon
  <2>3. /\ DOMAIN candidates = 1 .. Len(candidates) /\ Len(candidates) \in Nat
        /\ DOMAIN q = 1 .. Len(candidates) - 1
    BY <2>2
  <2>4. D # {}
    BY <1>2 DEF CandidatesAfterDraw
  <2> HIDE DEF q
  <2>5. PICK i \in DOMAIN candidates :
          candidates[i] = s /\ \A j \in DOMAIN candidates : candidates[j] = t => i < j
    BY DEF Ahead
  <2>6. i # k
    BY <2>1, <2>4, <2>5
  <2> DEFINE n == IF i < k THEN i ELSE i - 1
  <2>7. n \in DOMAIN q /\ q[n] = s
    BY <2>2, <2>3, <2>5, <2>6
  <2>8. ASSUME NEW j \in DOMAIN q, q[j] = t
        PROVE  n < j
    <3> DEFINE from == IF j < k THEN j ELSE j + 1
    <3>1. from \in DOMAIN candidates /\ candidates[from] = t
      BY <2>2, <2>3, <2>8
    <3>2. i < from
      BY <2>5, <3>1
    <3> QED
      BY <2>3, <2>6, <3>2
  <2> HIDE DEF n
  <2> QED
    BY <2>7, <2>8 DEF Ahead, q
<1> QED
  BY <1>1, <1>2

(* Settling never lets a seat win before another that is ahead of it.      *)
LEMMA AheadWins ==
    ASSUME NEW q \in Seq(Seats), NEW pending \in Nat, NEW nextSeat, NEW challenges,
           FinishIfResolved(q, pending, nextSeat, challenges),
           NEW s, NEW t, hand'[s] = {}, Ahead(q, s, t)
    PROVE  IF phase' = "finished" THEN result'.winner # t ELSE Ahead(candidates', s, t)
<1>1. PICK i \in DOMAIN q : q[i] = s /\ \A j \in DOMAIN q : q[j] = t => i < j
  BY DEF Ahead
<1>2. i \in StillEmpty(q)
  BY <1>1 DEF StillEmpty
<1>3. CASE \E k \in StillEmpty(q) : /\ \A j \in StillEmpty(q) : k <= j
                                    /\ FinishRound(q[k])
  <2>1. PICK k \in StillEmpty(q) : /\ \A j \in StillEmpty(q) : k <= j
                                   /\ FinishRound(q[k])
    BY <1>3
  <2>2. k <= i /\ k \in DOMAIN q /\ i \in Int /\ k \in Int
    BY <1>1, <1>2, <2>1 DEF StillEmpty
  <2>3. q[k] # t
    BY <1>1, <2>2
  <2>4. phase' = "finished" /\ result'.winner = q[k]
    BY <2>1 DEF FinishRound
  <2> QED
    BY <2>3, <2>4
<1>4. CASE /\ pending = 0 => StillEmpty(q) = {}
           /\ candidates' = IF pending = 0 THEN <<>> ELSE q
           /\ phase' = "playing"
  <2>1. candidates' = q
    BY <1>2, <1>4
  <2> QED
    BY <1>4, <2>1
<1> QED
  BY <1>3, <1>4 DEF FinishIfResolved

(* No step lets a seat overtake one that emptied its hand before.          *)
LEMMA OrderStep ==
    ASSUME IInv, [Next]_vars, phase # "finished",
           NEW s \in Seats, NEW t \in Seats, hand'[s] = {}, hand'[t] = {},
           Ahead(candidates, s, t)
    PROVE  IF phase' = "finished" THEN result'.winner # t ELSE Ahead(candidates', s, t)
<1>1. /\ candidates \in Seq(Seats) /\ NoRepeat(candidates) /\ pendingDraw \in Nat
      /\ In(candidates, s) /\ hand[s] = {} /\ candidates # <<>>
  BY DEF IInv, TypeOK, SnapshotRestores, ValidShape, NoRepeat, Ahead, In, Indices,
         EmptyHandsAreCandidates
<1>2. \A c : PenaltyOf(c) \in Nat
  BY DEF PenaltyOf
<1>3. CASE candidates' = candidates /\ phase' # "finished"
  BY <1>3
<1>4. ASSUME NEW u \in Seats, NEW c \in Card, NEW sayUNO \in BOOLEAN, Play(u, c, sayUNO)
      PROVE  IF phase' = "finished" THEN result'.winner # t ELSE Ahead(candidates', s, t)
  <2> DEFINE left == hand[u] \ {c}
             q == IF left = {} THEN AddCandidate(u) ELSE candidates
             challenges ==
               [uno EXCEPT ![u] = IF IsSingleton(left) /\ ~sayUNO THEN "open" ELSE "none"]
  <2>1. Active /\ u = currentSeat /\ c \in hand[u]
    BY <1>4, ActiveFacts DEF Play
  <2>2. ~In(candidates, u)
    BY <2>1 DEF Active
  <2>3. q \in Seq(Seats) /\ q \in {candidates, AddCandidate(u)}
    BY <1>1, <2>2, EmptiedFacts
  <2>4. Ahead(q, s, t)
    BY <1>1, <2>3, AheadOfNext
  <2>5. \/ phase' = "awaiting_color" /\ candidates' = q
        \/ ApplyCardEffect(u, c, q, challenges)
    BY <1>4 DEF Play
  <2> HIDE DEF q, challenges
  <2>6. CASE phase' = "awaiting_color" /\ candidates' = q
    BY <2>4, <2>6
  <2>7. CASE ApplyCardEffect(u, c, q, challenges)
    <3>1. PICK nextSeat : FinishIfResolved(q, pendingDraw + PenaltyOf(c), nextSeat, challenges)
      BY <2>7 DEF ApplyCardEffect
    <3>2. pendingDraw + PenaltyOf(c) \in Nat
      BY <1>1, <1>2
    <3> QED
      BY <2>3, <2>4, <3>1, <3>2, AheadWins
  <2> QED
    BY <2>5, <2>6, <2>7
<1>5. ASSUME NEW u \in Seats, NEW color \in Colors, ChooseColor(u, color)
      PROVE  IF phase' = "finished" THEN result'.winner # t ELSE Ahead(candidates', s, t)
  <2>1. CASE candidates' = candidates /\ phase' = "playing"
    BY <2>1
  <2>2. CASE ApplyCardEffect(u, pendingColor.card, candidates, uno)
    <3>1. PICK nextSeat : FinishIfResolved(candidates, pendingDraw + PenaltyOf(pendingColor.card),
                                           nextSeat, uno)
      BY <2>2 DEF ApplyCardEffect
    <3>2. pendingDraw + PenaltyOf(pendingColor.card) \in Nat
      BY <1>1, <1>2
    <3> QED
      BY <1>1, <3>1, <3>2, AheadWins
  <2> QED
    BY <1>5, <2>1, <2>2 DEF ChooseColor
<1>6. ASSUME NEW u \in Seats, DrawPenalty(u)
      PROVE  IF phase' = "finished" THEN result'.winner # t ELSE Ahead(candidates', s, t)
  <2>1. PICK D \in DrawnSets(drawPile, discard, pendingDraw) :
          /\ TakeCards(u, D)
          /\ FinishIfResolved(CandidatesAfterDraw(u, D), 0, StepFrom(u, 1, direction),
                              ChallengesAfterDraw(u, D))
    BY <1>6 DEF DrawPenalty
  <2>2. hand'[u] = hand[u] \cup D
    BY <2>1, TakeCardsFacts DEF IInv, SnapshotRestores
  <2>3. s # u \/ D = {}
    BY <2>2
  <2>4. Ahead(CandidatesAfterDraw(u, D), s, t)
    BY <1>1, <2>3, AheadAfterDraw
  <2>5. CandidatesAfterDraw(u, D) \in Seq(Seats)
    BY <1>1, CandidatesAfterDrawFacts
  <2> DEFINE q == CandidatesAfterDraw(u, D)
             zero == 0
             nextSeat == StepFrom(u, 1, direction)
             challenges == ChallengesAfterDraw(u, D)
  <2>6. zero \in Nat /\ FinishIfResolved(q, zero, nextSeat, challenges)
    BY <2>1
  <2> HIDE DEF q, zero, nextSeat, challenges
  <2>7. q \in Seq(Seats) /\ Ahead(q, s, t)
    BY <2>4, <2>5 DEF q
  <2> QED
    BY <2>6, <2>7, AheadWins
<1>7. ASSUME NEW u \in Seats, NEW target \in Seats, CatchUNO(u, target)
      PROVE  candidates' = candidates /\ phase' # "finished"
  <2>1. phase' = phase /\ uno[target] = "open"
    BY <1>7 DEF CatchUNO, turn
  <2>2. IsSingleton(hand[target])
    BY <2>1 DEF IInv, SnapshotRestores, ValidPendingActions
  <2>3. Indices(candidates, target) = {}
    BY <2>2 DEF IInv, EmptyHandsAreCandidates, IsSingleton
  <2> QED
    BY <1>7, <2>1, <2>3 DEF CatchUNO, CandidatesAfterDraw
<1>8. ASSUME NEW u \in Seats, DrawOrdinary(u)
      PROVE  candidates' = candidates /\ phase' # "finished"
  BY <1>8 DEF DrawOrdinary, DecideOnDrawn
<1>9. ASSUME NEW u \in Seats, Pass(u) \/ CallUNO(u) \/ ChallengeLapses(u) \/ RejectLateCall(u)
      PROVE  candidates' = candidates /\ phase' # "finished"
  BY <1>9 DEF Pass, CallUNO, ChallengeLapses, RejectLateCall, turn
<1>10. CASE ExpireUNOChallenges \/ UNCHANGED vars
  <2>1. candidates' = candidates /\ phase' # "finished"
    BY <1>10 DEF ExpireUNOChallenges, turn, vars
  <2> QED
    BY <1>3, <2>1
<1>11. ASSUME NEW u \in Seats, PlayerAction(u)
       PROVE  IF phase' = "finished" THEN result'.winner # t ELSE Ahead(candidates', s, t)
  BY <1>3, <1>4, <1>5, <1>6, <1>7, <1>8, <1>9, <1>11 DEF PlayerAction
<1> QED
  BY <1>3, <1>9, <1>10, <1>11 DEF Next, RoundOver

(* The round goes to the seat that emptied its hand first, however long    *)
(* the chain of penalties after that.                                      *)
THEOREM FirstCandidateWins == Spec => FirstToEmptyWins
<1>1. ASSUME IInv, IInv', [Next]_vars, phase # "finished",
             NEW s \in Seats, NEW t \in Seats, hand'[s] = {}, hand'[t] = {},
             Rank(s) < Rank(t)
      PROVE  IF phase' = "finished" THEN result'.winner # t ELSE Rank(s)' < Rank(t)'
  <2>1. /\ candidates \in Seq(Seats) /\ NoRepeat(candidates)
        /\ candidates' \in Seq(Seats) /\ NoRepeat(candidates')
    BY <1>1 DEF IInv, TypeOK, SnapshotRestores, ValidShape, NoRepeat
  <2>2. Ahead(candidates, s, t)
    BY <1>1, <2>1, RankIsAhead DEF Rank, RankIn
  <2>3. Ahead(candidates', s, t) => Rank(s)' < Rank(t)'
    BY <2>1, RankIsAhead DEF Rank, RankIn
  <2> QED
    BY <1>1, <2>2, <2>3, OrderStep
<1>2. IInv /\ IInv' /\ [Next]_vars =>
        [phase # "finished" =>
          \A s, t \in Seats :
             hand'[s] = {} /\ hand'[t] = {} /\ Rank(s) < Rank(t) =>
                IF phase' = "finished" THEN result'.winner # t
                ELSE Rank(s)' < Rank(t)']_vars
  BY <1>1
<1> QED
  BY <1>2, Inductive, PTL DEF Spec, FirstToEmptyWins

-----------------------------------------------------------------------------
(* The engine implements CardCustody.                                      *)

\* Where each card of the given piles is, in the numbers of CardCustody.
OwnerIn(h, pile, under, t) ==
    [c \in Card |->
        IF c = t THEN -3
        ELSE IF c \in pile THEN -1
        ELSE IF c \in under THEN -2
        ELSE CHOOSE s \in Seats : c \in h[s]]

(* The five places of a card exclude each other, and are all there are.    *)
LEMMA OwnerFacts ==
    ASSUME NEW h, NEW pile, NEW under, NEW t,
           Card = (UNION {h[s] : s \in Seats}) \cup pile \cup under \cup {t},
           \A s, u \in Seats : s # u => h[s] \cap h[u] = {},
           \A s \in Seats : h[s] \cap (pile \cup under \cup {t}) = {},
           pile \cap under = {}, t \notin pile \cup under,
           NEW c \in Card
    PROVE  LET o == OwnerIn(h, pile, under, t)[c]
           IN  /\ o = -3 <=> c = t
               /\ o = -1 <=> c \in pile
               /\ o = -2 <=> c \in under
               /\ \A s \in Seats : o = s <=> c \in h[s]
               /\ o \in Seats \cup {-1, -2, -3}
<1> DEFINE o == OwnerIn(h, pile, under, t)[c]
<1>1. o = IF c = t THEN -3 ELSE IF c \in pile THEN -1 ELSE IF c \in under THEN -2
          ELSE CHOOSE s \in Seats : c \in h[s]
  BY DEF OwnerIn
<1>2. \A s \in Seats : s \in Int /\ s # -1 /\ s # -2 /\ s # -3
  BY PlayersAssumption DEF Seats
<1>3. /\ c = t => c \notin pile /\ c \notin under
      /\ c \in pile => c \notin under
      /\ \A s \in Seats : c \in h[s] => c # t /\ c \notin pile /\ c \notin under
  OBVIOUS
<1>4. CASE c = t
  <2>1. o = -3
    BY <1>1, <1>4
  <2> QED
    BY <1>2, <1>3, <1>4, <2>1
<1>5. CASE c # t /\ c \in pile
  <2>1. o = -1
    BY <1>1, <1>5
  <2> QED
    BY <1>2, <1>3, <1>5, <2>1
<1>6. CASE c # t /\ c \notin pile /\ c \in under
  <2>1. o = -2
    BY <1>1, <1>6
  <2> QED
    BY <1>2, <1>3, <1>6, <2>1
<1>7. CASE c # t /\ c \notin pile /\ c \notin under
  <2>1. o = CHOOSE s \in Seats : c \in h[s]
    BY <1>1, <1>7
  <2>2. \E s \in Seats : c \in h[s]
    BY <1>7
  <2> HIDE DEF o
  <2>3. o \in Seats /\ c \in h[o]
    BY <2>1, <2>2
  <2>4. \A s \in Seats : c \in h[s] => s = o
    BY <2>3
  <2>5. o # -1 /\ o # -2 /\ o # -3
    BY <1>2, <2>3
  <2>6. \A s \in Seats : o = s <=> c \in h[s]
    BY <2>3, <2>4
  <2> QED
    BY <1>7, <2>3, <2>5, <2>6 DEF o
<1> QED
  BY <1>4, <1>5, <1>6, <1>7

(* The same of the engine's piles, before and after a step.                *)
LEMMA OwnerBefore ==
    ASSUME ValidCards, NEW c \in Card
    PROVE  /\ Owner[c] = -3 <=> c = top
           /\ Owner[c] = -1 <=> c \in drawPile
           /\ Owner[c] = -2 <=> c \in discard
           /\ \A s \in Seats : Owner[c] = s <=> c \in hand[s]
           /\ Owner[c] \in Seats \cup {-1, -2, -3}
<1>1. Owner = OwnerIn(hand, drawPile, discard, top)
  BY DEF Owner, OwnerIn
<1> QED
  BY <1>1, OwnerFacts DEF ValidCards

(* The same after a step.                                                  *)
LEMMA OwnerAfter ==
    ASSUME ValidCards', NEW c \in Card
    PROVE  /\ Owner'[c] = -3 <=> c = top'
           /\ Owner'[c] = -1 <=> c \in drawPile'
           /\ Owner'[c] = -2 <=> c \in discard'
           /\ \A s \in Seats : Owner'[c] = s <=> c \in hand'[s]
           /\ Owner'[c] \in Seats \cup {-1, -2, -3}
<1>1. Owner' = OwnerIn(hand', drawPile', discard', top')
  BY DEF Owner, OwnerIn
<1> QED
  BY <1>1, OwnerFacts DEF ValidCards

(* Cards dealt from the piles are the cards that CardCustody takes.        *)
LEMMA CustodyTakes ==
    ASSUME TypeOK, ValidCards, NEW s \in Seats, NEW n,
           NEW D \in DrawnSets(drawPile, discard, n), TakeCards(s, D)
    PROVE  /\ D \in SUBSET (Custody!Held(Custody!InDraw) \cup Custody!Held(Custody!InDiscard))
           /\ Custody!TakeCards(s, D)
<1>1. D \subseteq drawPile \cup discard /\ (D \subseteq drawPile \/ drawPile \subseteq D)
  BY DrawnSetsSound
<1>2. /\ hand'[s] = hand[s] \cup D /\ \A t \in Seats : t # s => hand'[t] = hand[t]
      /\ top' = top /\ D \subseteq Card /\ ValidCards'
  BY TakeCardsFacts
<1>3. Custody!Held(Custody!InDraw) = drawPile /\ Custody!Held(Custody!InDiscard) = discard
  BY OwnerBefore DEF Custody!Held, Custody!InDraw, Custody!InDiscard, TypeOK
<1> DEFINE recycles == ~(D \subseteq drawPile)
           owner(d) == IF d \in D THEN s
                       ELSE IF recycles /\ Owner[d] = -2 THEN -1 ELSE Owner[d]
<1>4. /\ ~recycles => drawPile' = drawPile \ D /\ discard' = discard
      /\ recycles => drawPile' = discard \ D /\ discard' = {}
  BY DEF TakeCards
<1>5. ASSUME NEW d \in Card
      PROVE  Owner'[d] = owner(d)
  <2>1. CASE d \in D
    BY <1>2, <2>1, OwnerAfter
  <2>2. CASE d \notin D /\ d \in discard
    <3>1. d \notin drawPile /\ Owner[d] = -2
      BY <2>2, OwnerBefore DEF ValidCards
    <3>2. CASE recycles
      BY <1>2, <1>4, <2>2, <3>1, <3>2, OwnerAfter
    <3>3. CASE ~recycles
      BY <1>2, <1>4, <2>2, <3>1, <3>3, OwnerAfter
    <3> QED
      BY <3>2, <3>3
  <2>3. CASE d \notin D /\ d \notin discard
    <3>1. Owner[d] # -2 /\ owner(d) = Owner[d]
      BY <2>3, OwnerBefore
    <3>2. CASE d \in drawPile
      <4>1. ~recycles
        BY <1>1, <2>3, <3>2
      <4>2. Owner[d] = -1 /\ Owner'[d] = -1
        BY <1>2, <1>4, <2>3, <3>2, <4>1, OwnerBefore, OwnerAfter
      <4> QED
        BY <3>1, <4>2
    <3>3. CASE d = top
      BY <1>2, <3>1, <3>3, OwnerBefore, OwnerAfter
    <3>4. CASE d \notin drawPile /\ d # top
      <4>1. PICK t \in Seats : d \in hand[t]
        BY <2>3, <3>4 DEF ValidCards
      <4>2. d \in hand'[t]
        BY <1>2, <4>1
      <4>3. Owner[d] = t /\ Owner'[d] = t
        BY <1>2, <4>1, <4>2, OwnerBefore, OwnerAfter
      <4> QED
        BY <3>1, <4>3
    <3> QED
      BY <3>2, <3>3, <3>4
  <2> QED
    BY <2>1, <2>2, <2>3
<1>6. Owner' = [d \in Card |-> owner(d)]
  <2>1. Owner' = [d \in Card |-> Owner'[d]]
    BY DEF Owner
  <2> HIDE DEF owner
  <2> QED
    BY <1>5, <2>1
<1> QED
  BY <1>1, <1>3, <1>6 DEF Custody!TakeCards, Custody!InDraw, Custody!InDiscard

(* A card played is the card that CardCustody plays.                       *)
LEMMA CustodyPlays ==
    ASSUME TypeOK, ValidCards, NEW s \in Seats, NEW c \in Card, NEW sayUNO \in BOOLEAN,
           Play(s, c, sayUNO)
    PROVE  Custody!PlayCard(s, c)
<1>1. /\ c \in hand[s] /\ hand' = [hand EXCEPT ![s] = hand[s] \ {c}]
      /\ discard' = discard \cup {top} /\ top' = c /\ drawPile' = drawPile
  BY DEF Play
<1>2. /\ hand'[s] = hand[s] \ {c} /\ \A t \in Seats : t # s => hand'[t] = hand[t]
      /\ ValidCards'
  BY <1>1, PlayedCardFacts
<1> DEFINE owner(d) == IF d = c THEN -3 ELSE IF Owner[d] = -3 THEN -2 ELSE Owner[d]
<1>3. ASSUME NEW d \in Card
      PROVE  Owner'[d] = owner(d)
  <2>1. CASE d = c
    BY <1>1, <1>2, <2>1, OwnerAfter
  <2>2. CASE d # c /\ d = top
    <3>1. Owner[d] = -3 /\ Owner'[d] = -2
      BY <1>1, <1>2, <2>2, OwnerBefore, OwnerAfter
    <3> QED
      BY <2>2, <3>1
  <2>3. CASE d # c /\ d # top
    <3>1. owner(d) = Owner[d]
      BY <2>3, OwnerBefore
    <3>2. CASE d \in drawPile
      BY <1>1, <1>2, <3>1, <3>2, OwnerBefore, OwnerAfter
    <3>3. CASE d \in discard
      BY <1>1, <1>2, <3>1, <3>3, OwnerBefore, OwnerAfter
    <3>4. CASE d \notin drawPile \cup discard
      <4>1. PICK t \in Seats : d \in hand[t]
        BY <2>3, <3>4 DEF ValidCards
      <4>2. d \in hand'[t]
        BY <1>2, <2>3, <4>1
      <4>3. Owner[d] = t /\ Owner'[d] = t
        BY <1>2, <4>1, <4>2, OwnerBefore, OwnerAfter
      <4> QED
        BY <3>1, <4>3
    <3> QED
      BY <3>2, <3>3, <3>4
  <2> QED
    BY <2>1, <2>2, <2>3
<1>4. Owner' = [d \in Card |-> owner(d)]
  <2>1. Owner' = [d \in Card |-> Owner'[d]]
    BY DEF Owner
  <2> HIDE DEF owner
  <2> QED
    BY <1>3, <2>1
<1>5. Owner[c] = s
  BY <1>1, OwnerBefore
<1> QED
  BY <1>4, <1>5 DEF Custody!PlayCard, Custody!OnTop, Custody!InDiscard

(* A round that is over has a winner, who holds no card.                   *)
LEMMA CustodyEnds ==
    ASSUME IInv', phase' = "finished"
    PROVE  \E s \in Seats : Custody!Held(s)' = {}
<1>1. candidates' \in Seq(Seats) /\ candidates' # <<>> /\ ValidShape' /\ ValidCards'
  BY DEF IInv, TypeOK, SnapshotRestores, ValidLifecycle
<1>2. 1 \in DOMAIN candidates'
  BY <1>1
<1>3. candidates'[1] \in Seats /\ hand'[candidates'[1]] = {}
  BY <1>1, <1>2 DEF ValidShape
<1>4. \A c \in Card : Owner'[c] # candidates'[1]
  BY <1>1, <1>3, OwnerAfter
<1> QED
  BY <1>3, <1>4 DEF Custody!Held

(* A round is dealt as CardCustody starts.                                 *)
LEMMA CustodyInit ==
    ASSUME Init, IInv
    PROVE  Custody!Init
<1>1. discard = {} /\ phase # "finished"
  BY DEF Init, OpeningTurn
<1>2. ValidCards /\ top \in Card
  BY DEF IInv, TypeOK, SnapshotRestores
<1>3. ASSUME NEW c \in Card
      PROVE  Owner[c] \in Seats \cup {-1, -3} /\ (Owner[c] = -3 <=> c = top)
  BY <1>1, <1>2, OwnerBefore
<1>4. Owner \in [Card -> Seats \cup {-1, -3}]
  BY <1>3 DEF Owner
<1>5. Custody!Held(Custody!OnTop) = {top}
  BY <1>2, <1>3 DEF Custody!Held, Custody!OnTop
<1> QED
  BY <1>1, <1>2, <1>4, <1>5 DEF Custody!Init, Custody!InDraw, Custody!OnTop

(* Every command moves cards as CardCustody does, or moves none.           *)
LEMMA CustodyStep ==
    ASSUME IInv, IInv', [Next]_vars
    PROVE  [Custody!Next]_<<Owner, phase = "finished">>
<1>1. TypeOK /\ ValidCards
  BY DEF IInv, SnapshotRestores
<1>2. (phase = "finished")' => \E s \in Seats : Custody!Held(s)' = {}
  BY CustodyEnds
<1>3. ASSUME phase # "finished", NEW s \in Seats, NEW c \in Card, Custody!PlayCard(s, c)
      PROVE  Custody!Next
  BY <1>2, <1>3 DEF Custody!Next
<1>4. ASSUME phase # "finished", NEW s \in Seats,
             NEW D \in SUBSET (Custody!Held(Custody!InDraw) \cup Custody!Held(Custody!InDiscard)),
             Custody!TakeCards(s, D)
      PROVE  Custody!Next
  BY <1>2, <1>4 DEF Custody!Next
<1>5. ASSUME UNCHANGED piles
      PROVE  Owner' = Owner
  <2>1. /\ Owner = OwnerIn(hand, drawPile, discard, top)
        /\ Owner' = OwnerIn(hand', drawPile', discard', top')
    BY DEF Owner, OwnerIn
  <2>2. hand' = hand /\ drawPile' = drawPile /\ discard' = discard /\ top' = top
    BY <1>5 DEF piles
  <2> QED
    BY <2>1, <2>2
<1>6. ASSUME NEW s \in Seats, NEW c \in Card, NEW sayUNO \in BOOLEAN, Play(s, c, sayUNO)
      PROVE  Custody!Next
  <2>1. phase # "finished"
    BY <1>6 DEF Play
  <2> QED
    BY <1>1, <1>3, <1>6, <2>1, CustodyPlays
<1>7. ASSUME NEW s \in Seats, NEW color \in Colors, ChooseColor(s, color)
      PROVE  Custody!Next
  <2>1. phase # "finished" /\ Owner' = Owner
    BY <1>5, <1>7 DEF ChooseColor
  <2>2. Owner = [d \in Card |-> Owner[d]]
    BY DEF Owner
  <2>3. Custody!TakeCards(s, {})
    BY <2>1, <2>2 DEF Custody!TakeCards
  <2> QED
    BY <1>4, <2>1, <2>3
<1>8. ASSUME NEW s \in Seats, DrawPenalty(s) \/ DrawOrdinary(s)
      PROVE  Custody!Next
  <2>1. phase # "finished"
    BY <1>8 DEF DrawPenalty, DrawOrdinary
  <2>2. PICK n \in {pendingDraw, 1} : \E D \in DrawnSets(drawPile, discard, n) : TakeCards(s, D)
    BY <1>8 DEF DrawPenalty, DrawOrdinary
  <2> QED
    BY <1>1, <1>4, <2>1, <2>2, CustodyTakes
<1>9. ASSUME NEW s \in Seats, NEW target \in Seats, CatchUNO(s, target)
      PROVE  Custody!Next
  <2>1. phase # "finished"
    BY <1>9 DEF CatchUNO
  <2>2. PICK D \in DrawnSets(drawPile, discard, 2) : TakeCards(target, D)
    BY <1>9 DEF CatchUNO
  <2> QED
    BY <1>1, <1>4, <2>1, <2>2, CustodyTakes
<1>10. ASSUME NEW s \in Seats, Pass(s) \/ CallUNO(s) \/ ChallengeLapses(s) \/ RejectLateCall(s)
       PROVE  Owner' = Owner /\ (phase = "finished")' = (phase = "finished")
  BY <1>5, <1>10 DEF Pass, CallUNO, ChallengeLapses, RejectLateCall, turn
<1>11. CASE ExpireUNOChallenges \/ UNCHANGED vars
  BY <1>5, <1>11 DEF ExpireUNOChallenges, turn, vars
<1>12. ASSUME NEW s \in Seats, PlayerAction(s)
       PROVE  [Custody!Next]_<<Owner, phase = "finished">>
  BY <1>6, <1>7, <1>8, <1>9, <1>10, <1>12 DEF PlayerAction
<1> QED
  BY <1>10, <1>11, <1>12 DEF Next, RoundOver

(* The engine keeps the promise about its cards that CardCustody states.   *)
THEOREM CardsAreInCustody == Spec => ImplementsCustody
<1>1. Init /\ IInv => Custody!Init
  BY CustodyInit
<1>2. IInv /\ IInv' /\ [Next]_vars => [Custody!Next]_<<Owner, phase = "finished">>
  BY CustodyStep
<1> QED
  BY <1>1, <1>2, Inductive, PTL DEF Spec, ImplementsCustody, Custody!Spec
=============================================================================
