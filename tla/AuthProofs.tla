----------------------------- MODULE AuthProofs -----------------------------
(***************************************************************************)
(* Proofs about Auth, and about the id generator it draws player ids from, *)
(* for every set of logins and requests, every width of the parts of an    *)
(* id, and every bound.                                                    *)
(***************************************************************************)
EXTENDS Auth, TLAPS

(* The largest id the generator may have handed out by now; while a caller *)
(* waits, the sequence of this millisecond is used up.                     *)
LastId == Id(lastMillis, IF waiting THEN MaxSequence ELSE sequence)

(* The inductive invariant of the generator: as long as no wait was cut    *)
(* short, the ids grow and none is past the last one.                      *)
Ids ==
    /\ TypeOK
    /\ lastMillis = -1 => issued = <<>> /\ sequence = 0 /\ ~waiting
    /\ waiting => sequence = 0
    /\ ~cutShort => Increasing(issued) /\ \A i \in DOMAIN issued : issued[i] <= LastId

(* The row of MySQL that the player of a login is in.                      *)
Row(l) == [id |-> claim[l].player, of |-> l]

(* What is known of one login: which copies of its claim there are, and    *)
(* that none is left of an expired token but where the clock was set back. *)
Login_OK(l) ==
    /\ stage[l] = "player" => claim[l].player # 0
    /\ stage[l] \in {"new", "waiting", "player", "session"} => sessions[l] = NoClaim
    /\ stage[l] \in {"session", "publish", "issued"} => Row(l) \in players
    /\ sessions[l] # NoClaim => sessions[l] = claim[l] /\ Row(l) \in players
    /\ cache[l] # NoClaim => cache[l] = claim[l] /\ stage[l] = "issued"
    /\ stage[l] \in {"publish", "issued"} /\ Valid(claim[l]) /\ ~setBack => sessions[l] = claim[l]
    /\ \A c \in Check : check[c].token = l =>
          /\ stage[l] = "issued" /\ check[c].claim \in {NoClaim, claim[l]}
          /\ check[c].step = "delete" => setBack \/ ~Valid(claim[l])

(* The types the proofs need, those of the requests among them.            *)
AuthTypes ==
    /\ AuthTypeOK
    /\ check \in [Check -> [step : {"free", "fill", "delete"}, token : Login \cup {NoLogin}, claim : Claim]]

(* The id is the primary key.                                              *)
PlayersDiffer == \A a, b \in players : a.id = b.id => a = b

(* The inductive invariant about tokens.                                   *)
Tokens == PlayersDiffer /\ \A l \in Login : Login_OK(l)

-----------------------------------------------------------------------------
(* A product grows by a factor at least when the other one grows.          *)
LEMMA FactorGrows ==
    ASSUME NEW a \in Int, NEW b \in Int, NEW k \in Nat, a < b
    PROVE  a * k + k <= b * k
<1>1. b - a - 1 \in Nat
  OBVIOUS
<1>2. (b - a - 1) * k >= 0
  BY <1>1
<1>3. (b - a - 1) * k = b * k - a * k - k
  OBVIOUS
<1>4. a * k \in Int /\ b * k \in Int
  OBVIOUS
<1>5. QED BY <1>2, <1>3, <1>4

(* Ids are ordered by their millisecond, and by the sequence within one:   *)
(* neither part runs into the next.                                        *)
LEMMA IdFacts ==
    ASSUME NEW m \in Nat, NEW s \in 0 .. MaxSequence
    PROVE  /\ Id(m, s) \in Nat
           /\ \A t \in Nat, u \in 0 .. MaxSequence : m < t => Id(m, s) < Id(t, u)
           /\ \A u \in 0 .. MaxSequence : s <= u => Id(m, s) <= Id(m, u)
           /\ \A u \in 0 .. MaxSequence : s < u => Id(m, s) < Id(m, u)
<1> USE IdGenAssumption
<1> DEFINE Node(x) == x * (MaxNodeID + 1) + NodeID
<1>1. \A x \in Nat : Node(x) \in Nat /\ x * (MaxNodeID + 1) \in Nat
  OBVIOUS
<1>2. ASSUME NEW t \in Nat, m < t PROVE Node(m) < Node(t)
  <2>1. m * (MaxNodeID + 1) + (MaxNodeID + 1) <= t * (MaxNodeID + 1)
    BY <1>2, FactorGrows
  <2> QED BY <2>1, <1>1
<1> HIDE DEF Node
<1>3. \A x \in Nat, v \in 0 .. MaxSequence :
         Id(x, v) = Node(x) * (MaxSequence + 1) + v /\ Node(x) * (MaxSequence + 1) \in Nat
  BY <1>1 DEF Id, Node
<1>4. ASSUME NEW t \in Nat, NEW u \in 0 .. MaxSequence, m < t PROVE Id(m, s) < Id(t, u)
  <2>1. Node(m) * (MaxSequence + 1) + (MaxSequence + 1) <= Node(t) * (MaxSequence + 1)
    BY <1>1, <1>2, <1>4, FactorGrows
  <2> QED BY <1>3, <2>1
<1>5. QED BY <1>3, <1>4

(* The sequence wraps at its last number only.                             *)
LEMMA NextSequenceFacts ==
    ASSUME TypeOK
    PROVE  NextSequence = IF sequence = MaxSequence THEN 0 ELSE sequence + 1
<1> USE IdGenAssumption DEF TypeOK
<1>1. CASE sequence = MaxSequence
  <2>1. (MaxSequence + 1) % (MaxSequence + 1) = 0
    OBVIOUS
  <2> QED BY <1>1, <2>1 DEF NextSequence
<1>2. CASE sequence # MaxSequence
  <2>1. sequence + 1 \in Nat /\ sequence + 1 < MaxSequence + 1
    BY <1>2
  <2>2. \A x, y \in Nat : x < y => x % y = x
    OBVIOUS
  <2> QED BY <1>2, <2>1, <2>2 DEF NextSequence
<1>3. QED BY <1>1, <1>2

(* An id of a later millisecond is past the last one.                      *)
LEMMA LastIdFacts ==
    ASSUME TypeOK, lastMillis \in Nat
    PROVE  /\ LastId \in Nat
           /\ \A t \in Nat, u \in 0 .. MaxSequence : lastMillis < t => LastId < Id(t, u)
<1>1. PICK s \in 0 .. MaxSequence : s = IF waiting THEN MaxSequence ELSE sequence
  BY IdGenAssumption DEF TypeOK
<1>2. LastId = Id(lastMillis, s)
  BY <1>1 DEF LastId
<1>3. QED BY <1>2, IdFacts

(* An id past the last one keeps the invariant of the generator, also when *)
(* it is refused for not being positive.                                   *)
LEMMA IssueIds ==
    ASSUME Ids, NEW t \in 0 .. MaxTimestamp, NEW s \in 0 .. MaxSequence, Issue(t, s),
           UNCHANGED <<clock, cutShort>>, issued # <<>> => LastId < Id(t, s)
    PROVE  Ids'
<1> USE IdGenAssumption DEF Ids, TypeOK, Issue
<1> DEFINE id == Id(t, s)
           n  == Len(issued)
<1>1. id \in Nat /\ LastId' = id
  BY IdFacts DEF LastId, Id
<1>3. \/ issued' = issued
      \/ issued' = Append(issued, id) /\ id > 0
  OBVIOUS
<1>2. TypeOK'
  <2> HIDE DEF id
  <2>1. issued' \in Seq(Nat \ {0})
    BY <1>1, <1>3
  <2>2. waiting' \in BOOLEAN /\ cutShort' \in BOOLEAN
    OBVIOUS
  <2> QED BY <2>1, <2>2
<1>4. ASSUME ~cutShort
      PROVE  Increasing(issued') /\ \A i \in DOMAIN issued' : issued'[i] <= id
  <2> HIDE DEF id
  <2>1. \A i \in DOMAIN issued : issued[i] < id /\ issued[i] \in Nat
    <3> SUFFICES ASSUME NEW i \in DOMAIN issued PROVE issued[i] < id /\ issued[i] \in Nat
      OBVIOUS
    <3>1. issued # <<>>
      OBVIOUS
    <3>2. issued[i] \in Nat /\ issued[i] <= LastId /\ LastId < id
      BY <1>4, <3>1 DEF id
    <3>3. LastId \in Int
      <4>1. lastMillis \in Nat
        BY <3>1
      <4> QED BY <4>1, LastIdFacts
    <3> QED BY <1>1, <3>2, <3>3
  <2>2. CASE issued' = issued
    BY <1>1, <1>4, <2>1, <2>2 DEF Increasing
  <2>3. CASE issued' = Append(issued, id)
    <3>1. /\ DOMAIN issued' = 1 .. n + 1 /\ DOMAIN issued = 1 .. n /\ n \in Nat
          /\ issued'[n + 1] = id /\ \A i \in 1 .. n : issued'[i] = issued[i]
      BY <1>1, <2>3
    <3> HIDE DEF n
    <3>2. \A i \in DOMAIN issued' : issued'[i] <= id
      BY <1>1, <2>1, <3>1
    <3>3. ASSUME NEW i \in DOMAIN issued', NEW j \in DOMAIN issued', i < j PROVE issued'[i] < issued'[j]
      <4>1. CASE j = n + 1
        BY <2>1, <3>1, <3>3, <4>1
      <4>2. CASE j # n + 1
        <5>1. i \in 1 .. n /\ j \in 1 .. n
          BY <3>1, <3>3, <4>2
        <5> QED BY <1>4, <3>1, <3>3, <5>1 DEF Increasing
      <4> QED BY <4>1, <4>2
    <3> QED BY <3>2, <3>3 DEF Increasing
  <2> QED BY <1>3, <2>2, <2>3
<1>5. QED BY <1>1, <1>2, <1>4

(* A call of the generator keeps its invariant.                            *)
LEMMA CallIds ==
    ASSUME Ids, Call
    PROVE  Ids'
<1> USE IdGenAssumption DEF Ids, TypeOK, Call
<1>1. CASE NewMillisecond(clock)
  <2>1. clock \in 0 .. MaxTimestamp /\ lastMillis < clock /\ Issue(clock, 0)
    BY <1>1 DEF NewMillisecond, InRange
  <2>2. issued # <<>> => LastId < Id(clock, 0)
    <3> SUFFICES ASSUME issued # <<>> PROVE LastId < Id(clock, 0)
      OBVIOUS
    <3>1. lastMillis \in Nat
      OBVIOUS
    <3>2. 0 \in 0 .. MaxSequence /\ clock \in Nat
      BY <2>1
    <3> QED BY <2>1, <3>1, <3>2, LastIdFacts
  <2> QED BY <2>1, <2>2, IssueIds
<1>2. CASE SameMillisecond(clock)
  <2>1. clock = lastMillis /\ lastMillis \in 0 .. MaxTimestamp
    BY <1>2 DEF SameMillisecond, InRange
  <2>2. CASE NextSequence # 0
    <3>1. NextSequence = sequence + 1 /\ NextSequence \in 0 .. MaxSequence
      BY <2>2, NextSequenceFacts
    <3>2. LastId < Id(lastMillis, NextSequence)
      BY <2>1, <3>1, IdFacts DEF LastId
    <3> QED BY <1>2, <2>1, <2>2, <3>1, <3>2, IssueIds DEF SameMillisecond
  <2>3. CASE NextSequence = 0
    <3>1. sequence = MaxSequence
      BY <2>3, NextSequenceFacts
    <3>2. sequence' = 0 /\ waiting' = TRUE /\ UNCHANGED <<lastMillis, issued>>
      BY <1>2, <2>3 DEF SameMillisecond
    <3>3. LastId' = LastId
      BY <3>1, <3>2 DEF LastId, Id
    <3> QED BY <2>1, <3>2, <3>3 DEF Increasing
  <2> QED BY <2>2, <2>3
<1>3. QED BY <1>1, <1>2

(* So does the end of a wait.                                              *)
LEMMA WaitIds ==
    ASSUME Ids, WaitEnds \/ WaitFails
    PROVE  Ids'
<1> USE IdGenAssumption DEF Ids, TypeOK
<1>1. CASE WaitEnds
  <2>1. clock \in 0 .. MaxTimestamp /\ lastMillis \in Nat /\ lastMillis < clock
        /\ sequence = 0 /\ Issue(clock, 0) /\ UNCHANGED <<clock, cutShort>>
    BY <1>1 DEF WaitEnds, InRange
  <2>2. LastId < Id(clock, 0)
    <3>1. 0 \in 0 .. MaxSequence /\ clock \in Nat
      BY <2>1
    <3> QED BY <2>1, <3>1, LastIdFacts
  <2> QED BY <2>1, <2>2, IssueIds
<1>2. CASE WaitFails
  BY <1>2 DEF WaitFails
<1>3. QED BY <1>1, <1>2

(* So does the clock.                                                      *)
LEMMA ClockIds ==
    ASSUME Ids, ClockMoves \/ UNCHANGED vars
    PROVE  Ids'
BY DEF Ids, TypeOK, ClockMoves, vars, Increasing, LastId, Id

(* The generator starts in its invariant.                                  *)
LEMMA InitIds == Init => Ids
<1> SUFFICES ASSUME Init PROVE Ids
  OBVIOUS
<1>1. TypeOK
  <2>1. waiting \in BOOLEAN /\ cutShort \in BOOLEAN
    BY DEF Init
  <2> QED BY <2>1, IdGenAssumption DEF Init, TypeOK
<1>2. issued = <<>> /\ DOMAIN issued = {}
  BY DEF Init
<1>3. QED
  BY <1>1, <1>2 DEF Init, Ids, Increasing

(* However the clock jumps, the ids of one generator only stop growing     *)
(* after a wait for the next millisecond was cut short by the clock going  *)
(* back.                                                                   *)
THEOREM GeneratorIdsIncrease == Spec => []IdsIncreaseUnlessCutShort
<1>1. Ids /\ [Next]_vars => Ids'
  BY CallIds, WaitIds, ClockIds DEF Next
<1>2. Ids => IdsIncreaseUnlessCutShort
  BY DEF Ids, IdsIncreaseUnlessCutShort
<1>3. QED BY <1>1, <1>2, InitIds, PTL DEF Spec

-----------------------------------------------------------------------------
(* Every step of the logins keeps the invariant of the generator; a        *)
(* restart begins with a new one.                                          *)
LEMMA StepIds ==
    ASSUME Ids, [AuthNext]_allVars
    PROVE  Ids'
<1>1. CASE Restart
  <2>1. UNCHANGED clock /\ lastMillis' = -1 /\ sequence' = 0 /\ waiting' = FALSE /\ issued' = <<>>
        /\ cutShort' = FALSE
    BY <1>1 DEF Restart
  <2>2. TypeOK'
    <3>1. waiting' \in BOOLEAN /\ cutShort' \in BOOLEAN
      BY <2>1
    <3> QED BY <2>1, <3>1, IdGenAssumption DEF Ids, TypeOK
  <2>3. DOMAIN issued' = {}
    BY <2>1
  <2> QED BY <2>1, <2>2, <2>3 DEF Ids, Increasing
<1>2. \/ Restart \/ Call \/ WaitEnds \/ WaitFails \/ ClockMoves \/ UNCHANGED vars
  BY DEF AuthNext, allVars, DrawId, DrawRefused, CreatePlayer, CreatePlayerFails, SaveSession,
         SaveSessionFails, Publish, SessionLapses, DrawWaited, RoomDrawsId, CachedExpired,
         FindSession, FillCache, DeleteSession, TimePasses
<1>3. QED BY <1>1, <1>2, CallIds, WaitIds, ClockIds

(* The same for the generator of a process that serves logins and is       *)
(* restarted.                                                              *)
THEOREM IdsOfLoginsIncrease == AuthSpec => []IdsIncreaseUnlessCutShort
<1>1. Ids => IdsIncreaseUnlessCutShort
  BY DEF Ids, IdsIncreaseUnlessCutShort
<1>2. AuthInit => Ids
  BY InitIds DEF AuthInit
<1>3. QED BY <1>1, <1>2, StepIds, PTL DEF AuthSpec

-----------------------------------------------------------------------------
(* What a login does with the answer of the generator: it has its id,      *)
(* waits on, or fails.                                                     *)
Draws(l) ==
    /\ stage[l] \in {"new", "waiting"}
    /\ \/ /\ \E s \in {"waiting", "failed"} : stage' = [stage EXCEPT ![l] = s]
          /\ claim' = claim
       \/ /\ stage' = [stage EXCEPT ![l] = "player"]
          /\ \E id \in Nat \ {0} :
                claim' = [claim EXCEPT ![l] = [player |-> id, expires |-> clock + TTL]]
    /\ UNCHANGED <<players, sessions, cache, check, failures, setBack, clock>>

(* Each of the ways to get an answer is such a step.                       *)
LEMMA DrawnFacts ==
    ASSUME Ids, Ids', NEW l \in Login,
           \/ DrawId(l) \/ DrawRefused(l)
           \/ DrawWaited /\ (\E k \in Login : At(k, "waiting")) /\ At(l, "waiting") /\ Drawn(l)
    PROVE  Draws(l)
<1>1. /\ stage[l] \in {"new", "waiting"}
      /\ UNCHANGED <<players, sessions, cache, check, failures, setBack, clock>>
  BY DEF DrawId, DrawRefused, DrawWaited, At, Call, WaitEnds, WaitFails, vars
<1>2. CASE DrawRefused(l)
  BY <1>1, <1>2 DEF DrawRefused, Draws, Moves
<1>3. CASE Drawn(l)
  <2>1. CASE Len(issued') > Len(issued)
    <3>1. issued'[Len(issued')] \in Nat \ {0}
      BY <2>1 DEF Ids, TypeOK
    <3> QED BY <1>1, <1>3, <2>1, <3>1 DEF Drawn, Draws, Moves
  <2>2. CASE ~(Len(issued') > Len(issued))
    <3>1. PICK s \in {"waiting", "failed"} : stage' = [stage EXCEPT ![l] = s] /\ claim' = claim
      BY <1>3, <2>2 DEF Drawn, Moves
    <3> QED BY <1>1, <3>1 DEF Draws
  <2> QED BY <2>1, <2>2
<1>4. QED BY <1>2, <1>3 DEF DrawId

(* A room draws an id.                                                     *)
Others ==
    \/ RoomDrawsId
    \/ DrawWaited /\ UNCHANGED <<stage, claim>>

(* The kinds of steps the proofs tell apart.                               *)
LEMMA AuthCases ==
    ASSUME Ids, Ids', AuthNext
    PROVE  \/ \E l \in Login :
                 \/ Draws(l) \/ CreatePlayer(l) \/ CreatePlayerFails(l)
                 \/ SaveSession(l) \/ SaveSessionFails(l) \/ Publish(l) \/ SessionLapses(l)
           \/ Others
           \/ \E c \in Check, l \in Login : CachedExpired(c, l) \/ FindSession(c, l)
           \/ \E c \in Check : FillCache(c) \/ DeleteSession(c)
           \/ TimePasses \/ Restart
<1>1. ASSUME DrawWaited
      PROVE  Others \/ \E l \in Login : Draws(l)
  <2>1. CASE \E k \in Login : At(k, "waiting")
    <3>1. PICK l \in Login : At(l, "waiting") /\ Drawn(l)
      BY <1>1, <2>1 DEF DrawWaited
    <3> QED BY <1>1, <2>1, <3>1, DrawnFacts
  <2>2. CASE ~\E k \in Login : At(k, "waiting")
    BY <1>1, <2>2 DEF DrawWaited, Others
  <2> QED BY <2>1, <2>2
<1>2. QED BY <1>1, DrawnFacts DEF AuthNext, Others

(* The records for none, and those the requests make, are typed; a free    *)
(* request has no token.                                                   *)
LEMMA ClaimFacts ==
    /\ NoClaim \in Claim /\ \A c \in Check : [d \in Check |-> Free][c] = Free
    /\ Free \in [step : {"free", "fill", "delete"}, token : Login \cup {NoLogin}, claim : Claim]
    /\ Free.token \notin Login
    /\ \A s \in {"fill", "delete"}, l \in Login, r \in Claim :
          [step |-> s, token |-> l, claim |-> r]
             \in [step : {"free", "fill", "delete"}, token : Login \cup {NoLogin}, claim : Claim]
BY AuthAssumption DEF NoClaim, Claim, Free

(* A step that leaves a login and the copies of its claim alone keeps what *)
(* is known of it, provided the clock is only set back where that is       *)
(* remembered.                                                             *)
LEMMA LoginKept ==
    ASSUME NEW k \in Login, Login_OK(k), AuthTypes,
           stage'[k] = stage[k], claim'[k] = claim[k], sessions'[k] = sessions[k], cache'[k] = cache[k],
           players \subseteq players', setBack => setBack', setBack' \/ clock <= clock',
           clock' \in Int,
           \A c \in Check : check'[c].token = k => check'[c] = check[c]
    PROVE  Login_OK(k)'
<1>1. claim[k].expires \in Int /\ clock \in Int
  BY DEF AuthTypes, AuthTypeOK, TypeOK, Times, Claim
<1>2. ~setBack' /\ Valid(claim[k])' => ~setBack /\ Valid(claim[k])
  BY <1>1 DEF Valid
<1>3. Row(k)' = Row(k) /\ (Row(k) \in players => Row(k)' \in players')
  BY DEF Row
<1>4. ASSUME NEW c \in Check, check'[c].token = k
      PROVE  /\ stage'[k] = "issued" /\ check'[c].claim \in {NoClaim, claim'[k]}
             /\ check'[c].step = "delete" => setBack' \/ ~Valid(claim[k])'
  BY <1>2, <1>4 DEF Login_OK
<1>5. QED
  BY <1>2, <1>3, <1>4 DEF Login_OK, Valid

-----------------------------------------------------------------------------
(* The answer of the generator changes the claim of a login only while     *)
(* there is no copy of it.                                                 *)
LEMMA DrawKeeps ==
    ASSUME AuthTypes, Tokens, NEW l \in Login, Draws(l)
    PROVE  Tokens'
<1> USE DEF Tokens, AuthTypes, AuthTypeOK
<1>1. PlayersDiffer'
  BY DEF Draws, PlayersDiffer
<1>2. ASSUME NEW k \in Login PROVE Login_OK(k)'
  <2>1. CASE k = l
    <3>1. /\ sessions'[l] = NoClaim /\ cache'[l] = NoClaim /\ \A c \in Check : check'[c].token # l
      BY DEF Draws, Login_OK
    <3>2. \/ stage'[l] \in {"waiting", "failed"}
          \/ stage'[l] = "player" /\ claim'[l].player # 0
      BY DEF Draws, Moves
    <3> QED BY <2>1, <3>1, <3>2 DEF Login_OK
  <2>2. CASE k # l
    <3>1. stage'[k] = stage[k] /\ claim'[k] = claim[k]
      BY <2>2 DEF Draws
    <3> QED BY <3>1, LoginKept DEF Draws, TypeOK, Times
  <2> QED BY <2>1, <2>2
<1>3. QED BY <1>1, <1>2

(* Storing a player, or failing to, keeps the tokens right.                *)
LEMMA PlayerKeeps ==
    ASSUME AuthTypes, Tokens, NEW l \in Login, CreatePlayer(l) \/ CreatePlayerFails(l)
    PROVE  Tokens'
<1> USE DEF Tokens, AuthTypes, AuthTypeOK
<1>1. /\ stage[l] = "player" /\ UNCHANGED <<claim, sessions, cache, check, setBack, clock>>
      /\ \/ /\ \A row \in players : row.id # claim[l].player
            /\ players' = players \cup {Row(l)}
            /\ \E s \in {"session", "failed"} : stage' = [stage EXCEPT ![l] = s]
         \/ players' = players /\ stage' = [stage EXCEPT ![l] = "failed"]
  BY DEF CreatePlayer, CreatePlayerFails, At, Moves, vars, Row
<1>2. PlayersDiffer'
  <2>1. Row(l).id = claim[l].player
    BY DEF Row
  <2> QED BY <1>1, <2>1 DEF PlayersDiffer
<1>3. ASSUME NEW k \in Login PROVE Login_OK(k)'
  <2>1. CASE k = l
    <3>1. /\ sessions'[l] = NoClaim /\ cache'[l] = NoClaim /\ \A c \in Check : check'[c].token # l
      BY <1>1 DEF Login_OK
    <3>2. Row(l)' = Row(l)
      BY <1>1 DEF Row
    <3>3. \/ stage'[l] = "failed"
          \/ stage'[l] = "session" /\ Row(l)' \in players'
      BY <1>1, <3>2
    <3> QED BY <2>1, <3>1, <3>3 DEF Login_OK
  <2>2. CASE k # l
    <3>1. stage'[k] = stage[k] /\ players \subseteq players'
      BY <1>1, <2>2
    <3> QED BY <1>1, <3>1, LoginKept DEF TypeOK, Times
  <2> QED BY <2>1, <2>2
<1>4. QED BY <1>2, <1>3

(* Storing a session and publishing it keep the tokens right.              *)
LEMMA SessionKeeps ==
    ASSUME AuthTypes, Tokens, NEW l \in Login, SaveSession(l) \/ SaveSessionFails(l) \/ Publish(l)
    PROVE  Tokens'
<1> USE DEF Tokens, AuthTypes, AuthTypeOK
<1>1. UNCHANGED <<claim, players, check, setBack, clock>>
  BY DEF SaveSession, SaveSessionFails, Publish, vars
<1>2. ASSUME NEW k \in Login, k # l PROVE Login_OK(k)'
  <2>1. stage'[k] = stage[k] /\ sessions'[k] = sessions[k] /\ cache'[k] = cache[k]
    BY <1>2 DEF SaveSession, SaveSessionFails, Publish, Moves
  <2> QED BY <1>1, <2>1, LoginKept DEF TypeOK, Times
<1>3. Login_OK(l)'
  <2>1. stage[l] \in {"session", "publish"} /\ Row(l)' \in players' /\ \A c \in Check : check'[c].token # l
    BY <1>1 DEF SaveSession, SaveSessionFails, Publish, At, Login_OK, Row
  <2>2. CASE SaveSession(l)
    <3>1. sessions'[l] = claim'[l] /\ cache'[l] = NoClaim /\ stage'[l] \in {"publish", "failed"}
      BY <2>2 DEF SaveSession, At, Moves, Login_OK
    <3> QED BY <2>1, <3>1 DEF Login_OK
  <2>3. CASE SaveSessionFails(l)
    <3>1. sessions'[l] = NoClaim /\ cache'[l] = NoClaim /\ stage'[l] = "failed"
      BY <2>3 DEF SaveSessionFails, At, Moves, Login_OK
    <3> QED BY <2>1, <3>1 DEF Login_OK
  <2>4. CASE Publish(l)
    <3>1. /\ cache'[l] = claim'[l] /\ stage'[l] = "issued" /\ sessions' = sessions
          /\ stage[l] = "publish"
      BY <2>4 DEF Publish, At, Moves
    <3> QED BY <1>1, <2>1, <3>1 DEF Login_OK, Row, Valid
  <2> QED BY <2>2, <2>3, <2>4
<1>4. QED BY <1>1, <1>2, <1>3 DEF PlayersDiffer

(* A session that lapses had expired, unless the clock was set back.       *)
LEMMA LapseKeeps ==
    ASSUME AuthTypes, Tokens, NEW l \in Login, SessionLapses(l)
    PROVE  Tokens'
<1> USE DEF Tokens, AuthTypes, AuthTypeOK
<1>1. /\ UNCHANGED <<stage, claim, players, cache, check, setBack, clock>>
      /\ sessions' = [sessions EXCEPT ![l] = NoClaim]
      /\ sessions[l] # NoClaim /\ (~Valid(sessions[l]) \/ setBack)
  BY DEF SessionLapses, vars
<1>2. ASSUME NEW k \in Login, k # l PROVE Login_OK(k)'
  <2>1. sessions'[k] = sessions[k]
    BY <1>1, <1>2
  <2> QED BY <1>1, <2>1, LoginKept DEF TypeOK, Times
<1>3. Login_OK(l)'
  <2>1. sessions'[l] = NoClaim /\ (~Valid(claim[l]) \/ setBack)
    BY <1>1 DEF Login_OK
  <2> QED BY <1>1, <2>1 DEF Login_OK, Row, Valid
<1>4. QED BY <1>1, <1>2, <1>3 DEF PlayersDiffer

(* A request only ever takes a copy of the claim, or finds the token       *)
(* expired.                                                                *)
LEMMA CheckKeeps ==
    ASSUME AuthTypes, Tokens, NEW c \in Check, NEW l \in Login,
           CachedExpired(c, l) \/ FindSession(c, l)
    PROVE  Tokens'
<1> USE DEF Tokens, AuthTypes, AuthTypeOK
<1>1. /\ UNCHANGED <<stage, claim, players, sessions, setBack, clock>> /\ stage[l] = "issued"
      /\ \/ /\ check' = [check EXCEPT ![c] = [step |-> "fill", token |-> l, claim |-> sessions[l]]]
            /\ cache' = cache /\ sessions[l] # NoClaim
         \/ /\ check' = [check EXCEPT ![c] = [step |-> "delete", token |-> l, claim |-> NoClaim]]
            /\ cache' = [cache EXCEPT ![l] = NoClaim]
            /\ \/ cache[l] # NoClaim /\ ~Valid(cache[l])
               \/ sessions[l] # NoClaim /\ ~Valid(sessions[l])
  BY DEF CachedExpired, FindSession, Asks, At, Expired, Then, vars
<1>2. ASSUME NEW k \in Login, k # l PROVE Login_OK(k)'
  <2>1. cache'[k] = cache[k] /\ \A d \in Check : check'[d].token = k => check'[d] = check[d]
    BY <1>1, <1>2
  <2> QED BY <1>1, <2>1, LoginKept DEF TypeOK, Times
<1>3. Login_OK(l)'
  <2>1. CASE /\ check' = [check EXCEPT ![c] = [step |-> "fill", token |-> l, claim |-> sessions[l]]]
             /\ cache' = cache /\ sessions[l] # NoClaim
    <3>1. sessions[l] = claim[l]
      BY <2>1 DEF Login_OK
    <3>2. \A d \in Check : \/ check'[d] = check[d]
                           \/ check'[d].step = "fill" /\ check'[d].claim = claim[l]
      BY <2>1, <3>1
    <3> QED BY <1>1, <2>1, <3>2 DEF Login_OK, Row, Valid
  <2>2. CASE /\ check' = [check EXCEPT ![c] = [step |-> "delete", token |-> l, claim |-> NoClaim]]
             /\ cache' = [cache EXCEPT ![l] = NoClaim]
             /\ \/ cache[l] # NoClaim /\ ~Valid(cache[l])
                \/ sessions[l] # NoClaim /\ ~Valid(sessions[l])
    <3>1. ~Valid(claim[l]) /\ cache'[l] = NoClaim
      BY <2>2 DEF Login_OK
    <3>2. \A d \in Check : check'[d] = check[d] \/ check'[d].claim = NoClaim
      BY <2>2
    <3> QED BY <1>1, <3>1, <3>2 DEF Login_OK, Row, Valid
  <2> QED BY <1>1, <2>1, <2>2
<1>4. QED BY <1>1, <1>2, <1>3 DEF PlayersDiffer

(* What a request does last puts that copy in the cache, or forgets an     *)
(* expired token.                                                          *)
LEMMA CheckEndKeeps ==
    ASSUME AuthTypes, Tokens, NEW c \in Check, FillCache(c) \/ DeleteSession(c)
    PROVE  Tokens'
<1> USE DEF Tokens, AuthTypes, AuthTypeOK
<1> DEFINE l == check[c].token
<1>1. /\ UNCHANGED <<stage, claim, players, setBack, clock>> /\ check' = [check EXCEPT ![c] = Free]
      /\ \/ cache' = [cache EXCEPT ![l] = check[c].claim] /\ sessions' = sessions
         \/ /\ check[c].step = "delete" /\ cache' = cache
            /\ sessions' \in {sessions, [sessions EXCEPT ![l] = NoClaim]}
  BY DEF FillCache, DeleteSession, vars
<1>2. \A k \in Login, d \in Check : check'[d].token = k => check'[d] = check[d]
  BY <1>1, ClaimFacts
<1>3. ASSUME NEW k \in Login, k # l PROVE Login_OK(k)'
  <2>1. cache'[k] = cache[k] /\ sessions'[k] = sessions[k]
    BY <1>1, <1>3
  <2> QED BY <1>1, <1>2, <2>1, LoginKept DEF TypeOK, Times
<1>4. ASSUME NEW k \in Login, k = l PROVE Login_OK(k)'
  <2>1. /\ stage[k] = "issued" /\ check[c].claim \in {NoClaim, claim[k]}
        /\ check[c].step = "delete" => setBack \/ ~Valid(claim[k])
    BY <1>4 DEF Login_OK
  <2>2. CASE sessions' = sessions /\ cache'[k] \in {cache[k], check[c].claim}
    BY <1>1, <1>2, <2>1, <2>2 DEF Login_OK, Row, Valid
  <2>3. CASE cache' = cache /\ sessions'[k] = NoClaim /\ check[c].step = "delete"
    BY <1>1, <1>2, <2>1, <2>3 DEF Login_OK, Row, Valid
  <2> QED BY <1>1, <1>4, <2>2, <2>3
<1>5. QED BY <1>1, <1>3, <1>4 DEF PlayersDiffer

(* Ids for rooms, the clock and a restart keep the tokens right.           *)
LEMMA OtherKeeps ==
    ASSUME AuthTypes, AuthTypes', Tokens, Others \/ TimePasses \/ Restart \/ UNCHANGED allVars
    PROVE  Tokens'
<1> USE DEF Tokens, AuthTypes, AuthTypeOK
<1>1. CASE Others \/ TimePasses \/ UNCHANGED allVars
  <2>1. /\ UNCHANGED <<stage, claim, players, sessions, cache, check>>
        /\ (setBack => setBack') /\ (setBack' \/ clock <= clock')
    BY <1>1 DEF Others, TimePasses, RoomDrawsId, DrawWaited, WaitEnds, WaitFails, Call, authVars,
                allVars, vars, ClockMoves, TypeOK, Times
  <2>2. \A k \in Login : Login_OK(k)'
    <3>1. clock' \in Int /\ (\A k \in Login : Login_OK(k)) /\ AuthTypes
      BY DEF TypeOK, Times
    <3> HIDE DEF Tokens, AuthTypes, AuthTypeOK
    <3> QED BY <2>1, <3>1, LoginKept
  <2> QED BY <2>1, <2>2 DEF PlayersDiffer
<1>2. CASE Restart
  <2>1. /\ UNCHANGED <<clock, claim, players, sessions, setBack>>
        /\ \A k \in Login : /\ cache'[k] = NoClaim
                            /\ stage'[k] = IF stage[k] \in {"new", "issued"} THEN stage[k] ELSE "failed"
        /\ \A c \in Check : check'[c].token \notin Login
    BY <1>2, ClaimFacts DEF Restart
  <2>2. \A k \in Login : Login_OK(k)'
    BY <2>1 DEF Login_OK, Row, Valid
  <2> QED BY <2>1, <2>2 DEF PlayersDiffer
<1>3. QED BY <1>1, <1>2

-----------------------------------------------------------------------------
(* A call of a store that fails is counted within the bound.               *)
LEMMA AuthFailures ==
    ASSUME AuthTypeOK, Fails \/ UNCHANGED failures
    PROVE  failures' \in 0 .. MaxFailures
BY AuthAssumption DEF AuthTypeOK, Fails

(* The steps of a login keep the types.                                    *)
LEMMA TypesOfLogin ==
    ASSUME Ids', AuthTypes, Tokens, NEW l \in Login,
           \/ Draws(l) \/ CreatePlayer(l) \/ CreatePlayerFails(l)
           \/ SaveSession(l) \/ SaveSessionFails(l) \/ Publish(l) \/ SessionLapses(l)
    PROVE  AuthTypes'
<1> USE DEF AuthTypes, AuthTypeOK
<1>1. TypeOK' /\ UNCHANGED <<check, setBack>>
  BY DEF Ids, Draws, CreatePlayer, CreatePlayerFails, SaveSession, SaveSessionFails, Publish, SessionLapses
<1>2. failures' \in 0 .. MaxFailures
  BY AuthFailures DEF Draws, CreatePlayer, CreatePlayerFails, SaveSession, SaveSessionFails, Publish, SessionLapses
<1>3. stage' \in [Login -> Stages]
  <2>1. UNCHANGED stage \/ \E s \in Stages : stage' = [stage EXCEPT ![l] = s]
    BY DEF Draws, CreatePlayer, CreatePlayerFails, SaveSession, SaveSessionFails, Publish, SessionLapses,
           Moves, Stages
  <2> QED BY <2>1
<1>4. claim' \in [Login -> Claim]
  <2>1. CASE Draws(l)
    <3>1. \A id \in Nat : [player |-> id, expires |-> clock + TTL] \in Claim
      BY AuthAssumption DEF Claim, TypeOK, Times
    <3> QED BY <2>1, <3>1 DEF Draws
  <2>2. CASE UNCHANGED claim
    BY <2>2
  <2> QED BY <2>1, <2>2 DEF CreatePlayer, CreatePlayerFails, SaveSession, SaveSessionFails, Publish,
             SessionLapses
<1>5. players' \subseteq [id : Nat \ {0}, of : Login]
  <2>1. CASE CreatePlayer(l)
    <3>1. [id |-> claim[l].player, of |-> l] \in [id : Nat \ {0}, of : Login]
      BY <2>1 DEF CreatePlayer, At, Tokens, Login_OK, Claim
    <3> QED BY <2>1, <3>1 DEF CreatePlayer
  <2>2. CASE UNCHANGED players
    BY <2>2
  <2> QED BY <2>1, <2>2 DEF Draws, CreatePlayerFails, SaveSession, SaveSessionFails, Publish, SessionLapses
<1>6. sessions' \in [Login -> Claim] /\ cache' \in [Login -> Claim]
  BY ClaimFacts DEF Draws, CreatePlayer, CreatePlayerFails, SaveSession, SaveSessionFails, Publish, SessionLapses
<1>7. QED
  BY <1>1, <1>2, <1>3, <1>4, <1>5, <1>6

(* The steps of a request keep the types.                                  *)
LEMMA TypesOfCheck ==
    ASSUME Ids', AuthTypes, NEW c \in Check,
           \/ \E l \in Login : CachedExpired(c, l) \/ FindSession(c, l)
           \/ FillCache(c) \/ DeleteSession(c)
    PROVE  AuthTypes'
<1> USE DEF AuthTypes, AuthTypeOK
<1>1. TypeOK' /\ UNCHANGED <<stage, claim, players, setBack>>
  BY DEF Ids, CachedExpired, FindSession, FillCache, DeleteSession
<1>2. failures' \in 0 .. MaxFailures
  BY AuthFailures DEF CachedExpired, FindSession, FillCache, DeleteSession
<1>3. sessions' \in [Login -> Claim]
  BY ClaimFacts DEF CachedExpired, FindSession, FillCache, DeleteSession
<1>4. cache' \in [Login -> Claim]
  BY ClaimFacts DEF CachedExpired, FindSession, FillCache, DeleteSession, Expired
<1>5. check' \in [Check -> [step : {"free", "fill", "delete"}, token : Login \cup {NoLogin}, claim : Claim]]
  BY ClaimFacts DEF CachedExpired, FindSession, FillCache, DeleteSession, Expired, Then
<1>6. \A d \in Check : check'[d].step \in {"free", "fill", "delete"}
  BY <1>5
<1>7. QED
  BY <1>1, <1>2, <1>3, <1>4, <1>5, <1>6

(* The other steps keep the types.                                         *)
LEMMA TypesOfOthers ==
    ASSUME Ids', AuthTypes, Others \/ TimePasses \/ Restart \/ UNCHANGED allVars
    PROVE  AuthTypes'
<1> USE DEF AuthTypes, AuthTypeOK
<1>1. CASE Others \/ TimePasses \/ UNCHANGED allVars
  <2>1. TypeOK' /\ UNCHANGED <<stage, claim, players, sessions, cache, check, failures>>
    BY <1>1 DEF Ids, Others, RoomDrawsId, DrawWaited, TimePasses, allVars, authVars
  <2>2. setBack' \in BOOLEAN
    BY <1>1 DEF Others, RoomDrawsId, DrawWaited, TimePasses, allVars, authVars
  <2> QED BY <2>1, <2>2
<1>2. CASE Restart
  <2>1. TypeOK' /\ UNCHANGED <<claim, players, sessions, failures, setBack>>
    BY <1>2 DEF Ids, Restart
  <2>2. stage' \in [Login -> Stages]
    BY <1>2 DEF Restart, Stages
  <2>3. cache' \in [Login -> Claim]
    BY <1>2, ClaimFacts DEF Restart
  <2>4. check' \in [Check -> [step : {"free", "fill", "delete"}, token : Login \cup {NoLogin}, claim : Claim]]
    BY <1>2, ClaimFacts DEF Restart
  <2>5. \A d \in Check : check'[d].step \in {"free", "fill", "delete"}
    BY <2>4
  <2> QED BY <2>1, <2>2, <2>3, <2>4, <2>5
<1>3. QED BY <1>1, <1>2

(* The invariants hold at the start.                                       *)
LEMMA AuthStart == AuthInit => Ids /\ AuthTypes /\ Tokens
<1> SUFFICES ASSUME AuthInit PROVE Ids /\ AuthTypes /\ Tokens
  OBVIOUS
<1>1. Ids
  BY InitIds DEF AuthInit
<1>2. /\ stage \in [Login -> Stages] /\ claim \in [Login -> Claim]
      /\ sessions \in [Login -> Claim] /\ cache \in [Login -> Claim] /\ failures \in 0 .. MaxFailures
      /\ check \in [Check -> [step : {"free", "fill", "delete"}, token : Login \cup {NoLogin}, claim : Claim]]
  BY ClaimFacts, AuthAssumption DEF AuthInit, Stages
<1>3. \A d \in Check : check[d].step \in {"free", "fill", "delete"}
  BY <1>2
<1>4. setBack \in BOOLEAN /\ players = {}
  BY DEF AuthInit
<1>5. AuthTypes
  BY <1>1, <1>2, <1>3, <1>4 DEF AuthTypes, AuthTypeOK, Ids
<1>6. Tokens
  BY ClaimFacts DEF AuthInit, Tokens, PlayersDiffer, Login_OK
<1>7. QED BY <1>1, <1>5, <1>6

(* The invariants are inductive.                                           *)
LEMMA AuthStep ==
    ASSUME Ids, AuthTypes, Tokens, [AuthNext]_allVars
    PROVE  Ids' /\ AuthTypes' /\ Tokens'
<1>1. Ids'
  BY StepIds
<1>2. CASE UNCHANGED allVars
  BY <1>1, <1>2, TypesOfOthers, OtherKeeps
<1>3. CASE AuthNext
  <2>1. ASSUME NEW l \in Login, Draws(l) \/ CreatePlayer(l) \/ CreatePlayerFails(l)
           \/ SaveSession(l) \/ SaveSessionFails(l) \/ Publish(l) \/ SessionLapses(l)
        PROVE  AuthTypes' /\ Tokens'
    BY <1>1, <2>1, TypesOfLogin, DrawKeeps, PlayerKeeps, SessionKeeps, LapseKeeps
  <2>2. ASSUME NEW c \in Check,
           \/ \E l \in Login : CachedExpired(c, l) \/ FindSession(c, l)
           \/ FillCache(c) \/ DeleteSession(c)
        PROVE  AuthTypes' /\ Tokens'
    BY <1>1, <2>2, TypesOfCheck, CheckKeeps, CheckEndKeeps
  <2>3. CASE Others \/ TimePasses \/ Restart
    BY <1>1, <2>3, TypesOfOthers, OtherKeeps
  <2> QED BY <1>1, <1>3, <2>1, <2>2, <2>3, AuthCases
<1>4. QED BY <1>1, <1>2, <1>3

(* The invariants hold in every state.                                     *)
THEOREM AuthInvariant == AuthSpec => [](Ids /\ AuthTypes /\ Tokens)
BY AuthStart, AuthStep, PTL DEF AuthSpec

(* Variables keep their types, and the sequence stays in its bits.         *)
THEOREM AuthTypesHold == AuthSpec => []AuthTypeOK
<1>1. AuthTypes => AuthTypeOK
  BY DEF AuthTypes
<1>2. QED BY <1>1, AuthInvariant, PTL

(* Every token that is known to Redis, to a process or to a request stands *)
(* for the player its own login stored, and no two tokens for the same     *)
(* player, also when a restarted process draws ids again that the one      *)
(* before handed out.                                                      *)
THEOREM TokensHaveTheirPlayers == AuthSpec => []TokenHasItsPlayer
<1>1. AuthTypes /\ Tokens => TokenHasItsPlayer
  <2> SUFFICES ASSUME AuthTypes, Tokens, NEW l \in Login, NEW record,
                      record \in {sessions[l], cache[l]} \cup {check[c].claim : c \in {d \in Check : check[d].token = l}},
                      record # NoClaim
               PROVE  /\ record = claim[l] /\ [id |-> record.player, of |-> l] \in players
                      /\ \A row \in players : row.id = record.player => row.of = l
    BY DEF TokenHasItsPlayer
  <2>1. Login_OK(l) /\ PlayersDiffer
    BY DEF Tokens
  <2>2. record = claim[l] /\ Row(l) \in players
    BY <2>1 DEF Login_OK
  <2>3. Row(l) = [id |-> record.player, of |-> l]
    BY <2>2 DEF Row
  <2> QED BY <2>1, <2>2, <2>3 DEF PlayersDiffer
<1>2. QED BY <1>1, AuthInvariant, PTL

(* A client that got its token finds it in Redis until it expires, across  *)
(* crashes and failing calls, as long as the clock is not set back.        *)
THEOREM IssuedTokensAreStored == AuthSpec => []IssuedTokenIsStored
<1>1. Tokens => IssuedTokenIsStored
  BY DEF Tokens, Login_OK, IssuedTokenIsStored, At
<1>2. QED BY <1>1, AuthInvariant, PTL
=============================================================================
