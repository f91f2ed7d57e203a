------------------------ MODULE RoomPersistenceProofs ------------------------
(***************************************************************************)
(* Proofs about RoomPersistence for every set of players and rooms and     *)
(* every bound: its types, and what the record of matches in MySQL keeps.  *)
(* RoomRestartProofs goes on with what is in Redis.                        *)
(***************************************************************************)
EXTENDS RoomPersistence, FiniteSetTheorems, TLAPS

(* What a room may still have to write: nothing, its save, or what comes   *)
(* before the save of the commands that remove a player or end a round.    *)
Shapes ==
    \A r \in Room :
        \/ pending[r] = <<>>
        \/ pending[r] = <<Save>>
        \/ \E p \in Player : pending[r] = <<Clear(p), Save>>
        \/ \E p \in Player : pending[r] = <<Finish(p), Save>>

(* Which rooms are in memory, and which snapshots are still to be          *)
(* restored.  A room that is destroyed still has its last write to do.     *)
InMemory ==
    /\ \A r \in Room : room[r].phase = "none" => room[r] = NoImage /\ pending[r] = <<>>
    /\ \A r \in Room : room[r].phase = "destroyed" => pending[r] # <<>>
    /\ \A r \in Room : snap[r].gone \subseteq snap[r].members
    /\ \A r \in Room : snap[r].phase = "none" => snap[r] = NoImage
    /\ \A r \in todo : room[r] = NoImage /\ snap[r] # NoImage
    /\ proc = "down" => room = NoImages
    /\ proc # "restoring" => todo = {}

(* A player is a member who may come back in one room at the most.         *)
OneSeat ==
    \A q, r \in Room : \A p \in Player :
        /\ room[q].phase # "destroyed" /\ room[r].phase # "destroyed"
        /\ p \in Active(room[q]) /\ p \in Active(room[r])
        => q = r

(* The inductive invariant every other one rests on.                       *)
Base == TypeOK /\ promised \in [Room -> Image] /\ announced \in [Match -> SUBSET Player]
     /\ copied \in [Room -> BOOLEAN] /\ conflicted \subseteq Player /\ Shapes /\ InMemory /\ OneSeat

(* The match of a round has a row under the room of the round.             *)
MatchOf(r, i) ==
    i.phase \in {"playing", "settled"} =>
        i.match \in Match /\ matchStatus[i.match] # "absent" /\ matchRoom[i.match] = r

(* The inductive invariant about the record of matches.  Ids not handed    *)
(* out yet have no row, a result about to be written was announced, and    *)
(* without lost writes a settled round that has no result left to write    *)
(* has it recorded.                                                        *)
Matches ==
    /\ \A r \in Room : MatchOf(r, room[r]) /\ MatchOf(r, snap[r])
    /\ \A m \in Match : m > lastMatch => matchStatus[m] = "absent"
    /\ \A r \in Room, p \in Player :
          pending[r] = <<Finish(p), Save>> => room[r].phase = "settled" /\ p \in announced[room[r].match]
    /\ failures = 0 =>
          \A r \in Room :
             room[r].phase = "settled" /\ (\A p \in Player : pending[r] # <<Finish(p), Save>>) =>
                matchStatus[room[r].match] = "finished"

-----------------------------------------------------------------------------
(* A set of naturals has a least element.  The intervals below the         *)
(* elements are finite sets, and strict inclusion of those is well         *)
(* founded.                                                                *)
LEMMA NaturalMinimum ==
    ASSUME NEW S, S \subseteq Nat, S # {}
    PROVE  Min(S) \in S /\ \A n \in S : Min(S) <= n
<1> DEFINE F == {0 .. n : n \in S}
           R == StrictSubsetOrdering(Nat)
<1>1. F \subseteq FiniteSubsetsOf(Nat) /\ F # {}
  <2>1. ASSUME NEW n \in S PROVE 0 .. n \in FiniteSubsetsOf(Nat)
    BY <2>1, FS_Interval DEF FiniteSubsetsOf
  <2>2. QED BY <2>1
<1>2. IsWellFoundedOn(R, FiniteSubsetsOf(Nat))
  BY FS_StrictSubsetOrderingWellFounded
<1> HIDE DEF F, R
<1>3. PICK x \in F : \A y \in F : ~(<<y, x>> \in R)
  BY <1>1, <1>2, WFMin
<1> USE DEF F, R
<1>4. PICK m \in S : x = 0 .. m
  OBVIOUS
<1>5. ASSUME NEW n \in S PROVE m <= n
  <2>1. SUFFICES ASSUME n < m PROVE FALSE
    OBVIOUS
  <2>2. 0 .. n \in SUBSET Nat /\ 0 .. m \in SUBSET Nat /\ 0 .. n \subseteq 0 .. m /\ 0 .. n # 0 .. m
    BY <2>1
  <2>3. <<0 .. n, 0 .. m>> \in R
    BY <2>2 DEF StrictSubsetOrdering
  <2>4. QED BY <2>3, <1>3, <1>4
<1>6. QED BY <1>5 DEF Min

-----------------------------------------------------------------------------
(* The room that does not exist is typed, is empty and has no match.       *)
LEMMA NoImageFacts ==
    /\ NoImage \in Image /\ NoImage.phase = "none" /\ NoImage.members = {} /\ NoImage.gone = {}
    /\ Active(NoImage) = {} /\ NoImages \in [Room -> Image] /\ \A r \in Room : NoImages[r] = NoImage
BY DEF NoImage, Image, NoMatch, NoImages, Active

(* The head of the pending steps tells what all of them are.               *)
LEMMA PendingFacts ==
    ASSUME Shapes, NEW r \in Room
    PROVE  /\ Steps(r, "save") => pending[r] = <<Save>> /\ Tail(pending[r]) = <<>>
           /\ Steps(r, "clear") =>
                 \E p \in Player : /\ pending[r] = <<Clear(p), Save>> /\ Tail(pending[r]) = <<Save>>
                                   /\ Head(pending[r]).player = p
           /\ Steps(r, "finish") =>
                 \E p \in Player : /\ pending[r] = <<Finish(p), Save>> /\ Tail(pending[r]) = <<Save>>
                                   /\ Head(pending[r]).player = p
<1>1. CASE pending[r] = <<>>
  BY <1>1 DEF Steps
<1>2. CASE pending[r] = <<Save>>
  BY <1>2 DEF Steps, Save
<1>3. ASSUME NEW p \in Player, pending[r] = <<Clear(p), Save>>
      PROVE  Tail(pending[r]) = <<Save>> /\ Head(pending[r]).player = p /\ Head(pending[r]).op = "clear"
  BY <1>3 DEF Clear
<1>4. ASSUME NEW p \in Player, pending[r] = <<Finish(p), Save>>
      PROVE  Tail(pending[r]) = <<Save>> /\ Head(pending[r]).player = p /\ Head(pending[r]).op = "finish"
  BY <1>4 DEF Finish
<1>5. QED
  BY <1>1, <1>2, <1>3, <1>4 DEF Shapes, Steps

(* The steps a command leaves are sequences of steps.                      *)
LEMMA StepsTyped ==
    /\ <<Save>> \in Seq(Step)
    /\ \A p \in Player : <<Clear(p), Save>> \in Seq(Step) /\ <<Finish(p), Save>> \in Seq(Step)
<1>1. Save \in Step /\ \A p \in Player : Clear(p) \in Step /\ Finish(p) \in Step
  BY DEF Step
<1>2. \A a, b \in Step : <<a>> \in Seq(Step) /\ <<a, b>> \in Seq(Step)
  OBVIOUS
<1>3. ASSUME NEW p \in Player
      PROVE  <<Clear(p), Save>> \in Seq(Step) /\ <<Finish(p), Save>> \in Seq(Step)
  <2> Clear(p) \in Step /\ Finish(p) \in Step /\ Save \in Step
    BY <1>1
  <2> QED BY <1>2
<1>4. QED BY <1>1, <1>2, <1>3

(* What the commands of clients and of the automation have in common: the  *)
(* room was at rest and becomes i, only players without a seat come in,    *)
(* and only the player whose key is to be cleared goes.                    *)
Command(r, i, steps) ==
    /\ Handled(r, i, steps)
    /\ pending[r] = <<>> /\ r \notin todo /\ proc # "down"
    /\ i \in Image /\ i.gone \subseteq i.members /\ i.phase # "none"
    /\ i.phase \in {"playing", "settled"} =>
          room[r].phase \in {"playing", "settled"} /\ i.match = room[r].match
    /\ i.phase = "settled" => room[r].phase = "settled" \/ \E p \in Player : steps = <<Finish(p), Save>>
    /\ \A p \in Active(i) : p \notin Active(room[r]) => proc = "up" /\ ~Seated(p)
    /\ \A p \in Active(room[r]) : p \notin Active(i) => steps = <<Clear(p), Save>>
    /\ \/ steps = <<Save>> /\ announced' = announced
       \/ (\E p \in Player : steps = <<Clear(p), Save>>) /\ announced' = announced
       \/ \E p \in Player :
             /\ steps = <<Finish(p), Save>>
             /\ i.phase = "settled" /\ room[r].phase = "playing"
             /\ announced' = [announced EXCEPT ![room[r].match] = @ \cup {p}]
    /\ online' \subseteq Player /\ lastMatch' = lastMatch

(* The actions whose handler only changes the room and what it has to      *)
(* write.                                                                  *)
ClientCommand ==
    \/ \E p \in Player, r \in Room :
          \/ Create(p, r) \/ Join(p, r) \/ Leave(p, r) \/ Kick(p, r)
          \/ Abandon(p, r) \/ Reconnect(p, r)
    \/ \E p \in Player : Disconnect(p)
    \/ \E r \in Room :
          \/ OtherCommand(r) \/ RoundEnds(r) \/ AutomatedMove(r) \/ EmptyRoomTimeout(r)

(* Taking a member out is a command in the sense above.                    *)
LEMMA RemoveFacts ==
    ASSUME Base, NEW p \in Player, NEW r \in Room, Remove(p, r), Idle(r)
    PROVE  Command(r, Without(room[r], p), <<Clear(p), Save>>)
<1> USE DEF Base, Remove, Idle, Live
<1>1. /\ r \notin todo /\ proc # "down" /\ room[r] \in Image /\ room[r].gone \subseteq room[r].members
      /\ room[r].phase # "none" /\ room[r].phase # "destroyed"
  BY DEF TypeOK, InMemory, NoImages, NoImage
<1>2. Without(room[r], p) \in Image
  BY <1>1 DEF Without, Image
<1>3. QED
  BY <1>1, <1>2 DEF Command, Without, Image, Active, TypeOK

(* Every action of a client or of the automation is a command in that      *)
(* sense.                                                                  *)
LEMMA CommandFacts ==
    ASSUME Base, ClientCommand
    PROVE  \E r \in Room, i \in Image, steps \in Seq(Step) : Command(r, i, steps)
<1> USE DEF Base
<1>a. ASSUME NEW r \in Room, Idle(r)
      PROVE  /\ r \notin todo /\ proc # "down" /\ room[r] \in Image /\ room[r].gone \subseteq room[r].members
             /\ room[r].phase \in {"waiting", "playing", "settled"} /\ pending[r] = <<>>
  BY <1>a DEF TypeOK, InMemory, NoImages, NoImage, Idle, Live
<1>b. ASSUME NEW r \in Room, Idle(r), Handled(r, room[r], <<Save>>),
             online' \subseteq Player, lastMatch' = lastMatch, announced' = announced
      PROVE  Command(r, room[r], <<Save>>)
  BY <1>a, <1>b DEF Command
<1>c. ASSUME NEW p \in Player, NEW r \in Room, Remove(p, r), Idle(r)
      PROVE  \E i \in Image, steps \in Seq(Step) : Command(r, i, steps)
  BY <1>c, RemoveFacts, StepsTyped DEF Command
<1>1. ASSUME NEW p \in Player, NEW r \in Room, Create(p, r)
      PROVE  \E i \in Image, steps \in Seq(Step) : Command(r, i, steps)
  <2> DEFINE i == [NoImage EXCEPT !.phase = "waiting", !.members = {p}]
  <2>1. i \in Image /\ i.phase = "waiting" /\ i.members = {p} /\ i.gone = {}
    BY DEF NoImage, Image, NoMatch
  <2>2. room[r] = NoImage /\ pending[r] = <<>> /\ todo = {} /\ proc = "up" /\ ~Seated(p)
    BY <1>1 DEF Create, InMemory, Serving
  <2>3. Active(room[r]) = {} /\ Active(i) = {p}
    BY <2>1, <2>2 DEF Active, NoImage
  <2>4. online' \subseteq Player /\ lastMatch' = lastMatch /\ announced' = announced /\ Handled(r, i, <<Save>>)
    BY <1>1 DEF Create, TypeOK
  <2>5. Command(r, i, <<Save>>)
    BY <2>1, <2>2, <2>3, <2>4 DEF Command
  <2> QED BY <2>1, <2>5, StepsTyped
<1>2. ASSUME NEW p \in Player, NEW r \in Room, Join(p, r)
      PROVE  \E i \in Image, steps \in Seq(Step) : Command(r, i, steps)
  <2> DEFINE i == [room[r] EXCEPT !.members = @ \cup {p}]
  <2>1. Idle(r) /\ room[r].phase = "waiting" /\ proc = "up" /\ ~Seated(p)
    BY <1>2 DEF Join, Serving
  <2>2. i \in Image /\ i.phase = "waiting" /\ i.gone \subseteq i.members
    BY <1>a, <2>1 DEF Image
  <2>3. Active(room[r]) \subseteq Active(i) /\ Active(i) \subseteq Active(room[r]) \cup {p}
    BY <1>a, <2>1 DEF Active, Image
  <2>4. online' \subseteq Player /\ lastMatch' = lastMatch /\ announced' = announced /\ Handled(r, i, <<Save>>)
    BY <1>2 DEF Join, TypeOK
  <2>5. Command(r, i, <<Save>>)
    BY <1>a, <2>1, <2>2, <2>3, <2>4 DEF Command
  <2> QED BY <2>2, <2>5, StepsTyped
<1>3. ASSUME NEW p \in Player, NEW r \in Room, Leave(p, r) \/ Kick(p, r)
      PROVE  \E i \in Image, steps \in Seq(Step) : Command(r, i, steps)
  BY <1>3, <1>c DEF Leave, Kick
<1>4. ASSUME NEW p \in Player, NEW r \in Room, Abandon(p, r)
      PROVE  \E i \in Image, steps \in Seq(Step) : Command(r, i, steps)
  <2> DEFINE i == [room[r] EXCEPT !.gone = @ \cup {p}]
  <2>1. Idle(r) /\ room[r].phase = "playing" /\ p \in Active(room[r])
    BY <1>4 DEF Abandon
  <2>2. i \in Image /\ i.phase = "playing" /\ i.gone \subseteq i.members /\ i.match = room[r].match
    BY <1>a, <2>1 DEF Image, Active
  <2>3. Active(i) = Active(room[r]) \ {p}
    BY <1>a, <2>1 DEF Active, Image
  <2>4. online' \subseteq Player /\ lastMatch' = lastMatch /\ announced' = announced
        /\ Handled(r, i, <<Clear(p), Save>>)
    BY <1>4 DEF Abandon, TypeOK
  <2>5. Command(r, i, <<Clear(p), Save>>)
    BY <1>a, <2>1, <2>2, <2>3, <2>4 DEF Command
  <2> QED BY <2>2, <2>5, StepsTyped
<1>5. ASSUME NEW p \in Player, NEW r \in Room, Reconnect(p, r)
      PROVE  \E i \in Image, steps \in Seq(Step) : Command(r, i, steps)
  <2>1. Command(r, room[r], <<Save>>)
    BY <1>5, <1>b DEF Reconnect, TypeOK
  <2> QED BY <1>5, <1>a, <2>1, StepsTyped DEF Reconnect
<1>6. ASSUME NEW p \in Player, Disconnect(p)
      PROVE  \E r \in Room, i \in Image, steps \in Seq(Step) : Command(r, i, steps)
  <2> PICK r \in Room :
        /\ Idle(r)
        /\ IF room[r].phase = "playing"
           THEN /\ Handled(r, room[r], <<Save>>)
                /\ online' = online \ {p}
                /\ UNCHANGED <<lastMatch, announced>>
           ELSE Remove(p, r)
    BY <1>6 DEF Disconnect
  <2>1. CASE room[r].phase = "playing"
    <3>1. Command(r, room[r], <<Save>>)
      BY <2>1, <1>b DEF TypeOK
    <3> QED BY <1>a, <3>1, StepsTyped
  <2>2. CASE room[r].phase # "playing"
    BY <2>2, <1>c
  <2> QED BY <2>1, <2>2
<1>7. ASSUME NEW r \in Room, OtherCommand(r) \/ AutomatedMove(r)
      PROVE  \E i \in Image, steps \in Seq(Step) : Command(r, i, steps)
  <2>1. Command(r, room[r], <<Save>>) /\ Idle(r)
    BY <1>7, <1>b DEF OtherCommand, AutomatedMove, TypeOK
  <2> QED BY <1>a, <2>1, StepsTyped
<1>8. ASSUME NEW r \in Room, RoundEnds(r)
      PROVE  \E i \in Image, steps \in Seq(Step) : Command(r, i, steps)
  <2>1. PICK w \in room[r].members :
          /\ Handled(r, [room[r] EXCEPT !.phase = "settled"], <<Finish(w), Save>>)
          /\ announced' = [announced EXCEPT ![room[r].match] = @ \cup {w}]
    BY <1>8 DEF RoundEnds
  <2> DEFINE i == [room[r] EXCEPT !.phase = "settled"]
  <2>2. Idle(r) /\ room[r].phase = "playing" /\ online' = online /\ lastMatch' = lastMatch
    BY <1>8 DEF RoundEnds
  <2>3. /\ i \in Image /\ i.phase = "settled" /\ i.gone \subseteq i.members /\ i.match = room[r].match
        /\ w \in Player /\ Active(i) = Active(room[r])
    BY <1>a, <2>2 DEF Image, Active
  <2>4. Command(r, i, <<Finish(w), Save>>)
    BY <1>a, <2>1, <2>2, <2>3 DEF Command, TypeOK
  <2> QED BY <2>3, <2>4, StepsTyped
<1>9. ASSUME NEW r \in Room, EmptyRoomTimeout(r)
      PROVE  \E i \in Image, steps \in Seq(Step) : Command(r, i, steps)
  <2> DEFINE i == [room[r] EXCEPT !.phase = "destroyed"]
  <2>1. Idle(r) /\ Handled(r, i, <<Save>>) /\ UNCHANGED <<online, lastMatch, announced>>
    BY <1>9 DEF EmptyRoomTimeout
  <2>2. /\ i \in Image /\ i.phase = "destroyed" /\ i.gone \subseteq i.members
        /\ Active(i) = Active(room[r])
    BY <1>a, <2>1 DEF Image, Active
  <2>3. Command(r, i, <<Save>>)
    BY <1>a, <2>1, <2>2 DEF Command, TypeOK
  <2> QED BY <2>2, <2>3, StepsTyped
<1>10. QED
  BY <1>1, <1>2, <1>3, <1>4, <1>5, <1>6, <1>7, <1>8, <1>9 DEF ClientCommand

(* A room into which only players without a seat come keeps every player   *)
(* to one seat.                                                            *)
LEMMA OneSeatKept ==
    ASSUME Base, NEW r \in Room, NEW i, room' = [room EXCEPT ![r] = i],
           room[r].phase # "destroyed",
           \A p \in Active(i) : p \in Active(room[r]) \/ ~Seated(p)
    PROVE  OneSeat'
<1> USE DEF Base
<1> SUFFICES ASSUME NEW q \in Room, NEW s \in Room, NEW p \in Player,
                    room'[q].phase # "destroyed", room'[s].phase # "destroyed",
                    p \in Active(room'[q]), p \in Active(room'[s]), q # s
             PROVE  FALSE
  BY DEF OneSeat, Active
<1>1. ASSUME NEW t \in Room, t # r, room'[t].phase # "destroyed", p \in Active(room'[t]), p \in Active(i)
      PROVE  FALSE
  <2>1. room'[t] = room[t] /\ room'[r] = i /\ room[t].phase # "none"
    BY <1>1, NoImageFacts DEF TypeOK, InMemory
  <2>2. Seated(p)
    BY <2>1, <1>1 DEF Seated
  <2> QED BY <2>1, <2>2, <1>1 DEF OneSeat
<1>2. room'[r] = i /\ (\A t \in Room : t # r => room'[t] = room[t])
  BY DEF TypeOK
<1>3. CASE q = r
  BY <1>1, <1>2, <1>3
<1>4. CASE s = r
  BY <1>1, <1>2, <1>4
<1>5. CASE q # r /\ s # r
  BY <1>2, <1>5 DEF OneSeat
<1> QED BY <1>3, <1>4, <1>5

(* A command keeps the basic invariant.                                    *)
LEMMA CommandBase ==
    ASSUME Base, NEW r \in Room, NEW i \in Image, NEW steps \in Seq(Step), Command(r, i, steps)
    PROVE  Base'
<1> USE DEF Base, Command, Handled, redis, mysql
<1>1. TypeOK'
  BY DEF TypeOK
<1>2. announced' \in [Match -> SUBSET Player]
  OBVIOUS
<1>3. Shapes'
  BY DEF TypeOK, Shapes
<1>4. InMemory'
  <2>1. steps # <<>>
    BY DEF Save
  <2> QED BY <2>1 DEF TypeOK, InMemory, Image
<1>5. OneSeat'
  BY OneSeatKept DEF InMemory
<1>6. QED
  BY <1>1, <1>2, <1>3, <1>4, <1>5

(* A call of a store that fails is counted within the bound.               *)
LEMMA FailureFacts ==
    ASSUME TypeOK, Fails \/ UNCHANGED failures
    PROVE  failures' \in 0 .. MaxFailures
BY PersistenceAssumption DEF TypeOK, Fails

(* The start of a round, recorded or refused, keeps the basic invariant.   *)
LEMMA StartBase ==
    ASSUME Base, NEW r \in Room, Start(r) \/ StartRefused(r)
    PROVE  Base'
<1> USE DEF Base, redis, mysql, history
<1>1. CanStart(r) /\ lastMatch' = lastMatch + 1 /\ pending' = [pending EXCEPT ![r] = <<Save>>]
      /\ UNCHANGED <<proc, todo, online, stopped, redis, history, matchWinner>>
  BY DEF Start, StartRefused, InsertMatch
<1>2. room[r].phase = "waiting" /\ pending[r] = <<>> /\ room[r] \in Image
  BY <1>1 DEF CanStart, Idle, TypeOK
<1>3. lastMatch' \in Match
  BY <1>1, PersistenceAssumption DEF CanStart, TypeOK, Match
<1>4. failures' \in 0 .. MaxFailures
  BY FailureFacts DEF Start, StartRefused
<1>5. room' = room \/ room' = [room EXCEPT ![r] = InRound(r, lastMatch')]
  BY DEF Start, StartRefused
<1>6. \/ UNCHANGED <<matchStatus, matchRoom>>
      \/ /\ matchStatus' = [matchStatus EXCEPT ![lastMatch'] = "playing"]
         /\ matchRoom' = [matchRoom EXCEPT ![lastMatch'] = r]
  BY DEF Start, StartRefused, InsertMatch
<1>7. /\ InRound(r, lastMatch') \in Image /\ InRound(r, lastMatch').phase = "playing"
      /\ InRound(r, lastMatch').gone = room[r].gone /\ InRound(r, lastMatch').members = room[r].members
  BY <1>2, <1>3 DEF InRound, Image
<1>8. Active(InRound(r, lastMatch')) = Active(room[r])
  BY <1>7 DEF Active
<1>9. TypeOK'
  <2>1. room' \in [Room -> Image] /\ \A q \in Room : room'[q].gone \subseteq room'[q].members
    BY <1>5, <1>7 DEF TypeOK
  <2>2. pending' \in [Room -> Seq(Step)]
    BY <1>1, StepsTyped DEF TypeOK
  <2>3. /\ matchStatus' \in [Match -> {"absent", "playing", "finished"}]
        /\ matchRoom' \in [Match -> Room \cup {NoRoom}]
    BY <1>3, <1>6 DEF TypeOK
  <2> QED BY <1>1, <1>3, <1>4, <2>1, <2>2, <2>3 DEF TypeOK
<1>10. Shapes'
  BY <1>1 DEF TypeOK, Shapes
<1>11. InMemory'
  <2>1. r \notin todo /\ proc # "down"
    BY <1>2, NoImageFacts DEF InMemory
  <2>2. \A q \in Room : q # r => room'[q] = room[q] /\ pending'[q] = pending[q]
    BY <1>1, <1>5 DEF TypeOK
  <2>3. room'[r].phase \in {"waiting", "playing"} /\ pending'[r] # <<>>
    BY <1>1, <1>2, <1>5, <1>7 DEF TypeOK, Save
  <2> QED BY <1>1, <2>1, <2>2, <2>3 DEF InMemory, TypeOK
<1>12. OneSeat'
  <2>1. \A q \in Room : /\ Active(room'[q]) = Active(room[q])
                        /\ room'[q].phase # "destroyed" => room[q].phase # "destroyed"
    BY <1>2, <1>5, <1>7, <1>8 DEF TypeOK
  <2> QED BY <2>1 DEF OneSeat
<1>13. QED
  BY <1>1, <1>9, <1>10, <1>11, <1>12

(* A save finds the room with nothing else to write; it stores the room,   *)
(* deletes what is stored of one that is over, or fails.                   *)
LEMMA SaveStep ==
    ASSUME Base, NEW r \in Room, SyncSnapshot(r)
    PROVE  /\ pending[r] = <<Save>> /\ pending' = [pending EXCEPT ![r] = <<>>]
           /\ room' = IF room[r].phase = "destroyed" THEN [room EXCEPT ![r] = NoImage] ELSE room
           /\ room[r].phase # "none" /\ r \notin todo /\ proc # "down"
           /\ \/ /\ room[r].phase \in {"waiting", "playing"} /\ SaveRoom(r, room[r])
                 /\ copied' = [copied EXCEPT ![r] = TRUE] /\ failures' = failures
              \/ /\ room[r].phase \in {"settled", "destroyed"} /\ DeleteRoom(r, room[r])
                 /\ copied' = [copied EXCEPT ![r] = room[r].phase # "destroyed"] /\ failures' = failures
              \/ Fails /\ redis' = redis /\ copied' = [copied EXCEPT ![r] = FALSE]
           /\ UNCHANGED <<proc, todo, online, stopped, mysql, lastMatch, announced, conflicted, promised>>
<1> USE DEF Base
<1>1. pending[r] = <<Save>> /\ pending' = [pending EXCEPT ![r] = <<>>]
  BY PendingFacts DEF SyncSnapshot, NextStep
<1>2. pending[r] # <<>>
  BY <1>1 DEF Save
<1>3. room[r].phase # "none" /\ r \notin todo /\ proc # "down"
  BY <1>2, NoImageFacts DEF InMemory
<1>4. room[r].phase \in {"waiting", "playing", "settled", "destroyed"}
  BY <1>3 DEF TypeOK, Image
<1>5. room' = IF room[r].phase = "destroyed" THEN [room EXCEPT ![r] = NoImage] ELSE room
  BY DEF SyncSnapshot, TypeOK
<1>6. QED
  BY <1>1, <1>3, <1>4, <1>5 DEF SyncSnapshot

(* What comes before a save either clears the key of one player or enters  *)
(* the result of one match, or fails.                                      *)
LEMMA WriteStep ==
    ASSUME Base, NEW r \in Room, ClearPlayerKey(r) \/ FinishMatch(r)
    PROVE  /\ pending' = [pending EXCEPT ![r] = <<Save>>] /\ pending[r] # <<>>
           /\ \E p \in Player :
                 \/ /\ pending[r] = <<Clear(p), Save>>
                    /\ \/ playerKey' = [playerKey EXCEPT ![p] = IF @ = r THEN NoRoom ELSE @] /\ UNCHANGED failures
                       \/ Fails /\ UNCHANGED playerKey
                    /\ UNCHANGED mysql
                 \/ /\ pending[r] = <<Finish(p), Save>>
                    /\ \/ /\ matchStatus[room[r].match] = "playing"
                          /\ EnterResult(room[r].match, p)
                          /\ Fails \/ UNCHANGED failures
                       \/ matchStatus[room[r].match] # "playing" /\ UNCHANGED <<mysql, failures>>
                       \/ Fails /\ UNCHANGED mysql
                    /\ UNCHANGED playerKey
           /\ UNCHANGED <<proc, todo, room, online, stopped, snap, roomIndex, lastMatch, history>>
<1> USE DEF Base
<1>1. CASE ClearPlayerKey(r)
  <2>1. PICK p \in Player : /\ pending[r] = <<Clear(p), Save>> /\ Tail(pending[r]) = <<Save>>
                            /\ Head(pending[r]).player = p
    BY <1>1, PendingFacts DEF ClearPlayerKey
  <2>2. pending' = [pending EXCEPT ![r] = <<Save>>]
    BY <1>1, <2>1 DEF ClearPlayerKey, NextStep
  <2> QED BY <1>1, <2>1, <2>2 DEF ClearPlayerKey
<1>2. CASE FinishMatch(r)
  <2>1. PICK p \in Player : /\ pending[r] = <<Finish(p), Save>> /\ Tail(pending[r]) = <<Save>>
                            /\ Head(pending[r]).player = p
    BY <1>2, PendingFacts DEF FinishMatch
  <2>2. pending' = [pending EXCEPT ![r] = <<Save>>]
    BY <1>2, <2>1 DEF FinishMatch, NextStep
  <2> QED BY <1>2, <2>1, <2>2 DEF FinishMatch, redis
<1>3. QED
  BY <1>1, <1>2

(* Clearing a key and entering a result keep the basic invariant.          *)
LEMMA WriteBase ==
    ASSUME Base, NEW r \in Room, ClearPlayerKey(r) \/ FinishMatch(r)
    PROVE  Base'
<1> USE DEF Base, mysql, history
<1>1. failures' \in 0 .. MaxFailures
  BY FailureFacts, WriteStep
<1>2. pending' = [pending EXCEPT ![r] = <<Save>>] /\ pending[r] # <<>>
      /\ UNCHANGED <<proc, todo, room, online, stopped, snap, roomIndex, lastMatch, history>>
  BY WriteStep
<1>3. playerKey' \in [Player -> Room \cup {NoRoom}]
  <2>1. CASE UNCHANGED playerKey
    BY <2>1 DEF TypeOK
  <2>2. CASE \E p \in Player : playerKey' = [playerKey EXCEPT ![p] = IF @ = r THEN NoRoom ELSE @]
    BY <2>2 DEF TypeOK
  <2> QED BY <2>1, <2>2, WriteStep
<1>4. /\ matchStatus' \in [Match -> {"absent", "playing", "finished"}]
      /\ matchRoom' \in [Match -> Room \cup {NoRoom}]
      /\ matchWinner' \in [Match -> SUBSET Player]
  <2>1. CASE UNCHANGED mysql
    BY <2>1 DEF TypeOK
  <2>2. CASE \E p \in Player : EnterResult(room[r].match, p)
    <3> PICK p \in Player : EnterResult(room[r].match, p)
      BY <2>2
    <3>1. {p} \in SUBSET Player
      OBVIOUS
    <3> QED BY <3>1 DEF TypeOK, EnterResult
  <2> QED BY <2>1, <2>2, WriteStep
<1>5. TypeOK'
  BY <1>1, <1>2, <1>3, <1>4, StepsTyped DEF TypeOK
<1>6. Shapes'
  BY <1>2 DEF TypeOK, Shapes
<1>7. InMemory' /\ OneSeat'
  BY <1>2 DEF TypeOK, InMemory, OneSeat, Save
<1>8. QED BY <1>2, <1>5, <1>6, <1>7

(* A save keeps the basic invariant.                                       *)
LEMMA SaveBase ==
    ASSUME Base, NEW r \in Room, SyncSnapshot(r)
    PROVE  Base'
<1> USE DEF Base, redis, mysql, history
<1>1. failures' \in 0 .. MaxFailures
  BY FailureFacts, SaveStep
<1>2. /\ snap' \in [Room -> Image] /\ \A q \in Room : q # r => snap'[q] = snap[q]
      /\ \A q \in Room : snap'[q].phase \in {"none", "waiting", "playing"}
      /\ snap'[r] = NoImage \/ r \in roomIndex' \/ UNCHANGED <<snap, roomIndex>>
  <2>1. CASE room[r].phase \in {"waiting", "playing"} /\ SaveRoom(r, room[r])
    BY <2>1 DEF SaveRoom, TypeOK
  <2>2. CASE DeleteRoom(r, room[r])
    BY <2>2, NoImageFacts DEF DeleteRoom, TypeOK
  <2>3. CASE UNCHANGED redis
    BY <2>3 DEF TypeOK
  <2> QED BY <2>1, <2>2, <2>3, SaveStep
<1>3. roomIndex' \in SUBSET Room /\ roomIndex \ {r} \subseteq roomIndex'
  <2>1. roomIndex' \in {roomIndex, roomIndex \cup {r}, roomIndex \ {r}}
    BY SaveStep DEF SaveRoom, DeleteRoom
  <2> QED BY <2>1 DEF TypeOK
<1>4. playerKey' \in [Player -> Room \cup {NoRoom}]
  BY SaveStep DEF SaveRoom, DeleteRoom, TypeOK
<1>5. room' = IF room[r].phase = "destroyed" THEN [room EXCEPT ![r] = NoImage] ELSE room
  BY SaveStep
<1>6. /\ pending[r] = <<Save>> /\ pending' = [pending EXCEPT ![r] = <<>>]
      /\ room[r].phase # "none" /\ r \notin todo /\ proc # "down"
      /\ UNCHANGED <<proc, todo, online, stopped, mysql, lastMatch, announced, conflicted, promised>>
      /\ copied' \in [Room -> BOOLEAN]
  BY SaveStep
<1>7. TypeOK'
  <2>1. room' \in [Room -> Image] /\ \A q \in Room : room'[q].gone \subseteq room'[q].members
    BY <1>5, NoImageFacts DEF TypeOK
  <2>2. pending' \in [Room -> Seq(Step)]
    BY <1>6 DEF TypeOK
  <2>3. {q \in Room : snap'[q] # NoImage} \subseteq roomIndex'
    BY <1>2, <1>3 DEF TypeOK
  <2> QED BY <1>1, <1>2, <1>3, <1>4, <1>6, <2>1, <2>2, <2>3 DEF TypeOK
<1>8. Shapes' /\ OneSeat'
  BY <1>5, <1>6, NoImageFacts DEF TypeOK, Shapes, OneSeat
<1>9. InMemory'
  <2>1. \A q \in Room : room'[q] = room[q] \/ (q = r /\ room'[q] = NoImage)
    BY <1>5 DEF TypeOK
  <2>2. \A q \in Room : q # r => pending'[q] = pending[q] /\ room'[q] = room[q]
    BY <1>5, <1>6 DEF TypeOK
  <2>3. pending'[r] = <<>> /\ room'[r].phase # "destroyed"
    BY <1>5, <1>6, NoImageFacts DEF TypeOK
  <2>4. snap' = snap \/ \E i \in {room[r], NoImage} : snap' = [snap EXCEPT ![r] = i]
    BY SaveStep DEF SaveRoom, DeleteRoom
  <2>5. \A q \in Room : /\ snap'[q].gone \subseteq snap'[q].members
                        /\ snap'[q].phase = "none" => snap'[q] = NoImage
    <3>1. \A q \in Room : snap'[q] \in {snap[q], room[r], NoImage}
      BY <2>4 DEF TypeOK
    <3>2. \A i \in {room[r], NoImage} : i.gone \subseteq i.members /\ (i.phase = "none" => i = NoImage)
      BY NoImageFacts DEF InMemory, TypeOK
    <3>3. \A q \in Room : snap[q].gone \subseteq snap[q].members /\ (snap[q].phase = "none" => snap[q] = NoImage)
      BY DEF InMemory, TypeOK
    <3> QED BY <3>1, <3>2, <3>3
  <2> QED BY <1>2, <1>6, <2>1, <2>2, <2>3, <2>5, NoImageFacts DEF InMemory, TypeOK
<1>10. QED BY <1>6, <1>7, <1>8, <1>9

(* A snapshot that expires keeps the basic invariant.                      *)
LEMMA ExpireBase ==
    ASSUME Base, NEW r \in Room, Expire(r)
    PROVE  Base'
<1> USE DEF Base, Expire, mysql, ids, memory
<1>1. TypeOK' /\ promised' \in [Room -> Image]
  BY NoImageFacts DEF TypeOK
<1>2. Shapes' /\ OneSeat'
  BY DEF OneSeat, Shapes
<1>3. InMemory'
  BY NoImageFacts DEF TypeOK, InMemory
<1>4. QED BY <1>1, <1>2, <1>3

(* Stopping a room keeps the basic invariant.                              *)
LEMMA StopBase ==
    ASSUME Base, NEW r \in Room, Stop(r)
    PROVE  Base'
<1> USE DEF Base, Stop, redis, mysql, history, ids
<1>1. TypeOK'
  BY StepsTyped DEF TypeOK
<1>2. Shapes' /\ OneSeat'
  BY DEF OneSeat, Shapes, TypeOK
<1>3. InMemory'
  BY NoImageFacts DEF TypeOK, InMemory, Idle, Live, Save
<1>4. QED BY <1>1, <1>2, <1>3

(* The death of the process, its shutdown and its start keep the basic     *)
(* invariant.                                                              *)
LEMMA ProcessBase ==
    ASSUME Base, Crash \/ Exit \/ ConnectionsClosed \/ LoadSnapshots \/ StartServing
    PROVE  Base'
<1> USE DEF Base, redis, mysql, history, ids, memory
<1>1. CASE Crash \/ Exit
  <2> USE DEF MemoryLost
  <2>1. MemoryLost
    BY <1>1 DEF Crash, Exit
  <2>2. <<>> \in Seq(Step)
    OBVIOUS
  <2>3. TypeOK' /\ promised' \in [Room -> Image]
    BY NoImageFacts, <2>1, <2>2 DEF TypeOK
  <2>4. Shapes' /\ InMemory' /\ OneSeat'
    BY NoImageFacts, <2>1 DEF Shapes, InMemory, OneSeat, NoImages
  <2> QED BY <2>1, <2>3, <2>4
<1>2. CASE ConnectionsClosed
  BY <1>2 DEF ConnectionsClosed, TypeOK, Shapes, InMemory, OneSeat
<1>3. CASE LoadSnapshots
  <2>1. TypeOK'
    BY <1>3 DEF LoadSnapshots, TypeOK
  <2>2. Shapes' /\ InMemory' /\ OneSeat'
    BY <1>3, NoImageFacts DEF LoadSnapshots, Shapes, InMemory, OneSeat, NoImages, TypeOK
  <2> QED BY <1>3, <2>1, <2>2 DEF LoadSnapshots
<1>4. CASE StartServing
  <2>1. TypeOK' /\ promised' \in [Room -> Image]
    BY <1>4, NoImageFacts DEF StartServing, TypeOK
  <2>2. Shapes' /\ InMemory' /\ OneSeat'
    BY <1>4, NoImageFacts DEF StartServing, Shapes, InMemory, OneSeat
  <2> QED BY <1>4, <2>1, <2>2 DEF StartServing
<1>5. QED BY <1>1, <1>2, <1>3, <1>4

(* A restored record is one that was still to do: the one with the least   *)
(* id.                                                                     *)
LEMMA RestoreStep ==
    ASSUME Base, RestoreRecord
    PROVE  \E r \in todo :
              /\ todo' = todo \ {r} /\ proc = "restoring"
              /\ IF \E p \in Active(snap[r]) : Seated(p) THEN Discarded(r) ELSE Restored(r)
              /\ UNCHANGED <<proc, online, stopped, mysql, lastMatch, announced, copied, promised>>
<1>1. todo \subseteq Nat /\ todo # {}
  BY PersistenceAssumption DEF Base, TypeOK, RestoreRecord
<1>2. Min(todo) \in todo
  BY <1>1, NaturalMinimum
<1>3. QED
  BY <1>2 DEF RestoreRecord

(* A record that is restored, or thrown away as a conflict, keeps the      *)
(* basic invariant.                                                        *)
LEMMA RestoreBase ==
    ASSUME Base, NEW r \in todo, todo' = todo \ {r}, proc = "restoring",
           IF \E p \in Active(snap[r]) : Seated(p) THEN Discarded(r) ELSE Restored(r),
           UNCHANGED <<proc, online, stopped, mysql, lastMatch, announced, copied, promised>>
    PROVE  Base'
<1> USE DEF Base, redis, mysql
<1>0. /\ r \in Room /\ room[r] = NoImage /\ snap[r] # NoImage /\ snap[r] \in Image
      /\ snap[r].phase \in {"waiting", "playing"} /\ snap[r].gone \subseteq snap[r].members
  BY DEF TypeOK, InMemory
<1>1. CASE Restored(r) /\ ~\E p \in Active(snap[r]) : Seated(p)
  <2>1. TypeOK'
    <3>1. room' \in [Room -> Image] /\ \A q \in Room : room'[q].gone \subseteq room'[q].members
      BY <1>0, <1>1 DEF Restored, TypeOK
    <3>2. pending' \in [Room -> Seq(Step)]
      BY <1>0, <1>1, StepsTyped DEF Restored, TypeOK
    <3> QED BY <1>1, <3>1, <3>2 DEF Restored, TypeOK
  <2>2. Shapes'
    BY <1>1 DEF Restored, Shapes, TypeOK
  <2>3. InMemory'
    <3>1. \A q \in Room : q # r => room'[q] = room[q] /\ pending'[q] = pending[q]
      BY <1>0, <1>1 DEF Restored, TypeOK
    <3>2. room'[r].phase \in {"waiting", "playing"} /\ pending'[r] # <<>> /\ room'[r] = snap[r]
      BY <1>0, <1>1 DEF Restored, TypeOK, Save
    <3> QED BY <1>0, <1>1, <3>1, <3>2 DEF Restored, InMemory, TypeOK
  <2>4. OneSeat'
    BY <1>0, <1>1, OneSeatKept, NoImageFacts DEF Restored, Active
  <2> QED BY <1>1, <2>1, <2>2, <2>3, <2>4 DEF Restored
<1>2. CASE Discarded(r)
  <2>1. /\ UNCHANGED <<room, pending>> /\ conflicted' = conflicted \cup Active(snap[r])
        /\ \/ snap' = snap /\ roomIndex' = roomIndex
           \/ snap' = [snap EXCEPT ![r] = NoImage] /\ roomIndex' = roomIndex \ {r}
        /\ failures' = failures \/ Fails
    BY <1>2 DEF Discarded
  <2>2. playerKey' \in [Player -> Room \cup {NoRoom}]
    BY <1>0, <1>2 DEF Discarded, TypeOK
  <2>3. conflicted' \subseteq Player
    BY <1>0, <2>1 DEF Active, Image
  <2>4. failures' \in 0 .. MaxFailures
    BY <2>1, FailureFacts
  <2>5. TypeOK'
    BY <1>0, <2>1, <2>2, <2>4, NoImageFacts DEF TypeOK
  <2>6. Shapes' /\ InMemory' /\ OneSeat'
    <3>1. Shapes' /\ OneSeat'
      BY <2>1 DEF Shapes, OneSeat
    <3>2. InMemory'
      BY <2>1 DEF TypeOK, InMemory
    <3> QED BY <3>1, <3>2
  <2> QED BY <2>1, <2>3, <2>5, <2>6
<1>3. QED BY <1>1, <1>2

(* The basic invariant holds at the start.                                 *)
LEMMA InitBase == Init => Base
<1> SUFFICES ASSUME Init PROVE Base
  OBVIOUS
<1> USE DEF Init
<1>1. TypeOK
  <2>1. <<>> \in Seq(Step) /\ 0 \in 0 .. MaxFailures
    BY PersistenceAssumption
  <2> QED BY NoImageFacts, <2>1 DEF TypeOK
<1>2. Shapes /\ InMemory /\ OneSeat
  BY NoImageFacts DEF Shapes, InMemory, OneSeat
<1>3. QED
  BY <1>1, <1>2, NoImageFacts DEF Base

(* The actions that touch the stores or the process.                       *)
StoreStep ==
    \/ \E r \in Room :
          \/ Start(r) \/ StartRefused(r) \/ ClearPlayerKey(r) \/ FinishMatch(r) \/ SyncSnapshot(r)
          \/ Expire(r) \/ Stop(r)
    \/ Crash \/ ConnectionsClosed \/ Exit
    \/ LoadSnapshots \/ RestoreRecord \/ StartServing

(* Every step is of a command, or of the stores and the process.           *)
LEMMA NextCases == Next <=> ClientCommand \/ StoreStep
BY DEF Next, ClientCommand, StoreStep

(* The basic invariant holds in every state, for every set of players and  *)
(* rooms and every bound on matches and failures.                          *)
THEOREM BaseInvariant == Spec => []Base
<1>1. Base /\ [Next]_vars => Base'
  <2> SUFFICES ASSUME Base, [Next]_vars PROVE Base'
    OBVIOUS
  <2>1. CASE UNCHANGED vars
    BY <2>1 DEF vars, memory, redis, mysql, ids, history, Base, TypeOK, Shapes, InMemory, OneSeat
  <2>2. CASE ClientCommand
    BY <2>2, CommandFacts, CommandBase
  <2>3. CASE StoreStep
    <3>1. CASE RestoreRecord
      BY <3>1, RestoreStep, RestoreBase
    <3> QED BY <2>3, <3>1, StartBase, WriteBase, SaveBase, ExpireBase, StopBase, ProcessBase DEF StoreStep
  <2> QED BY <2>1, <2>2, <2>3, NextCases
<1>2. QED BY InitBase, <1>1, PTL DEF Spec

-----------------------------------------------------------------------------
(* Variables keep their types; a seat that was given up still is one, in   *)
(* memory and in Redis; and every snapshot is listed in the index          *)
(* (room/persistence.go).                                                  *)
THEOREM TypesHold == Spec => []TypeOK
<1>1. Base => TypeOK
  BY DEF Base
<1>2. QED BY <1>1, BaseInvariant, PTL

-----------------------------------------------------------------------------
(* The record of matches.                                                  *)

(* The pending steps tell which command left them and for whom.            *)
LEMMA StepsDiffer ==
    /\ \A p, q \in Player : <<Clear(p), Save>> # <<Finish(q), Save>>
    /\ \A p \in Player : <<Save>> # <<Finish(p), Save>> /\ <<Save>> # <<Clear(p), Save>>
                         /\ <<>> # <<Finish(p), Save>> /\ <<>> # <<Clear(p), Save>>
    /\ \A p, q \in Player : <<Finish(p), Save>> = <<Finish(q), Save>> => p = q
    /\ \A p, q \in Player : <<Clear(p), Save>> = <<Clear(q), Save>> => p = q
<1>1. \A p, q \in Player : /\ Clear(p) # Finish(q) /\ (Clear(p) = Clear(q) => p = q)
                           /\ (Finish(p) = Finish(q) => p = q)
  BY DEF Clear, Finish
<1>2. QED BY <1>1


(* A command keeps the invariant about matches.                            *)
LEMMA CommandMatches ==
    ASSUME Base, Matches, NEW r \in Room, NEW i \in Image, NEW steps \in Seq(Step), Command(r, i, steps)
    PROVE  Matches'
<1> USE DEF Base, Command, Handled, redis, mysql, Matches
<1>1. \A q \in Room : q # r => room'[q] = room[q] /\ pending'[q] = pending[q]
  BY DEF TypeOK
<1>2. room'[r] = i /\ pending'[r] = steps
  BY DEF TypeOK
<1>3. \A q \in Room : (MatchOf(q, room[q]) /\ MatchOf(q, snap[q]))'
  BY <1>1, <1>2 DEF MatchOf
<1>4. \A m \in Match : announced[m] \subseteq announced'[m]
  OBVIOUS
<1>5. \A q \in Room, p \in Player :
        pending'[q] = <<Finish(p), Save>> => room'[q].phase = "settled" /\ p \in announced'[room'[q].match]
  <2> SUFFICES ASSUME NEW q \in Room, NEW p \in Player, pending'[q] = <<Finish(p), Save>>
               PROVE  room'[q].phase = "settled" /\ p \in announced'[room'[q].match]
    OBVIOUS
  <2>1. CASE q # r
    BY <1>1, <1>4, <2>1 DEF MatchOf
  <2>2. CASE q = r
    <3>1. /\ i.phase = "settled" /\ room[r].phase = "playing"
          /\ announced' = [announced EXCEPT ![room[r].match] = @ \cup {p}]
      BY <1>2, <2>2, StepsDiffer
    <3>2. room[r].match \in Match /\ i.match = room[r].match
      BY <3>1 DEF MatchOf
    <3> QED BY <1>2, <2>2, <3>1, <3>2
  <2> QED BY <2>1, <2>2
<1>6. failures' = 0 => \A q \in Room :
        room'[q].phase = "settled" /\ (\A p \in Player : pending'[q] # <<Finish(p), Save>>) =>
                matchStatus'[room'[q].match] = "finished"
  BY <1>1, <1>2, StepsDiffer
<1>7. QED
  BY <1>3, <1>5, <1>6

(* A start, whose row is written before the room plays, keeps the          *)
(* invariant about matches.                                                *)
LEMMA StartMatches ==
    ASSUME Base, Matches, NEW r \in Room, Start(r) \/ StartRefused(r)
    PROVE  Matches'
<1> USE DEF Base, Matches, redis, mysql, history
<1>1. /\ CanStart(r) /\ lastMatch' = lastMatch + 1 /\ pending' = [pending EXCEPT ![r] = <<Save>>]
      /\ UNCHANGED <<snap, announced>> /\ (failures = failures' \/ failures' # 0)
  BY DEF Start, StartRefused, Fails, TypeOK
<1>2. room[r].phase = "waiting" /\ pending[r] = <<>>
  BY <1>1 DEF CanStart, Idle
<1>3. lastMatch' \in Match /\ matchStatus[lastMatch'] = "absent"
  BY <1>1, PersistenceAssumption DEF CanStart, TypeOK, Match
<1>4. \/ room' = room /\ UNCHANGED <<matchStatus, matchRoom>>
      \/ /\ room' = room \/ room' = [room EXCEPT ![r] = InRound(r, lastMatch')]
         /\ matchStatus' = [matchStatus EXCEPT ![lastMatch'] = "playing"]
         /\ matchRoom' = [matchRoom EXCEPT ![lastMatch'] = r]
  BY DEF Start, StartRefused, InsertMatch
<1>5. /\ InRound(r, lastMatch').phase = "playing" /\ InRound(r, lastMatch').match = lastMatch'
      /\ InRound(r, lastMatch') \in Image
  <2> room[r] \in Image
    BY DEF TypeOK
  <2> QED BY <1>3 DEF InRound, Image
<1>6. \A q \in Room : (MatchOf(q, room[q]) /\ MatchOf(q, snap[q]))'
  <2> SUFFICES ASSUME NEW q \in Room PROVE (MatchOf(q, room[q]) /\ MatchOf(q, snap[q]))'
    OBVIOUS
  <2>1. ASSUME NEW i, MatchOf(q, i) PROVE MatchOf(q, i)'
    BY <1>3, <1>4, <2>1 DEF MatchOf, TypeOK
  <2>2. room'[q] = room[q] \/ MatchOf(q, room[q])'
    BY <1>3, <1>4, <1>5 DEF MatchOf, TypeOK
  <2> QED BY <1>1, <2>1, <2>2 DEF MatchOf
<1>6b. \A m \in Match : m > lastMatch' => matchStatus'[m] = "absent"
  <2> SUFFICES ASSUME NEW m \in Match, m > lastMatch' PROVE matchStatus'[m] = "absent"
    OBVIOUS
  <2>1. m > lastMatch /\ m # lastMatch'
    BY <1>1 DEF TypeOK, Match
  <2> QED BY <2>1, <1>4 DEF TypeOK
<1>7. \A q \in Room : q # r => room'[q] = room[q] /\ pending'[q] = pending[q]
  BY <1>1, <1>4 DEF TypeOK
<1>8. pending'[r] = <<Save>> /\ room'[r].phase # "settled"
  BY <1>1, <1>2, <1>4, <1>5 DEF TypeOK
<1>9. \A q \in Room, p \in Player :
        pending'[q] = <<Finish(p), Save>> => room'[q].phase = "settled" /\ p \in announced'[room'[q].match]
  BY <1>1, <1>7, <1>8, StepsDiffer
<1>10. failures' = 0 => \A q \in Room :
        room'[q].phase = "settled" /\ (\A p \in Player : pending'[q] # <<Finish(p), Save>>) =>
                matchStatus'[room'[q].match] = "finished"
  <2> SUFFICES ASSUME failures' = 0, NEW q \in Room, room'[q].phase = "settled",
                      \A p \in Player : pending'[q] # <<Finish(p), Save>>
               PROVE matchStatus'[room'[q].match] = "finished"
    OBVIOUS
  <2>1. q # r /\ matchStatus[room[q].match] = "finished" /\ room'[q] = room[q] /\ room[q].match \in Match
    BY <1>1, <1>7, <1>8 DEF MatchOf
  <2> QED BY <2>1, <1>3, <1>4 DEF TypeOK
<1>11. QED
  BY <1>6, <1>6b, <1>9, <1>10

(* Clearing a key and entering a result keep the invariant about matches.  *)
LEMMA WriteMatches ==
    ASSUME Base, Matches, NEW r \in Room, ClearPlayerKey(r) \/ FinishMatch(r)
    PROVE  Matches'
<1> USE DEF Base, Matches, mysql, history
<1>1. /\ pending' = [pending EXCEPT ![r] = <<Save>>]
      /\ UNCHANGED <<room, snap, announced, lastMatch>> /\ (failures' = failures \/ Fails)
  BY WriteStep
<1>2. PICK p \in Player :
         \/ pending[r] = <<Clear(p), Save>> /\ UNCHANGED mysql
         \/ /\ pending[r] = <<Finish(p), Save>>
            /\ \/ /\ matchStatus[room[r].match] = "playing"
                  /\ EnterResult(room[r].match, p)
               \/ matchStatus[room[r].match] # "playing" /\ UNCHANGED mysql
               \/ Fails /\ UNCHANGED mysql
  BY WriteStep
<1>3. UNCHANGED matchRoom /\ \A m \in Match : /\ matchStatus'[m] = "absent" <=> matchStatus[m] = "absent"
                                              /\ matchStatus[m] = "finished" => matchStatus'[m] = "finished"
  BY <1>2 DEF EnterResult, TypeOK
<1>4. \A q \in Room : (MatchOf(q, room[q]) /\ MatchOf(q, snap[q]))'
  BY <1>1, <1>3 DEF MatchOf
<1>5. \A q \in Room, w \in Player :
        pending'[q] = <<Finish(w), Save>> => room'[q].phase = "settled" /\ w \in announced'[room'[q].match]
  BY <1>1, StepsDiffer DEF TypeOK
<1>6. ASSUME failures' = 0, NEW q \in Room, room[q].phase = "settled",
             \A w \in Player : pending'[q] # <<Finish(w), Save>>
      PROVE  matchStatus'[room[q].match] = "finished"
  <2>1. failures = 0 /\ ~Fails /\ room[q].match \in Match /\ matchStatus[room[q].match] # "absent"
    BY <1>1, <1>6 DEF Fails, TypeOK, MatchOf
  <2>2. CASE q # r
    BY <1>1, <1>3, <1>6, <2>1, <2>2 DEF TypeOK
  <2>3. CASE q = r /\ pending[r] = <<Clear(p), Save>>
    BY <1>3, <1>6, <2>1, <2>3, StepsDiffer
  <2>4. CASE q = r /\ pending[r] = <<Finish(p), Save>>
    <3>1. matchStatus[room[q].match] \in {"playing", "finished"}
      BY <2>1 DEF TypeOK
    <3> QED BY <1>2, <2>1, <2>4, <3>1, StepsDiffer DEF EnterResult, TypeOK
  <2> QED BY <1>2, <2>2, <2>3, <2>4
<1>7. QED
  BY <1>1, <1>3, <1>4, <1>5, <1>6

(* A step that leaves the record of matches alone, and every room and      *)
(* snapshot as it was, as another image of the same round or empty, keeps  *)
(* the invariant.                                                          *)
LEMMA MatchesKept ==
    ASSUME Base, Matches, UNCHANGED <<mysql, lastMatch, announced>>, failures' = 0 => failures = 0,
           \A q \in Room : snap'[q] \in {snap[q], room[q], NoImage},
           \A q \in Room :
              \/ pending'[q] = pending[q] /\ room'[q] = room[q]
              \/ /\ pending'[q] \in {<<>>, <<Save>>} /\ pending[q] \in {<<>>, <<Save>>}
                 /\ room'[q] = room[q]
              \/ pending'[q] \in {<<>>, <<Save>>} /\ room'[q] \in {NoImage, snap[q]}
    PROVE  Matches'
<1> USE DEF Base, Matches, mysql
<1>1. \A q \in Room : (MatchOf(q, room[q]) /\ MatchOf(q, snap[q]))'
  BY NoImageFacts DEF MatchOf
<1>2. \A q \in Room : snap[q].phase # "settled"
  BY DEF TypeOK
<1>3. \A q \in Room, p \in Player :
        pending'[q] = <<Finish(p), Save>> => room'[q].phase = "settled" /\ p \in announced'[room'[q].match]
  BY StepsDiffer
<1>4. ASSUME failures' = 0, NEW q \in Room, room'[q].phase = "settled",
             \A p \in Player : pending'[q] # <<Finish(p), Save>>
      PROVE  matchStatus[room'[q].match] = "finished"
  <2>1. room'[q] = room[q] /\ \A p \in Player : pending[q] # <<Finish(p), Save>>
    BY <1>2, <1>4, NoImageFacts, StepsDiffer
  <2> QED BY <1>4, <2>1
<1>5. QED
  BY <1>1, <1>3, <1>4

(* A save keeps the invariant about matches.                               *)
LEMMA SaveMatches ==
    ASSUME Base, Matches, NEW r \in Room, SyncSnapshot(r)
    PROVE  Matches'
<1>1. /\ pending[r] = <<Save>> /\ pending' = [pending EXCEPT ![r] = <<>>]
      /\ UNCHANGED <<mysql, announced, lastMatch>>
      /\ room' = IF room[r].phase = "destroyed" THEN [room EXCEPT ![r] = NoImage] ELSE room
  BY SaveStep DEF mysql
<1>2. failures' = 0 => failures = 0
  BY SaveStep DEF Fails, Base, TypeOK
<1>3. \A q \in Room : snap'[q] \in {snap[q], room[q], NoImage}
  <2>1. CASE SaveRoom(r, room[r])
    BY <2>1 DEF SaveRoom, Base, TypeOK
  <2>2. CASE DeleteRoom(r, room[r])
    BY <2>2 DEF DeleteRoom, Base, TypeOK
  <2>3. CASE UNCHANGED redis
    BY <2>3 DEF redis
  <2> QED BY <2>1, <2>2, <2>3, SaveStep
<1>4. \A q \in Room : \/ /\ q = r /\ pending'[q] = <<>> /\ pending[q] = <<Save>>
                         /\ room'[q] \in {room[q], NoImage}
                      \/ pending'[q] = pending[q] /\ room'[q] = room[q]
  BY <1>1 DEF Base, TypeOK
<1>5. QED
  BY <1>1, <1>2, <1>3, <1>4, MatchesKept

(* Expiry, shutdown, crash and start keep the invariant about matches.     *)
LEMMA OtherMatches ==
    ASSUME Base, Matches,
           \/ \E r \in Room : Expire(r) \/ Stop(r)
           \/ Crash \/ ConnectionsClosed \/ Exit \/ LoadSnapshots \/ StartServing
    PROVE  Matches'
<1> USE DEF Base, redis, mysql, history, ids, memory
<1>1. UNCHANGED <<mysql, lastMatch, announced, failures>>
  BY DEF Expire, Stop, Crash, Exit, MemoryLost, ConnectionsClosed, LoadSnapshots, StartServing
<1>2. \A q \in Room : snap'[q] \in {snap[q], room[q], NoImage}
  BY NoImageFacts DEF Expire, Stop, Crash, Exit, MemoryLost, ConnectionsClosed, LoadSnapshots,
       StartServing, TypeOK
<1>3. \A q \in Room : \/ pending'[q] = pending[q] /\ room'[q] = room[q]
                      \/ pending'[q] = <<>> /\ room'[q] = NoImage
                      \/ pending[q] = <<>> /\ pending'[q] = <<Save>> /\ room'[q] = room[q]
  BY NoImageFacts DEF Expire, Stop, Idle, Crash, Exit, MemoryLost, ConnectionsClosed,
       LoadSnapshots, StartServing, TypeOK
<1>4. QED
  BY <1>1, <1>2, <1>3, MatchesKept

(* A restored record keeps the invariant about matches.                    *)
LEMMA RestoreMatches ==
    ASSUME Base, Matches, RestoreRecord
    PROVE  Matches'
<1> USE DEF Base, mysql
<1>1. PICK r \in todo :
         /\ Discarded(r) \/ Restored(r)
         /\ UNCHANGED <<mysql, lastMatch, announced>>
  BY RestoreStep
<1>2. r \in Room
  BY DEF TypeOK
<1>3. (failures' = 0 => failures = 0)
  BY <1>1 DEF Discarded, Restored, Fails, TypeOK
<1>4. \A q \in Room : snap'[q] \in {snap[q], room[q], NoImage}
  BY <1>1, <1>2 DEF Discarded, Restored, TypeOK, redis
<1>5. \A q \in Room : \/ pending'[q] = pending[q] /\ room'[q] = room[q]
                      \/ pending'[q] = <<Save>> /\ room'[q] = snap[q]
  BY <1>1, <1>2 DEF Discarded, Restored, TypeOK, redis
<1>6. QED
  BY <1>1, <1>3, <1>4, <1>5, MatchesKept

(* The invariant about matches holds in every state.                       *)
THEOREM MatchesInvariant == Spec => []Matches
<1>1. Init => Matches
  BY NoImageFacts, StepsDiffer DEF Init, Matches, MatchOf
<1>2. Base /\ Matches /\ [Next]_vars => Matches'
  <2> SUFFICES ASSUME Base, Matches, [Next]_vars PROVE Matches'
    OBVIOUS
  <2>1. CASE UNCHANGED vars
    BY <2>1 DEF vars, memory, redis, mysql, ids, history, Matches, MatchOf
  <2>2. CASE ClientCommand
    BY <2>2, CommandFacts, CommandMatches
  <2>3. CASE StoreStep
    BY <2>3, StartMatches, WriteMatches, SaveMatches, OtherMatches, RestoreMatches DEF StoreStep
  <2> QED BY <2>1, <2>2, <2>3, NextCases
<1>3. QED BY <1>1, <1>2, BaseInvariant, PTL DEF Spec

(* A round that is played, or that a restart would take up again, has its  *)
(* row in the record of matches under its room, whatever calls failed and  *)
(* wherever the process died.                                              *)
THEOREM RoundsAreRecorded == Spec => []RoundHasItsMatch
<1>1. Matches => RoundHasItsMatch
  BY DEF Matches, MatchOf, RoundHasItsMatch
<1>2. QED BY <1>1, MatchesInvariant, PTL

(* Without lost writes, a round the players were told the end of has its   *)
(* result recorded before the room answers.                                *)
THEOREM ResultsAreRecorded == Spec => []SettledIsRecorded
<1>1. Matches => SettledIsRecorded
  <2> SUFFICES ASSUME Matches, NEW r \in Room, failures = 0, room[r].phase = "settled",
                      \A i \in DOMAIN pending[r] : pending[r][i].op # "finish"
               PROVE  matchStatus[room[r].match] = "finished"
    BY DEF SettledIsRecorded
  <2>1. ASSUME NEW p \in Player, pending[r] = <<Finish(p), Save>> PROVE FALSE
    <3>1. 1 \in DOMAIN pending[r] /\ pending[r][1] = Finish(p)
      BY <2>1
    <3> QED BY <3>1 DEF Finish
  <2> QED BY <2>1 DEF Matches
<1>2. QED BY <1>1, MatchesInvariant, PTL

(* The record of matches implements MatchLedger: every step of the rooms,  *)
(* the stores and the process is a step of the ledger or leaves it alone.  *)
THEOREM LedgerIsKept == Spec => ImplementsLedger
<1>1. Init => Ledger!LedgerInit
  BY DEF Init, Ledger!LedgerInit
<1>2. Base /\ Matches /\ [Next]_vars => [Ledger!LedgerNext]_(Ledger!ledgerVars)
  <2> SUFFICES ASSUME Base, Matches, Next PROVE Ledger!LedgerNext \/ UNCHANGED Ledger!ledgerVars
    BY DEF vars, mysql, history, Ledger!ledgerVars
  <2> USE DEF Base, mysql, history, Ledger!ledgerVars
  <2>1. CASE ClientCommand
    <3> PICK r \in Room, i \in Image, steps \in Seq(Step) : Command(r, i, steps)
      BY <2>1, CommandFacts
    <3>1. CASE announced' = announced
      BY <3>1 DEF Command, Handled
    <3>2. ASSUME NEW p \in Player, room[r].phase = "playing",
                 announced' = [announced EXCEPT ![room[r].match] = @ \cup {p}]
          PROVE  Ledger!LedgerNext
      <4>1. room[r].match \in Match /\ matchStatus[room[r].match] # "absent"
        BY <3>2 DEF Matches, MatchOf
      <4>2. Ledger!Announce(room[r].match, p)
        BY <3>2, <4>1 DEF Ledger!Announce, Command, Handled
      <4> QED BY <4>1, <4>2 DEF Ledger!LedgerNext
    <3> QED BY <3>1, <3>2 DEF Command
  <2>2. ASSUME NEW r \in Room, Start(r) \/ StartRefused(r)
        PROVE  Ledger!LedgerNext \/ UNCHANGED Ledger!ledgerVars
    <3>1. lastMatch + 1 \in Match /\ matchStatus[lastMatch + 1] = "absent"
      BY <2>2, PersistenceAssumption DEF Matches, Start, StartRefused, CanStart, TypeOK, Match
    <3>2. UNCHANGED mysql \/ InsertMatch(lastMatch + 1, r)
      BY <2>2 DEF Start, StartRefused
    <3>3. InsertMatch(lastMatch + 1, r) => Ledger!RecordStart(lastMatch + 1)
      BY <2>2, <3>1 DEF InsertMatch, Ledger!RecordStart, Start, StartRefused
    <3>4. UNCHANGED announced
      BY <2>2 DEF Start, StartRefused
    <3> QED BY <3>1, <3>2, <3>3, <3>4 DEF Ledger!LedgerNext
  <2>3. ASSUME NEW r \in Room, ClearPlayerKey(r) \/ FinishMatch(r)
        PROVE  Ledger!LedgerNext \/ UNCHANGED Ledger!ledgerVars
    <3>1. UNCHANGED announced
      BY <2>3, WriteStep
    <3>2. PICK p \in Player :
             \/ UNCHANGED mysql
             \/ /\ pending[r] = <<Finish(p), Save>>
                /\ matchStatus[room[r].match] = "playing"
                /\ EnterResult(room[r].match, p)
      BY <2>3, WriteStep
    <3>3. CASE UNCHANGED mysql
      BY <3>1, <3>3
    <3>4. CASE /\ pending[r] = <<Finish(p), Save>>
               /\ matchStatus[room[r].match] = "playing"
               /\ EnterResult(room[r].match, p)
      <4>1. room[r].match \in Match /\ p \in announced[room[r].match]
        BY <3>4 DEF Matches, MatchOf
      <4>2. Ledger!RecordResult(room[r].match)
        BY <3>1, <3>4, <4>1 DEF EnterResult, Ledger!RecordResult
      <4> QED BY <4>1, <4>2 DEF Ledger!LedgerNext
    <3> QED BY <3>2, <3>3, <3>4
  <2>4. ASSUME NEW r \in Room, SyncSnapshot(r) \/ Expire(r) \/ Stop(r)
        PROVE  UNCHANGED Ledger!ledgerVars
    BY <2>4 DEF SyncSnapshot, Expire, Stop
  <2>5. CASE Crash \/ ConnectionsClosed \/ Exit \/ LoadSnapshots \/ RestoreRecord \/ StartServing
    BY <2>5 DEF Crash, Exit, MemoryLost, ConnectionsClosed, LoadSnapshots, RestoreRecord, StartServing
  <2> QED BY <2>1, <2>2, <2>3, <2>4, <2>5, NextCases DEF StoreStep
<1>3. QED
  BY <1>1, <1>2, BaseInvariant, MatchesInvariant, PTL DEF Spec, ImplementsLedger, Ledger!LedgerSpec
==============================================================================
