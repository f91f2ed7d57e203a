-------------------------- MODULE RoomRoutingProofs --------------------------
(***************************************************************************)
(* Proofs about RoomRouting for every set of players, connections and      *)
(* rooms.  The first part is about the calls: who waits for a room is in   *)
(* its mailbox, and the types.  The second is about seats that were        *)
(* abandoned.  The third is about the seats and the index, which agree     *)
(* under the conditions of Ordinary.                                       *)
(***************************************************************************)
EXTENDS RoomRouting, FiniteSetTheorems, SequenceTheorems, TLAPS

(* What the mailbox of a room holds.                                       *)
Posted == [kind : Kind, from : Session, awaited : BOOLEAN]

(* Where a goroutine of a connection can be.                               *)
Calls == [at : {"idle", "due", "publish", "submit", "waiting", "returned"},
          kind : Kind, room : Room \cup {NoRoom}, ok : BOOLEAN]

(* A room that the Manager does not list, because it is gone or yet to     *)
(* come, has no command and no member: destroying a room answers every     *)
(* caller and nobody posts to it afterwards.                               *)
GoneIsEmpty ==
    \A r \in Room \ listed : mailbox[r] = <<>> /\ Seated(r) = {}

(* A goroutine makes the calls of its thread only, a call that is not      *)
(* answered is not marked as accepted, the closer of a connection runs     *)
(* after its close, and nothing runs before the connection opens.          *)
CallsFit ==
    \A s \in Session :
        /\ \A t \in Thread : ~At(s, t, "idle") /\ ~At(s, t, "publish") => ThreadOf(call[s][t].kind) = t
        /\ \A t \in Thread : At(s, t, "submit") \/ At(s, t, "waiting") => ~call[s][t].ok
        /\ ~At(s, "closer", "idle") => conn[s] = "closed"
        /\ conn[s] = "new" => \A t \in Thread : At(s, t, "idle")

(* The goroutine t of s goes on to c without the mailboxes: it did not     *)
(* wait and does not wait now, and c is a call that fits it.               *)
Moves(s, t, c) ==
    /\ Goes(s, t, c) /\ c \in Calls /\ mailbox' = mailbox
    /\ ~At(s, t, "waiting") /\ c.at # "waiting"
    /\ c.at = "submit" => c.room \in used' /\ ~c.ok
    /\ c.at \notin {"idle", "publish"} => ThreadOf(c.kind) = t
    /\ c.at # "idle" => conn'[s] # "new" /\ (t = "closer" => conn'[s] = "closed")

(* The goroutine t of s puts its command in the mailbox of its room and    *)
(* waits.                                                                  *)
Posts(s, t) ==
    LET c == call[s][t]
    IN  /\ At(s, t, "submit") /\ c.room \in listed
        /\ mailbox' = [mailbox EXCEPT ![c.room] =
                         Append(@, [kind |-> c.kind, from |-> s, awaited |-> TRUE])]
        /\ Goes(s, t, [c EXCEPT !.at = "waiting"])

(* The goroutine that a command is from.                                   *)
Caller(m) == <<m.from, ThreadOf(m.kind)>>

(* A command that somebody awaits is awaited by the goroutine that posted  *)
(* it, which waits for this very command: it has no second one in the      *)
(* mailbox.                                                                *)
CommandsHaveCallers ==
    \A r \in Room : \A i \in DOMAIN mailbox[r] :
        LET m == mailbox[r][i]
        IN  m.awaited =>
              /\ call[m.from][ThreadOf(m.kind)] = Call("waiting", m.kind, r)
              /\ \A j \in DOMAIN mailbox[r] :
                    mailbox[r][j].awaited /\ Caller(mailbox[r][j]) = Caller(m) => i = j

(* The converse: who waits for a room has an awaited command in its        *)
(* mailbox.                                                                *)
CallersHaveCommands ==
    \A s \in Session, t \in Thread :
        At(s, t, "waiting") =>
            LET c == call[s][t]
            IN  \E i \in DOMAIN mailbox[c.room] :
                   mailbox[c.room][i] = [kind |-> c.kind, from |-> s, awaited |-> TRUE]

-----------------------------------------------------------------------------
(* What the routing of seats needs, each part of it: no room from before a *)
(* restart (a leave from a connection that has not taken its seat again is *)
(* refused and still deletes the entry), no call given up or turned away   *)
(* under load (such a leave deletes the entry and the seat is kept), one   *)
(* connection for a player (two may create or join two rooms at once).     *)
Ordinary ==
    /\ ~RestoresRoom /\ ~Overload
    /\ \A s, t \in Session : PlayerOf[s] = PlayerOf[t] => s = t

(* Nobody has given up: every command in a mailbox is awaited.             *)
AllAwaited == \A r \in Room : \A i \in DOMAIN mailbox[r] : mailbox[r][i].awaited

(* The connection was closed while a round was on in r, or since then.     *)
Lost(r, s) == phase[r] # "waiting" /\ conn[s] = "closed"

(* A seat is taken by a connection of its player, by a player whose        *)
(* connection is lost, or abandoned.                                       *)
SeatsAreOwn ==
    \A r \in Room, p \in Player : seat[r][p] # NoSeat =>
        \E s \in Session : /\ PlayerOf[s] = p
                           /\ seat[r][p] \in {s, Away, Abandoned}
                           /\ seat[r][p] = Away => Lost(r, s)

(* The pump has the answer of a room that accepted the join and has yet to *)
(* enter the room in the index.                                            *)
Joined(r) == [Call("returned", "join", r) EXCEPT !.ok = TRUE]

(* The connection s is on its way to its seat in r: the index has r, or    *)
(* the join is about to enter it, or the line is lost in a round. It has   *)
(* no create or join under way that would enter another room over r, and   *)
(* no leave whose return would delete r while its seat is kept.            *)
Reaches(s, r) ==
    LET c == call[s]["pump"]
    IN  /\ playerRoom[PlayerOf[s]] = r \/ c = Joined(r) \/ Lost(r, s)
        /\ c.at # "publish" /\ (c.kind = "join" => c = Joined(r))
        /\ c.kind = "leave" /\ c.at = "returned" /\ c.room = r => Lost(r, s)

(* Every seat held in a listed room is reached by the connection of its    *)
(* player, and the player holds no other.                                  *)
Routes ==
    \A s \in Session, r \in listed : Holds(r, PlayerOf[s]) =>
        Reaches(s, r) /\ \A q \in listed : Holds(q, PlayerOf[s]) => q = r

-----------------------------------------------------------------------------
(* What Goes does to the calls.                                            *)
LEMMA GoesFacts ==
    ASSUME call \in [Session -> [Thread -> Calls]],
           NEW s \in Session, NEW t \in Thread, NEW c \in Calls, Goes(s, t, c)
    PROVE  /\ call' \in [Session -> [Thread -> Calls]]
           /\ \A x \in Session, y \in Thread :
                 call'[x][y] = IF x = s /\ y = t THEN c ELSE call[x][y]
BY DEF Goes

(* A call as the code makes it is a call.                                  *)
LEMMA CallIsOne ==
    ASSUME NEW at \in {"idle", "due", "publish", "submit", "waiting", "returned"},
           NEW kind \in Kind, NEW r \in Room \cup {NoRoom}
    PROVE  Call(at, kind, r) \in Calls
BY DEF Call, Calls

(* So is the idle one.                                                     *)
LEMMA IdleIsOne == Idle \in Calls /\ Idle.at = "idle" /\ Idle.kind = "create"
BY DEF Idle, Call, Calls, Kind

(* The call after the room has served it, ok or not.                       *)
Answered(c, ok) == [c EXCEPT !.at = "returned", !.ok = ok]

(* The call after a rejection, a room closed or the wait given up.         *)
Rejected(c) == [c EXCEPT !.at = "returned"]

(* An answer changes nothing but the answer.                               *)
LEMMA AnsweredIsOne ==
    ASSUME NEW c \in Calls, NEW ok \in BOOLEAN
    PROVE  /\ Answered(c, ok) \in Calls /\ Answered(c, ok).at = "returned"
           /\ Answered(c, ok).kind = c.kind /\ Answered(c, ok).room = c.room /\ (Answered(c, ok).ok <=> ok)
<1>1. Answered(c, ok) \in Calls
  BY DEF Calls, Answered
<1>2. Answered(c, ok).at = "returned" /\ Answered(c, ok).kind = c.kind /\ Answered(c, ok).room = c.room
  BY DEF Calls, Answered
<1>3. Answered(c, ok).ok = ok
  BY DEF Calls, Answered
<1>4. QED BY <1>1, <1>2, <1>3

(* Nor does a rejection.                                                   *)
LEMMA RejectedIsOne ==
    ASSUME NEW c \in Calls
    PROVE  /\ Rejected(c) \in Calls /\ Rejected(c).at = "returned"
           /\ Rejected(c).kind = c.kind /\ Rejected(c).room = c.room /\ (Rejected(c).ok <=> c.ok)
<1>1. Rejected(c) \in Calls
  BY DEF Calls, Rejected
<1>2. Rejected(c).at = "returned" /\ Rejected(c).kind = c.kind /\ Rejected(c).room = c.room
  BY DEF Calls, Rejected
<1>3. Rejected(c).ok = c.ok
  BY DEF Calls, Rejected
<1>4. QED BY <1>1, <1>2, <1>3

(* What Answer does: the head of the mailbox goes, the commands behind it  *)
(* move up by one, and the call of the head changes if it is awaited.      *)
LEMMA AnswerFacts ==
    ASSUME TypeOK, NEW r \in Room, mailbox[r] # <<>>, NEW ok \in BOOLEAN, Answer(r, ok)
    PROVE  LET m == mailbox[r][1]
           IN  /\ Head(mailbox[r]) = m /\ m \in Posted /\ ThreadOf(m.kind) \in Thread
               /\ DOMAIN mailbox[r] = 1 .. Len(mailbox[r]) /\ Len(mailbox[r]) \in Nat \ {0}
               /\ mailbox' \in [Room -> Seq(Posted)]
               /\ \A q \in Room : q # r => mailbox'[q] = mailbox[q]
               /\ DOMAIN mailbox'[r] = 1 .. Len(mailbox[r]) - 1
               /\ \A i \in DOMAIN mailbox'[r] : mailbox'[r][i] = mailbox[r][i + 1]
               /\ call' \in [Session -> [Thread -> Calls]]
               /\ \A x \in Session, y \in Thread :
                     call'[x][y] = IF m.awaited /\ x = m.from /\ y = ThreadOf(m.kind)
                                   THEN Answered(call[x][y], ok)
                                   ELSE call[x][y]
<1> DEFINE m == mailbox[r][1]
<1>1. mailbox \in [Room -> Seq(Posted)] /\ call \in [Session -> [Thread -> Calls]]
  BY DEF TypeOK, Posted, Calls
<1>2. mailbox[r] \in Seq(Posted) /\ mailbox[r] # <<>>
  BY <1>1
<1>3. /\ Head(mailbox[r]) = m /\ m \in Posted
      /\ DOMAIN mailbox[r] = 1 .. Len(mailbox[r]) /\ Len(mailbox[r]) \in Nat \ {0}
      /\ Tail(mailbox[r]) \in Seq(Posted) /\ Len(Tail(mailbox[r])) = Len(mailbox[r]) - 1
      /\ DOMAIN Tail(mailbox[r]) = 1 .. Len(mailbox[r]) - 1
      /\ \A i \in DOMAIN Tail(mailbox[r]) : Tail(mailbox[r])[i] = mailbox[r][i + 1]
  BY <1>2
<1>4. /\ mailbox' \in [Room -> Seq(Posted)] /\ mailbox'[r] = Tail(mailbox[r])
      /\ \A q \in Room : q # r => mailbox'[q] = mailbox[q]
  BY <1>1, <1>3 DEF Answer
<1>5. ThreadOf(m.kind) \in Thread /\ m.from \in Session
  BY <1>3 DEF ThreadOf, Thread, Posted
<1>6. CASE m.awaited
  <2> DEFINE d == Answered(call[m.from][ThreadOf(m.kind)], ok)
  <2>1. Goes(m.from, ThreadOf(m.kind), d)
    BY <1>3, <1>6 DEF Answer, Answered
  <2>2. d \in Calls
    <3>1. call[m.from][ThreadOf(m.kind)] \in Calls
      BY <1>1, <1>5
    <3> QED BY <3>1, AnsweredIsOne
  <2>3. /\ call' \in [Session -> [Thread -> Calls]]
        /\ \A x \in Session, y \in Thread :
              call'[x][y] = IF x = m.from /\ y = ThreadOf(m.kind) THEN d ELSE call[x][y]
    <3> HIDE DEF d, m
    <3> QED BY <1>1, <1>5, <2>1, <2>2, GoesFacts
  <2>4. \A x \in Session, y \in Thread :
           call'[x][y] = IF m.awaited /\ x = m.from /\ y = ThreadOf(m.kind)
                         THEN Answered(call[x][y], ok)
                         ELSE call[x][y]
    BY <1>6, <2>3
  <2> HIDE DEF m
  <2>5. call' \in [Session -> [Thread -> Calls]]
    BY <2>3
  <2> QED BY <1>3, <1>4, <1>5, <2>4, <2>5 DEF m
<1>7. CASE ~m.awaited
  <2>1. call' = call
    BY <1>3, <1>7 DEF Answer
  <2> QED BY <1>1, <1>3, <1>4, <1>5, <1>7, <2>1
<1>8. QED BY <1>6, <1>7

(* What Destroy does: the room is empty, the index has it no more, every   *)
(* goroutine that waits for it is rejected, and nothing else changes.      *)
LEMMA DestroyFacts ==
    ASSUME TypeOK, NEW r \in Room, Destroy(r)
    PROVE  /\ listed' = listed \ {r}
           /\ \A q \in Room : q # r => /\ seat'[q] = seat[q] /\ owner'[q] = owner[q]
                                       /\ phase'[q] = phase[q] /\ mailbox'[q] = mailbox[q]
           /\ \A p \in Player : seat'[r][p] = NoSeat
           /\ mailbox'[r] = <<>>
           /\ \A p \in Player : playerRoom'[p] = IF playerRoom[p] = r THEN NoRoom ELSE playerRoom[p]
           /\ \A x \in Session, y \in Thread :
                 call'[x][y] = IF At(x, y, "waiting") /\ call[x][y].room = r
                               THEN Rejected(call[x][y]) ELSE call[x][y]
           /\ seat' \in [Room -> [Player -> Session \cup {NoSeat, Away, Abandoned}]]
           /\ owner' \in [Room -> Player \cup {NoPlayer}]
           /\ phase' \in [Room -> {"waiting", "playing", "settled"}]
           /\ playerRoom' \in [Player -> Room \cup {NoRoom}]
           /\ mailbox' \in [Room -> Seq(Posted)]
           /\ call' \in [Session -> [Thread -> Calls]]
<1>1. call' \in [Session -> [Thread -> Calls]]
  <2>1. \A x \in Session, y \in Thread : Rejected(call[x][y]) \in Calls /\ call[x][y] \in Calls
    <3>1. call \in [Session -> [Thread -> Calls]]
      BY DEF TypeOK, Calls
    <3> QED BY <3>1, RejectedIsOne
  <2> QED BY <2>1 DEF Destroy, Rejected
<1>2. /\ seat' \in [Room -> [Player -> Session \cup {NoSeat, Away, Abandoned}]]
      /\ owner' \in [Room -> Player \cup {NoPlayer}]
      /\ phase' \in [Room -> {"waiting", "playing", "settled"}]
      /\ playerRoom' \in [Player -> Room \cup {NoRoom}]
  BY DEF TypeOK, Destroy, Forget
<1>3. mailbox' \in [Room -> Seq(Posted)] /\ mailbox'[r] = <<>>
  <2>1. <<>> \in Seq(Posted)
    OBVIOUS
  <2> QED BY <2>1 DEF TypeOK, Destroy, Posted
<1>4. QED BY <1>1, <1>2, <1>3 DEF TypeOK, Destroy, Forget, Rejected

(* What a step does to the calls and the mailboxes together is one of five *)
(* things: a goroutine moves, posts or gives up; a room answers; a room is *)
(* destroyed; or nothing.                                                  *)
LEMMA MovesOfCalls ==
    ASSUME TypeOK, CallsFit, Next
    PROVE  \/ \E s \in Session, t \in Thread : (\E c \in Calls : Moves(s, t, c)) \/ Posts(s, t) \/ GiveUp(s, t)
           \/ \E r \in Room, ok \in BOOLEAN : mailbox[r] # <<>> /\ Answer(r, ok)
           \/ \E r \in Room : Destroy(r)
           \/ UNCHANGED <<mailbox, call>>
<1> DEFINE Goal == \/ \E s \in Session, t \in Thread : (\E c \in Calls : Moves(s, t, c)) \/ Posts(s, t) \/ GiveUp(s, t)
                   \/ \E r \in Room, ok \in BOOLEAN : mailbox[r] # <<>> /\ Answer(r, ok)
                   \/ \E r \in Room : Destroy(r)
                   \/ UNCHANGED <<mailbox, call>>
<1> USE DEF rooms
<1>0. \A s \in Session, t \in Thread : call[s][t] \in Calls
  BY DEF TypeOK, Calls
<1>1. ASSUME NEW s \in Session, Open(s) PROVE Goal
  <2> DEFINE c == Call("due", "reconnect", NoRoom)
  <2>1. c \in Calls /\ c.at = "due" /\ ThreadOf(c.kind) = "opener"
    BY DEF Call, Calls, Kind, ThreadOf
  <2>2. Goes(s, "opener", c) /\ At(s, "opener", "idle") /\ conn'[s] = "open" /\ mailbox' = mailbox
    BY <1>1 DEF Open, CallsFit, TypeOK, Thread
  <2> HIDE DEF c
  <2>3. Moves(s, "opener", c) /\ "opener" \in Thread
    BY <2>1, <2>2 DEF Moves, Thread, At
  <2> QED BY <2>1, <2>3
<1>2. ASSUME NEW s \in Session, Close(s) PROVE Goal
  <2> DEFINE c == Call("due", "disconnect", NoRoom)
  <2>1. c \in Calls /\ c.at = "due" /\ ThreadOf(c.kind) = "closer"
    BY DEF Call, Calls, Kind, ThreadOf
  <2>2. Goes(s, "closer", c) /\ At(s, "closer", "idle") /\ conn'[s] = "closed" /\ mailbox' = mailbox
    BY <1>2 DEF Close, CallsFit, TypeOK, Thread
  <2> HIDE DEF c
  <2>3. Moves(s, "closer", c) /\ "closer" \in Thread
    BY <2>1, <2>2 DEF Moves, Thread, At
  <2> QED BY <2>1, <2>3
<1>3. ASSUME NEW s \in Session, NEW t \in Thread, Goes(s, t, Idle), mailbox' = mailbox, ~At(s, t, "waiting")
      PROVE  Goal
  <2>1. Moves(s, t, Idle)
    BY <1>3, IdleIsOne DEF Moves
  <2> QED BY <2>1, IdleIsOne
<1>4. ASSUME NEW s \in Session, NEW t \in Thread, LookUp(s, t) PROVE Goal
  <2>1. CASE Goes(s, t, Idle)
    BY <1>3, <1>4, <2>1 DEF LookUp, At
  <2>2. CASE ~Goes(s, t, Idle)
    <3> DEFINE r == playerRoom[PlayerOf[s]]
               c == Call("submit", call[s][t].kind, r)
    <3>1. r \in listed /\ Goes(s, t, c) /\ mailbox' = mailbox /\ used' = used /\ conn' = conn /\ At(s, t, "due")
      BY <1>4, <2>2 DEF LookUp
    <3>2. r \in used /\ r \in Room /\ call[s][t].kind \in Kind
      BY <1>0, <3>1 DEF TypeOK, Calls
    <3>3. c \in Calls /\ c.at = "submit" /\ c.room \in used' /\ c.kind = call[s][t].kind
      BY <3>1, <3>2 DEF Call, Calls
    <3>4. ~c.ok
      BY DEF Call
    <3>5. conn[s] # "new" /\ (t = "closer" => conn[s] = "closed") /\ ThreadOf(c.kind) = t
      BY <3>1, <3>3 DEF CallsFit, At
    <3> HIDE DEF c
    <3>6. Moves(s, t, c)
      BY <3>1, <3>3, <3>4, <3>5 DEF Moves, At
    <3> QED BY <3>3, <3>6
  <2> QED BY <2>1, <2>2
<1>5. ASSUME NEW s \in Session, NEW at \in {"publish", "submit"}, NEW kind \in Kind, NEW r \in used \cup {NoRoom},
             Goes(s, "pump", Call(at, kind, r)), mailbox' = mailbox, used \subseteq used',
             ThreadOf(kind) = "pump", conn'[s] # "new", ~At(s, "pump", "waiting"),
             at = "submit" => r \in used'
      PROVE  Goal
  <2> DEFINE c == Call(at, kind, r)
  <2>1. c \in Calls /\ c.at = at /\ c.room = r /\ c.kind = kind
    BY DEF Call, Calls, TypeOK
  <2>2. ~c.ok
    BY DEF Call
  <2> HIDE DEF c
  <2>3. Moves(s, "pump", c) /\ "pump" \in Thread
    BY <1>5, <2>1, <2>2 DEF Moves, Thread, c
  <2> QED BY <2>1, <2>3
<1>6. ASSUME NEW s \in Session, AskCreate(s) PROVE Goal
  BY <1>5, <1>6 DEF AskCreate, Kind, ThreadOf, At
<1>7. ASSUME NEW s \in Session, NEW r \in Room, AskJoin(s, r) PROVE Goal
  BY <1>5, <1>7 DEF AskJoin, Kind, ThreadOf, At
<1>8. ASSUME NEW s \in Session, NEW kind \in Kind, Forward(s, kind) PROVE Goal
  <2>1. playerRoom[PlayerOf[s]] \in used /\ ThreadOf(kind) = "pump"
    BY <1>8 DEF Forward, TypeOK, ThreadOf
  <2> QED BY <1>5, <1>8, <2>1 DEF Forward, At
<1>9. ASSUME NEW s \in Session, Publish(s) PROVE Goal
  <2>1. PICK r \in Room \ used :
           /\ At(s, "pump", "publish") /\ used' = used \cup {r} /\ mailbox' = mailbox /\ conn' = conn
           /\ Goes(s, "pump", Call("submit", "snapshot", r))
    BY <1>9 DEF Publish
  <2> DEFINE c == Call("submit", "snapshot", r)
  <2>2. c \in Calls /\ c.at = "submit" /\ c.room = r /\ ThreadOf(c.kind) = "pump"
    BY DEF Call, Calls, Kind, ThreadOf
  <2>3. ~c.ok
    BY DEF Call
  <2>4. conn[s] # "new"
    BY <2>1 DEF CallsFit, At, Thread
  <2> HIDE DEF c
  <2>5. Moves(s, "pump", c) /\ "pump" \in Thread
    BY <2>1, <2>2, <2>3, <2>4 DEF Moves, Thread, c, At
  <2> QED BY <2>2, <2>5
<1>10. ASSUME NEW s \in Session, NEW t \in Thread, Submit(s, t) PROVE Goal
  <2> DEFINE c == Rejected(call[s][t])
  <2>1. CASE Goes(s, t, c) /\ mailbox' = mailbox
    <3>1. call[s][t] \in Calls /\ call[s][t].at = "submit"
      BY <1>0, <1>10 DEF Submit, At
    <3>2. c \in Calls
      BY <3>1, RejectedIsOne
    <3>3. c.at = "returned" /\ c.kind = call[s][t].kind
      BY <3>1, RejectedIsOne
    <3>4. conn'[s] # "new" /\ (t = "closer" => conn'[s] = "closed") /\ ThreadOf(c.kind) = t
      BY <1>10, <3>1, <3>3 DEF Submit, CallsFit, At
    <3> HIDE DEF c
    <3>5. Moves(s, t, c)
      BY <2>1, <3>1, <3>2, <3>3, <3>4 DEF Moves, At
    <3> QED BY <3>2, <3>5
  <2>2. CASE ~(Goes(s, t, c) /\ mailbox' = mailbox)
    <3>1. Posts(s, t)
      BY <1>10, <2>2 DEF Submit, Posts, Rejected
    <3> QED BY <3>1
  <2> QED BY <2>1, <2>2
<1>11. ASSUME NEW s \in Session, Goroutine(s) PROVE Goal
  <2>1. CASE HelloFails(s)
    BY <1>3, <2>1 DEF HelloFails, At, Thread
  <2>2. ASSUME NEW t \in Thread, Return(s, t) PROVE Goal
    BY <1>3, <2>2 DEF Return, At
  <2>3. ASSUME NEW t \in Thread, GiveUp(s, t) PROVE Goal
    BY <2>3
  <2> QED BY <1>4, <1>9, <1>10, <1>11, <2>1, <2>2, <2>3 DEF Goroutine
<1>12. ASSUME NEW r \in Room, Serves(r) PROVE Goal
  <2>1. TRUE \in BOOLEAN /\ FALSE \in BOOLEAN
    OBVIOUS
  <2>2. CASE Refuse(r)
    BY <2>1, <2>2 DEF Refuse
  <2>3. ASSUME NEW p, RemoveMember(r, p) PROVE Destroy(r) \/ Answer(r, TRUE)
    BY <2>3 DEF RemoveMember
  <2>4. ASSUME NEW s \in Session, Join(r, s) \/ Reconnect(r, s) \/ Disconnect(r, s) \/ Leave(r, s) \/ Kick(r, s)
                                  \/ Start(r, s) \/ Snapshot(r, s)
        PROVE  mailbox[r] # <<>> /\ (Destroy(r) \/ Answer(r, TRUE))
    BY <2>3, <2>4 DEF Join, Reconnect, Disconnect, Leave, Kick, Start, Snapshot, SetSeat, Command
  <2> QED BY <1>12, <2>1, <2>2, <2>4 DEF Serves
<1>13. ASSUME NEW r \in Room, RoundEnds(r) \/ EmptyRoomTimesOut(r) PROVE Goal
  BY <1>13 DEF RoundEnds, EmptyRoomTimesOut
<1> HIDE DEF Goal
<1>14. Goal
  BY <1>1, <1>2, <1>6, <1>7, <1>8, <1>11, <1>12, <1>13 DEF Next
<1>15. QED BY <1>14 DEF Goal

(* A goroutine that posts waits, the others stay where they are.           *)
LEMMA PostsCall ==
    ASSUME TypeOK, CallsFit, NEW s \in Session, NEW t \in Thread, Posts(s, t)
    PROVE  /\ ThreadOf(call[s][t].kind) = t /\ call' \in [Session -> [Thread -> Calls]]
           /\ \A x \in Session, y \in Thread :
                 call'[x][y] = IF x = s /\ y = t THEN Call("waiting", call[s][t].kind, call[s][t].room)
                               ELSE call[x][y]
<1> DEFINE c == call[s][t]
           r == c.room
<1>1. /\ c \in Calls /\ call \in [Session -> [Thread -> Calls]] /\ r \in Room /\ c.at = "submit"
  BY DEF Posts, TypeOK, Calls, At
<1>2. ThreadOf(c.kind) = t /\ ~c.ok
  BY <1>1 DEF CallsFit, At
<1>3. [c EXCEPT !.at = "waiting"] = Call("waiting", c.kind, r)
  <2>1. c.ok = FALSE
    BY <1>1, <1>2 DEF Calls
  <2>2. c = [at |-> c.at, kind |-> c.kind, room |-> c.room, ok |-> c.ok]
    BY <1>1 DEF Calls
  <2>3. [c EXCEPT !.at = "waiting"] = [at |-> "waiting", kind |-> c.kind, room |-> c.room, ok |-> c.ok]
    BY <2>2
  <2> QED BY <2>1, <2>3 DEF Call
<1>4. Call("waiting", c.kind, r) \in Calls
  BY <1>1 DEF Call, Calls
<1>5. /\ call' \in [Session -> [Thread -> Calls]]
      /\ \A x \in Session, y \in Thread :
            call'[x][y] = IF x = s /\ y = t THEN Call("waiting", c.kind, r) ELSE call[x][y]
  BY <1>1, <1>3, <1>4, GoesFacts DEF Posts
<1>6. QED BY <1>2, <1>5

(* What posting does: the command is the last of the mailbox and its       *)
(* goroutine waits for it.                                                 *)
LEMMA PostsFacts ==
    ASSUME TypeOK, CallsFit, NEW s \in Session, NEW t \in Thread, Posts(s, t)
    PROVE  LET c == call[s][t]
               r == c.room
               n == Len(mailbox[r])
           IN  /\ r \in listed /\ r \in Room /\ n \in Nat /\ DOMAIN mailbox[r] = 1 .. n
               /\ mailbox' \in [Room -> Seq(Posted)]
               /\ \A q \in Room : q # r => mailbox'[q] = mailbox[q]
               /\ DOMAIN mailbox'[r] = 1 .. n + 1
               /\ \A i \in DOMAIN mailbox[r] : mailbox'[r][i] = mailbox[r][i]
               /\ mailbox'[r][n + 1] = [kind |-> c.kind, from |-> s, awaited |-> TRUE]
               /\ ThreadOf(c.kind) = t
               /\ call' \in [Session -> [Thread -> Calls]]
               /\ \A x \in Session, y \in Thread :
                     call'[x][y] = IF x = s /\ y = t THEN Call("waiting", c.kind, r) ELSE call[x][y]
<1> DEFINE c == call[s][t]
           r == c.room
           n == Len(mailbox[r])
           m == [kind |-> c.kind, from |-> s, awaited |-> TRUE]
<1>1. c \in Calls /\ mailbox \in [Room -> Seq(Posted)] /\ r \in listed /\ r \in Room
  BY DEF Posts, TypeOK, Calls, Posted, At
<1>2. m \in Posted
  BY <1>1 DEF Posted, Calls
<1>4. /\ n \in Nat /\ DOMAIN mailbox[r] = 1 .. n
      /\ mailbox' \in [Room -> Seq(Posted)]
      /\ \A q \in Room : q # r => mailbox'[q] = mailbox[q]
      /\ mailbox'[r] = Append(mailbox[r], m)
  <2>1. mailbox[r] \in Seq(Posted) /\ mailbox' = [mailbox EXCEPT ![r] = Append(@, m)]
    BY <1>1 DEF Posts
  <2> HIDE DEF m, r
  <2>2. Append(mailbox[r], m) \in Seq(Posted)
    BY <1>2, <2>1
  <2> QED BY <1>1, <2>1, <2>2 DEF n
<1>5. /\ DOMAIN mailbox'[r] = 1 .. n + 1
      /\ \A i \in DOMAIN mailbox[r] : mailbox'[r][i] = mailbox[r][i]
      /\ mailbox'[r][n + 1] = m
  <2>1. mailbox[r] \in Seq(Posted)
    BY <1>1
  <2> HIDE DEF m, r
  <2> QED BY <1>2, <1>4, <2>1 DEF n
<1>6. /\ ThreadOf(c.kind) = t /\ call' \in [Session -> [Thread -> Calls]]
      /\ \A x \in Session, y \in Thread :
            call'[x][y] = IF x = s /\ y = t THEN Call("waiting", c.kind, r) ELSE call[x][y]
  BY PostsCall
<1>7. QED BY <1>1, <1>4, <1>5, <1>6

(* What giving up does: the command of the goroutine stays in the mailbox  *)
(* and is awaited no more.                                                 *)
LEMMA GiveUpFacts ==
    ASSUME TypeOK, NEW s \in Session, NEW t \in Thread, GiveUp(s, t)
    PROVE  LET r == call[s][t].room
           IN  /\ At(s, t, "waiting") /\ r \in Room
               /\ mailbox' \in [Room -> Seq(Posted)]
               /\ \A q \in Room : q # r => mailbox'[q] = mailbox[q]
               /\ DOMAIN mailbox'[r] = DOMAIN mailbox[r]
               /\ \A i \in DOMAIN mailbox[r] :
                     \/ Caller(mailbox[r][i]) # <<s, t>> /\ mailbox'[r][i] = mailbox[r][i]
                     \/ Caller(mailbox[r][i]) = <<s, t>> /\ ~mailbox'[r][i].awaited
               /\ call' \in [Session -> [Thread -> Calls]]
               /\ \A x \in Session, y \in Thread :
                     call'[x][y] = IF x = s /\ y = t THEN Rejected(call[s][t]) ELSE call[x][y]
<1> DEFINE c == call[s][t]
           r == c.room
           Off(m) == IF m.from = s /\ ThreadOf(m.kind) = t THEN [m EXCEPT !.awaited = FALSE] ELSE m
<1>1. /\ c \in Calls /\ call \in [Session -> [Thread -> Calls]] /\ mailbox \in [Room -> Seq(Posted)]
      /\ c.at = "waiting" /\ r \in Room
  BY DEF GiveUp, TypeOK, Calls, Posted, At
<1>2. /\ call' \in [Session -> [Thread -> Calls]]
      /\ \A x \in Session, y \in Thread :
            call'[x][y] = IF x = s /\ y = t THEN Rejected(call[s][t]) ELSE call[x][y]
  <2>1. Rejected(c) \in Calls
    BY <1>1, RejectedIsOne
  <2> QED BY <1>1, <2>1, GoesFacts DEF GiveUp, Rejected
<1>3. \A m \in Posted : /\ Off(m) \in Posted
                        /\ \/ Caller(m) # <<s, t>> /\ Off(m) = m
                           \/ Caller(m) = <<s, t>> /\ ~Off(m).awaited
  <2> SUFFICES ASSUME NEW m \in Posted
               PROVE  /\ Off(m) \in Posted
                      /\ \/ Caller(m) # <<s, t>> /\ Off(m) = m
                         \/ Caller(m) = <<s, t>> /\ ~Off(m).awaited
    OBVIOUS
  <2>1. [m EXCEPT !.awaited = FALSE] \in Posted
    BY DEF Posted
  <2>2. ~[m EXCEPT !.awaited = FALSE].awaited
    BY DEF Posted
  <2> QED BY <2>1, <2>2 DEF Caller
<1>4. mailbox' = [mailbox EXCEPT ![r] = [i \in DOMAIN mailbox[r] |-> Off(mailbox[r][i])]]
  BY <1>1 DEF GiveUp
<1>5. mailbox[r] \in Seq(Posted)
  BY <1>1
<1> HIDE DEF Off, r
<1>6. [i \in DOMAIN mailbox[r] |-> Off(mailbox[r][i])] \in Seq(Posted)
  BY <1>3, <1>5
<1>7. /\ mailbox' \in [Room -> Seq(Posted)]
      /\ \A q \in Room : q # r => mailbox'[q] = mailbox[q]
      /\ mailbox'[r] = [i \in DOMAIN mailbox[r] |-> Off(mailbox[r][i])]
  BY <1>1, <1>4, <1>6
<1>8. \A i \in DOMAIN mailbox[r] : mailbox[r][i] \in Posted
  BY <1>5
<1>9. /\ DOMAIN mailbox'[r] = DOMAIN mailbox[r]
      /\ \A i \in DOMAIN mailbox[r] :
            \/ Caller(mailbox[r][i]) # <<s, t>> /\ mailbox'[r][i] = mailbox[r][i]
            \/ Caller(mailbox[r][i]) = <<s, t>> /\ ~mailbox'[r][i].awaited
  BY <1>3, <1>7, <1>8
<1>10. QED BY <1>1, <1>2, <1>7, <1>9 DEF r, At

(* The part of TypeOK about calls and mailboxes, over a step.              *)
LEMMA CallsTyped ==
    ASSUME TypeOK, CallsFit, Next
    PROVE  /\ mailbox' \in [Room -> Seq(Posted)] /\ call' \in [Session -> [Thread -> Calls]]
           /\ \A s \in Session, t \in Thread :
                 At(s, t, "submit")' \/ At(s, t, "waiting")' => call'[s][t].room \in used'
<1> DEFINE Goal == /\ mailbox' \in [Room -> Seq(Posted)] /\ call' \in [Session -> [Thread -> Calls]]
                   /\ \A s \in Session, t \in Thread :
                         call'[s][t].at \in {"submit", "waiting"} => call'[s][t].room \in used'
<1>1. /\ mailbox \in [Room -> Seq(Posted)] /\ call \in [Session -> [Thread -> Calls]] /\ used \subseteq used'
      /\ \A s \in Session, t \in Thread :
            call[s][t].at \in {"submit", "waiting"} => call[s][t].room \in used
  <2>1. used \subseteq used'
    <3>1. ASSUME NEW s \in Session,
                 Open(s) \/ Close(s) \/ AskCreate(s) \/ Goroutine(s) \/ (\E r \in Room : AskJoin(s, r))
                   \/ (\E k \in Kind : Forward(s, k))
          PROVE  used \subseteq used'
      BY <3>1 DEF Open, Close, AskCreate, Goroutine, HelloFails, Publish, LookUp, Submit, GiveUp, Return, AskJoin,
         Forward
    <3>2. ASSUME NEW r \in Room, RoundEnds(r) \/ EmptyRoomTimesOut(r) \/ Refuse(r) PROVE used' = used
      BY <3>2 DEF RoundEnds, EmptyRoomTimesOut, Refuse
    <3>3. ASSUME NEW r \in Room, NEW s \in Session,
                 Join(r, s) \/ Reconnect(r, s) \/ Disconnect(r, s) \/ Leave(r, s) \/ Kick(r, s) \/ Start(r, s)
                   \/ Snapshot(r, s)
          PROVE  used' = used
      BY <3>3 DEF Join, Reconnect, Disconnect, Leave, Kick, Start, Snapshot, SetSeat, RemoveMember
    <3> QED BY <3>1, <3>2, <3>3 DEF Next, Serves
  <2> QED BY <2>1 DEF TypeOK, Posted, Calls, At
<1>2. ASSUME NEW s \in Session, NEW t \in Thread, NEW c \in Calls, Moves(s, t, c) PROVE Goal
  <2>1. /\ call' \in [Session -> [Thread -> Calls]]
        /\ \A x \in Session, y \in Thread :
              call'[x][y] = IF x = s /\ y = t THEN c ELSE call[x][y]
    BY <1>1, <1>2, GoesFacts DEF Moves
  <2> QED BY <1>1, <1>2, <2>1 DEF Moves
<1>3. ASSUME NEW s \in Session, NEW t \in Thread, Posts(s, t) PROVE Goal
  <2>1. call[s][t].room \in used'
    BY <1>1, <1>3 DEF Posts, At
  <2>2. Call("waiting", call[s][t].kind, call[s][t].room).room = call[s][t].room
    BY DEF Call
  <2>3. mailbox' \in [Room -> Seq(Posted)] /\ call' \in [Session -> [Thread -> Calls]]
    BY <1>3, PostsFacts
  <2>4. \A x \in Session, y \in Thread :
           call'[x][y] = IF x = s /\ y = t THEN Call("waiting", call[s][t].kind, call[s][t].room) ELSE call[x][y]
    BY <1>3, PostsCall
  <2> QED BY <1>1, <2>1, <2>2, <2>3, <2>4
<1>4. ASSUME NEW s \in Session, NEW t \in Thread, GiveUp(s, t) PROVE Goal
  <2>1. Rejected(call[s][t]).at = "returned"
    BY <1>1, RejectedIsOne
  <2>2. /\ mailbox' \in [Room -> Seq(Posted)] /\ call' \in [Session -> [Thread -> Calls]]
        /\ \A x \in Session, y \in Thread :
              call'[x][y] = IF x = s /\ y = t THEN Rejected(call[s][t]) ELSE call[x][y]
    BY <1>4, GiveUpFacts
  <2> QED BY <1>1, <2>1, <2>2
<1>5. ASSUME NEW r \in Room, NEW ok \in BOOLEAN, mailbox[r] # <<>>, Answer(r, ok) PROVE Goal
  <2>1. \A c \in Calls : Answered(c, ok).at = "returned"
    BY AnsweredIsOne
  <2>2. /\ mailbox' \in [Room -> Seq(Posted)] /\ call' \in [Session -> [Thread -> Calls]]
        /\ \A x \in Session, y \in Thread :
              call'[x][y] = call[x][y] \/ call'[x][y] = Answered(call[x][y], ok)
    BY <1>5, AnswerFacts
  <2>3. \A x \in Session, y \in Thread : call'[x][y] = call[x][y] \/ call'[x][y].at = "returned"
    BY <1>1, <2>1, <2>2
  <2> QED BY <1>1, <2>2, <2>3
<1>6. ASSUME NEW r \in Room, Destroy(r) PROVE Goal
  <2>1. \A c \in Calls : Rejected(c).at = "returned"
    BY RejectedIsOne
  <2>2. \A x \in Session, y \in Thread : call'[x][y] = call[x][y] \/ call'[x][y].at = "returned"
    BY <1>1, <1>6, <2>1, DestroyFacts
  <2> QED BY <1>1, <1>6, <2>2, DestroyFacts
<1>7. ASSUME UNCHANGED <<mailbox, call>> PROVE Goal
  BY <1>1, <1>7
<1> HIDE DEF Goal
<1>8. Goal
  BY <1>2, <1>3, <1>4, <1>5, <1>6, <1>7, MovesOfCalls
<1>9. QED BY <1>8 DEF At, Goal

(* A step keeps TypeOK. The part that is no type is about the owner: it    *)
(* has a seat in its room, whoever leaves and whomever the room goes to.   *)
LEMMA TypesKept ==
    ASSUME TypeOK, CallsFit, [Next]_vars
    PROVE  TypeOK'
<1> DEFINE Goal == /\ listed' \subseteq used' /\ used' \subseteq Room
                   /\ playerRoom' \in [Player -> Room \cup {NoRoom}]
                   /\ seat' \in [Room -> [Player -> Session \cup {NoSeat, Away, Abandoned}]]
                   /\ owner' \in [Room -> Player \cup {NoPlayer}]
                   /\ \A r \in listed' : owner'[r] \in Player /\ seat'[r][owner'[r]] # NoSeat
                   /\ phase' \in [Room -> {"waiting", "playing", "settled"}]
                   /\ conn' \in [Session -> {"new", "open", "closed"}]
<1>1. CASE UNCHANGED vars
  BY <1>1 DEF vars, rooms, TypeOK, Seated, At
<1>2. CASE Next
  <2>0. /\ listed \subseteq used /\ used \subseteq Room /\ PlayerOf \in [Session -> Player]
        /\ playerRoom \in [Player -> Room \cup {NoRoom}]
        /\ seat \in [Room -> [Player -> Session \cup {NoSeat, Away, Abandoned}]]
        /\ owner \in [Room -> Player \cup {NoPlayer}]
        /\ \A r \in listed : owner[r] \in Player /\ seat[r][owner[r]] # NoSeat
        /\ phase \in [Room -> {"waiting", "playing", "settled"}]
        /\ conn \in [Session -> {"new", "open", "closed"}]
    BY RoutingAssumption DEF TypeOK, Seated
  <2>1. ASSUME NEW s \in Session, Goroutine(s) /\ ~Publish(s) PROVE Goal
    <3>1. /\ UNCHANGED <<listed, used, seat, owner, phase, conn>>
          /\ playerRoom' \in [Player -> Room \cup {NoRoom}]
      <4>1. CASE HelloFails(s)
        BY <2>0, <4>1 DEF HelloFails, rooms
      <4>2. ASSUME NEW t \in Thread, LookUp(s, t)
            PROVE  /\ UNCHANGED <<listed, used, seat, owner, phase, conn>>
                   /\ playerRoom' \in [Player -> Room \cup {NoRoom}]
        BY <2>0, <4>2 DEF LookUp, Cleared, rooms
      <4>3. ASSUME NEW t \in Thread, Submit(s, t) \/ GiveUp(s, t)
            PROVE  /\ UNCHANGED <<listed, used, seat, owner, phase, conn>>
                   /\ playerRoom' \in [Player -> Room \cup {NoRoom}]
        BY <2>0, <4>3 DEF Submit, GiveUp
      <4>4. ASSUME NEW t \in Thread, Return(s, t)
            PROVE  /\ UNCHANGED <<listed, used, seat, owner, phase, conn>>
                   /\ playerRoom' \in [Player -> Room \cup {NoRoom}]
        <5>1. call[s][t].room \in Room \cup {NoRoom}
          BY DEF TypeOK
        <5>2. playerRoom' \in {[playerRoom EXCEPT ![PlayerOf[s]] = call[s][t].room],
                               Cleared(call[s][t].room, PlayerOf[s]), playerRoom}
          BY <4>4 DEF Return
        <5> QED BY <2>0, <4>4, <5>1, <5>2 DEF Return, Cleared, rooms
      <4> QED BY <2>1, <4>1, <4>2, <4>3, <4>4 DEF Goroutine
    <3> QED BY <2>0, <3>1
  <2>2. ASSUME NEW s \in Session, Publish(s) PROVE Goal
    <3>1. PICK r \in Room \ used :
             /\ listed' = listed \cup {r} /\ used' = used \cup {r}
             /\ playerRoom' = [playerRoom EXCEPT ![PlayerOf[s]] = r]
             /\ seat' = [seat EXCEPT ![r][PlayerOf[s]] = s]
             /\ owner' = [owner EXCEPT ![r] = PlayerOf[s]]
             /\ UNCHANGED <<phase, conn>>
      BY <2>2 DEF Publish
    <3>2. /\ seat' \in [Room -> [Player -> Session \cup {NoSeat, Away, Abandoned}]]
          /\ seat'[r][PlayerOf[s]] = s /\ s # NoSeat
          /\ \A q \in Room : q # r => seat'[q] = seat[q]
      BY <2>0, <3>1, RoutingAssumption
    <3> QED BY <2>0, <3>1, <3>2
  <2>3. ASSUME NEW s \in Session,
               Open(s) \/ Close(s) \/ AskCreate(s) \/ (\E r \in Room : AskJoin(s, r)) \/ (\E k \in Kind : Forward(s, k))
        PROVE  Goal
    <3>1. conn' \in [Session -> {"new", "open", "closed"}] /\ UNCHANGED <<listed, used, playerRoom, seat, owner, phase>>
      BY <2>0, <2>3 DEF Open, Close, AskCreate, AskJoin, Forward, rooms
    <3> QED BY <2>0, <3>1
  <2>4. ASSUME NEW r \in Room, Destroy(r), UNCHANGED <<used, conn>> PROVE Goal
    BY <2>0, <2>4, DestroyFacts
  <2>5. ASSUME NEW r \in Room, NEW p \in Player, NEW who \in Session \cup {Away, Abandoned}, SetSeat(r, p, who),
               playerRoom' = playerRoom \/ playerRoom' = Cleared(r, p)
        PROVE  Goal
    <3>1. seat' = [seat EXCEPT ![r][p] = who] /\ who # NoSeat /\ UNCHANGED <<listed, used, owner, phase, conn>>
      BY <2>5, RoutingAssumption DEF SetSeat
    <3>2. /\ seat' \in [Room -> [Player -> Session \cup {NoSeat, Away, Abandoned}]]
          /\ \A q \in Room, x \in Player : seat[q][x] # NoSeat => seat'[q][x] # NoSeat
      BY <2>0, <3>1
    <3>3. playerRoom' \in [Player -> Room \cup {NoRoom}]
      BY <2>0, <2>5 DEF Cleared
    <3> QED BY <2>0, <3>1, <3>2, <3>3
  <2>6. ASSUME NEW r \in Room, NEW p \in Player, RemoveMember(r, p) PROVE Goal
    <3>1. CASE Seated(r) = {p}
      BY <2>4, <2>6, <3>1 DEF RemoveMember
    <3>2. CASE Seated(r) # {p}
      <4>1. PICK heir \in Seated(r) \ {p} : owner' = [owner EXCEPT ![r] = IF @ = p THEN heir ELSE @]
        BY <2>6, <3>2 DEF RemoveMember
      <4>2. /\ seat' = [seat EXCEPT ![r][p] = NoSeat] /\ playerRoom' = Cleared(r, p)
            /\ UNCHANGED <<listed, used, phase, conn>>
        BY <2>6, <3>2 DEF RemoveMember
      <4>3. /\ seat' \in [Room -> [Player -> Session \cup {NoSeat, Away, Abandoned}]]
            /\ \A q \in Room, x \in Player : (q # r \/ x # p) => seat'[q][x] = seat[q][x]
        BY <2>0, <4>2
      <4>4. owner' \in [Room -> Player \cup {NoPlayer}] /\ playerRoom' \in [Player -> Room \cup {NoRoom}]
        BY <2>0, <4>1, <4>2 DEF Cleared, Seated
      <4>5. \A q \in listed : owner'[q] \in Player /\ seat'[q][owner'[q]] # NoSeat
        <5>1. \A q \in listed : q # r => owner'[q] = owner[q]
          BY <2>0, <4>1
        <5>2. r \in listed => owner'[r] # p /\ owner'[r] \in Player /\ seat[r][owner'[r]] # NoSeat
          BY <2>0, <4>1 DEF Seated
        <5> QED BY <2>0, <4>3, <5>1, <5>2
      <4> QED BY <2>0, <4>2, <4>3, <4>4, <4>5
    <3> QED BY <3>1, <3>2
  <2>7. ASSUME NEW r \in Room, Serves(r) PROVE Goal
    <3>1. CASE Refuse(r)
      BY <2>0, <3>1 DEF Refuse
    <3>2. ASSUME NEW s \in Session, Snapshot(r, s) \/ Start(r, s) PROVE Goal
      <4>1. /\ phase' \in [Room -> {"waiting", "playing", "settled"}]
            /\ UNCHANGED <<listed, used, playerRoom, seat, owner, conn>>
        BY <2>0, <3>2 DEF Snapshot, Start
      <4> QED BY <2>0, <4>1
    <3>3. ASSUME NEW s \in Session, Join(r, s) \/ Reconnect(r, s) PROVE Goal
      BY <2>0, <2>5, <3>3 DEF Join, Reconnect
    <3>4. ASSUME NEW s \in Session, Disconnect(r, s) \/ Leave(r, s) PROVE Goal
      BY <2>0, <2>5, <2>6, <3>4 DEF Disconnect, Leave
    <3>5. ASSUME NEW s \in Session, Kick(r, s) PROVE Goal
      BY <2>6, <3>5 DEF Kick, Seated
    <3> QED BY <2>7, <3>1, <3>2, <3>3, <3>4, <3>5 DEF Serves
  <2>8. ASSUME NEW r \in Room, RoundEnds(r) \/ EmptyRoomTimesOut(r) PROVE Goal
    <3>1. CASE RoundEnds(r)
      BY <2>0, <3>1 DEF RoundEnds
    <3> QED BY <2>4, <2>8, <3>1 DEF EmptyRoomTimesOut
  <2> HIDE DEF Goal
  <2>9. Goal
    BY <1>2, <2>1, <2>2, <2>3, <2>7, <2>8 DEF Next
  <2>10. \A r \in listed' : owner'[r] \in Seated(r)'
    BY <2>9 DEF Goal, Seated
  <2> QED BY <1>2, <2>9, <2>10, CallsTyped DEF Goal, TypeOK, Posted, Calls
<1>3. QED BY <1>1, <1>2
-----------------------------------------------------------------------------
(* A connection that is closed stays closed, one that is open was opened.  *)
LEMMA ConnKept ==
    ASSUME TypeOK, Next, NEW s \in Session
    PROVE  /\ conn[s] = "closed" => conn'[s] = "closed"
           /\ conn[s] # "new" => conn'[s] # "new"
<1>1. \/ UNCHANGED conn
      \/ \E x \in Session : \/ conn[x] = "new" /\ conn' = [conn EXCEPT ![x] = "open"]
                            \/ conn[x] = "open" /\ conn' = [conn EXCEPT ![x] = "closed"]
  <2>1. ASSUME NEW x \in Session, Open(x) \/ Close(x)
        PROVE  \/ conn[x] = "new" /\ conn' = [conn EXCEPT ![x] = "open"]
               \/ conn[x] = "open" /\ conn' = [conn EXCEPT ![x] = "closed"]
    BY <2>1 DEF Open, Close
  <2>2. ASSUME NEW x \in Session,
               AskCreate(x) \/ Goroutine(x) \/ (\E r \in Room : AskJoin(x, r)) \/ (\E k \in Kind : Forward(x, k))
        PROVE  UNCHANGED conn
    BY <2>2 DEF AskCreate, Goroutine, HelloFails, Publish, LookUp, Submit, GiveUp, Return, AskJoin, Forward
  <2>3. ASSUME NEW r \in Room, RoundEnds(r) \/ EmptyRoomTimesOut(r) \/ Refuse(r) PROVE UNCHANGED conn
    BY <2>3 DEF RoundEnds, EmptyRoomTimesOut, Refuse
  <2>4. ASSUME NEW r \in Room, NEW x \in Session,
               Join(r, x) \/ Reconnect(r, x) \/ Disconnect(r, x) \/ Leave(r, x) \/ Kick(r, x) \/ Start(r, x)
                 \/ Snapshot(r, x)
        PROVE  UNCHANGED conn
    BY <2>4 DEF Join, Reconnect, Disconnect, Leave, Kick, Start, Snapshot, SetSeat, RemoveMember
  <2> QED BY <2>1, <2>2, <2>3, <2>4 DEF Next, Serves
<1>2. QED BY <1>1 DEF TypeOK

(* A step keeps CallsFit.                                                  *)
LEMMA FitKept ==
    ASSUME TypeOK, CallsFit, CommandsHaveCallers, Next
    PROVE  CallsFit'
<1> DEFINE Same(x, y) == call'[x][y] = call[x][y]
           On(x, y) == /\ call[x][y].at \notin {"idle", "publish"} /\ call'[x][y].kind = call[x][y].kind
                       /\ call'[x][y].at \notin {"idle", "submit"} /\ (call'[x][y].at = "waiting" => ~call'[x][y].ok)
           New(x, y) == LET c == call'[x][y]
                        IN  /\ c.at \notin {"idle", "publish"} => ThreadOf(c.kind) = y
                            /\ c.at # "waiting" /\ (c.at = "submit" => ~c.ok)
                            /\ c.at # "idle" => conn'[x] # "new" /\ (y = "closer" => conn'[x] = "closed")
           Goal == \A x \in Session, y \in Thread : Same(x, y) \/ On(x, y) \/ New(x, y)
<1>0. \A x \in Session, y \in Thread : call[x][y] \in Calls
  BY DEF TypeOK, Calls
<1>1. ASSUME NEW s \in Session, NEW t \in Thread, NEW c \in Calls, Moves(s, t, c) PROVE Goal
  <2>1. \A x \in Session, y \in Thread : call'[x][y] = IF x = s /\ y = t THEN c ELSE call[x][y]
    BY <1>1, GoesFacts DEF Moves, TypeOK, Calls
  <2> QED BY <1>1, <2>1 DEF Moves
<1>2. ASSUME NEW s \in Session, NEW t \in Thread, Posts(s, t) PROVE Goal
  <2>1. \A x \in Session, y \in Thread :
           call'[x][y] = IF x = s /\ y = t THEN Call("waiting", call[s][t].kind, call[s][t].room) ELSE call[x][y]
    BY <1>2, PostsCall
  <2>2. On(s, t)
    <3>1. call[s][t].at = "submit"
      BY <1>2 DEF Posts, At
    <3>2. call'[s][t] = Call("waiting", call[s][t].kind, call[s][t].room)
      BY <2>1
    <3>3. call'[s][t].kind = call[s][t].kind /\ call'[s][t].at = "waiting"
      BY <3>2 DEF Call
    <3>4. ~call'[s][t].ok
      BY <3>2 DEF Call
    <3> QED BY <3>1, <3>3, <3>4
  <2> QED BY <2>1, <2>2
<1>3. ASSUME NEW s \in Session, NEW t \in Thread, GiveUp(s, t) PROVE Goal
  <2>1. \A x \in Session, y \in Thread :
           call'[x][y] = IF x = s /\ y = t THEN Rejected(call[s][t]) ELSE call[x][y]
    BY <1>3, GiveUpFacts
  <2>2. On(s, t)
    BY <1>0, <1>3, <2>1, RejectedIsOne DEF GiveUp, At
  <2> QED BY <2>1, <2>2
<1>4. ASSUME NEW r \in Room, NEW ok \in BOOLEAN, mailbox[r] # <<>>, Answer(r, ok) PROVE Goal
  <2> DEFINE m == mailbox[r][1]
  <2>1. /\ m.from \in Session /\ ThreadOf(m.kind) \in Thread /\ 1 \in DOMAIN mailbox[r]
        /\ \A x \in Session, y \in Thread :
              call'[x][y] = IF m.awaited /\ x = m.from /\ y = ThreadOf(m.kind)
                            THEN Answered(call[x][y], ok) ELSE call[x][y]
    BY <1>4, AnswerFacts DEF Posted
  <2>2. m.awaited => call[m.from][ThreadOf(m.kind)].at = "waiting"
    <3>1. m.awaited => call[m.from][ThreadOf(m.kind)] = Call("waiting", m.kind, r)
      BY <2>1 DEF CommandsHaveCallers
    <3> QED BY <3>1 DEF Call
  <2>3. ASSUME NEW x \in Session, NEW y \in Thread, m.awaited /\ x = m.from /\ y = ThreadOf(m.kind) PROVE On(x, y)
    <3>1. call'[x][y] = Answered(call[x][y], ok) /\ call[x][y] \in Calls /\ call[x][y].at = "waiting"
      BY <1>0, <2>1, <2>2, <2>3
    <3> QED BY <3>1, AnsweredIsOne
  <2> QED BY <2>1, <2>3
<1>5. ASSUME NEW r \in Room, Destroy(r) PROVE Goal
  <2>1. \A x \in Session, y \in Thread :
           call'[x][y] = IF At(x, y, "waiting") /\ call[x][y].room = r THEN Rejected(call[x][y]) ELSE call[x][y]
    BY <1>5, DestroyFacts
  <2>2. ASSUME NEW x \in Session, NEW y \in Thread, At(x, y, "waiting") /\ call[x][y].room = r PROVE On(x, y)
    BY <1>0, <2>1, <2>2, RejectedIsOne DEF At
  <2> QED BY <2>1, <2>2
<1>6. ASSUME UNCHANGED <<mailbox, call>> PROVE Goal
  BY <1>6
<1> HIDE DEF Goal
<1>7. Goal
  BY <1>1, <1>2, <1>3, <1>4, <1>5, <1>6, MovesOfCalls
<1> USE DEF Goal
<1>8. \A x \in Session : /\ conn[x] = "closed" => conn'[x] = "closed"
                         /\ conn[x] # "new" => conn'[x] # "new"
  BY ConnKept
<1>9. ASSUME NEW x \in Session, NEW y \in Thread
      PROVE  /\ call'[x][y].at \notin {"idle", "publish"} => ThreadOf(call'[x][y].kind) = y
             /\ call'[x][y].at \in {"submit", "waiting"} => ~call'[x][y].ok
             /\ call'[x][y].at # "idle" => conn'[x] # "new" /\ (y = "closer" => conn'[x] = "closed")
  <2>1. CASE Same(x, y)
    BY <1>8, <2>1 DEF CallsFit, At
  <2>2. CASE On(x, y)
    BY <1>8, <2>2 DEF CallsFit, At
  <2>3. CASE New(x, y)
    BY <2>3
  <2> QED BY <1>7, <2>1, <2>2, <2>3
<1>10. "closer" \in Thread
  BY DEF Thread
<1>11. QED BY <1>9, <1>10 DEF CallsFit, At

(* A step keeps CommandsHaveCallers. A goroutine that posts did not wait,  *)
(* so that it has no other command awaited, in any room.                   *)
LEMMA CommandsKept ==
    ASSUME TypeOK, CallsFit, CommandsHaveCallers, Next
    PROVE  CommandsHaveCallers'
<1> DEFINE Awaits(r, i) == mailbox[r][i].awaited
           Waiting(m, r) == call[m.from][ThreadOf(m.kind)] = Call("waiting", m.kind, r)
           WaitingNext(m, r) == call'[m.from][ThreadOf(m.kind)] = Call("waiting", m.kind, r)
           Goal == \A r \in Room : \A i \in DOMAIN mailbox'[r] : mailbox'[r][i].awaited =>
                      /\ WaitingNext(mailbox'[r][i], r)
                      /\ \A j \in DOMAIN mailbox'[r] :
                            mailbox'[r][j].awaited /\ Caller(mailbox'[r][j]) = Caller(mailbox'[r][i]) => i = j
<1>0. \A r \in Room : \A i \in DOMAIN mailbox[r] :
         mailbox[r][i] \in Posted /\ mailbox[r][i].from \in Session /\ ThreadOf(mailbox[r][i].kind) \in Thread
  <2>1. \A r \in Room : mailbox[r] \in Seq(Posted)
    BY DEF TypeOK, Posted
  <2>2. \A r \in Room : \A i \in DOMAIN mailbox[r] : mailbox[r][i] \in Posted
    BY <2>1
  <2> QED BY <2>2 DEF Posted, ThreadOf, Thread
<1>1. ASSUME NEW r \in Room, NEW i \in DOMAIN mailbox[r], mailbox[r][i].awaited
      PROVE  /\ Waiting(mailbox[r][i], r)
             /\ call[mailbox[r][i].from][ThreadOf(mailbox[r][i].kind)].at = "waiting"
             /\ call[mailbox[r][i].from][ThreadOf(mailbox[r][i].kind)].room = r
             /\ \A j \in DOMAIN mailbox[r] :
                   mailbox[r][j].awaited /\ Caller(mailbox[r][j]) = Caller(mailbox[r][i]) => i = j
  BY <1>1 DEF CommandsHaveCallers, Call
<1>2. ASSUME NEW s \in Session, NEW t \in Thread, NEW c \in Calls, Moves(s, t, c) PROVE Goal
  <2>1. \A x \in Session, y \in Thread : call'[x][y] = IF x = s /\ y = t THEN c ELSE call[x][y]
    BY <1>2, GoesFacts DEF Moves, TypeOK, Calls
  <2>2. mailbox' = mailbox /\ call[s][t].at # "waiting"
    BY <1>2 DEF Moves, At
  <2> QED BY <1>0, <1>1, <2>1, <2>2
<1>3. ASSUME NEW s \in Session, NEW t \in Thread, Posts(s, t) PROVE Goal
  <2> DEFINE r == call[s][t].room
             n == Len(mailbox[r])
             m == [kind |-> call[s][t].kind, from |-> s, awaited |-> TRUE]
  <2>1. /\ r \in Room /\ n \in Nat /\ DOMAIN mailbox[r] = 1 .. n
        /\ \A q \in Room : q # r => mailbox'[q] = mailbox[q]
        /\ DOMAIN mailbox'[r] = 1 .. n + 1
        /\ \A i \in DOMAIN mailbox[r] : mailbox'[r][i] = mailbox[r][i]
        /\ mailbox'[r][n + 1] = m /\ ThreadOf(m.kind) = t
        /\ \A x \in Session, y \in Thread :
              call'[x][y] = IF x = s /\ y = t THEN Call("waiting", m.kind, r) ELSE call[x][y]
    BY <1>3, PostsFacts
  <2>2. call[s][t].at = "submit" /\ Caller(m) = <<s, t>> /\ m.from = s
    BY <1>3, <2>1 DEF Posts, At, Caller
  <2>3. \A q \in Room : \A i \in DOMAIN mailbox[q] : mailbox[q][i].awaited =>
           /\ Caller(mailbox[q][i]) # <<s, t>> /\ WaitingNext(mailbox[q][i], q)
    <3> SUFFICES ASSUME NEW q \in Room, NEW i \in DOMAIN mailbox[q], mailbox[q][i].awaited
                 PROVE  Caller(mailbox[q][i]) # <<s, t>> /\ WaitingNext(mailbox[q][i], q)
      OBVIOUS
    <3> DEFINE a == mailbox[q][i].from
               b == ThreadOf(mailbox[q][i].kind)
    <3>1. a \in Session /\ b \in Thread /\ call[a][b].at = "waiting" /\ Waiting(mailbox[q][i], q)
      BY <1>0, <1>1
    <3>2. ~(a = s /\ b = t)
      BY <2>2, <3>1
    <3> HIDE DEF a, b
    <3>3. call'[a][b] = call[a][b]
      <4>1. call'[a][b] = IF a = s /\ b = t THEN Call("waiting", m.kind, r) ELSE call[a][b]
        BY <2>1, <3>1
      <4> QED BY <3>2, <4>1
    <3> USE DEF a, b
    <3> QED BY <3>1, <3>2, <3>3 DEF Caller
  <2>4. WaitingNext(m, r)
    BY <2>1, <2>2
  <2> HIDE DEF m, n, r
  <2>5. \A i \in DOMAIN mailbox'[r] : i \in DOMAIN mailbox[r] \/ i = n + 1
    BY <2>1
  <2> HIDE DEF WaitingNext
  <2>6. \A i \in DOMAIN mailbox'[r] : mailbox'[r][i].awaited =>
           /\ WaitingNext(mailbox'[r][i], r)
           /\ \A j \in DOMAIN mailbox'[r] :
                 mailbox'[r][j].awaited /\ Caller(mailbox'[r][j]) = Caller(mailbox'[r][i]) => i = j
    BY <1>1, <2>1, <2>2, <2>3, <2>4, <2>5
  <2>7. \A q \in Room : q # r => \A i \in DOMAIN mailbox'[q] : mailbox'[q][i].awaited =>
           /\ WaitingNext(mailbox'[q][i], q)
           /\ \A j \in DOMAIN mailbox'[q] :
                 mailbox'[q][j].awaited /\ Caller(mailbox'[q][j]) = Caller(mailbox'[q][i]) => i = j
    BY <1>1, <2>1, <2>3
  <2> QED BY <2>6, <2>7
<1>4. ASSUME NEW s \in Session, NEW t \in Thread, GiveUp(s, t) PROVE Goal
  <2> DEFINE r == call[s][t].room
  <2>1. /\ r \in Room /\ call[s][t].at = "waiting"
        /\ \A q \in Room : q # r => mailbox'[q] = mailbox[q]
        /\ DOMAIN mailbox'[r] = DOMAIN mailbox[r]
        /\ \A i \in DOMAIN mailbox[r] :
              \/ Caller(mailbox[r][i]) # <<s, t>> /\ mailbox'[r][i] = mailbox[r][i]
              \/ Caller(mailbox[r][i]) = <<s, t>> /\ ~mailbox'[r][i].awaited
    <3>1. /\ At(s, t, "waiting") /\ r \in Room
          /\ \A q \in Room : q # r => mailbox'[q] = mailbox[q]
          /\ DOMAIN mailbox'[r] = DOMAIN mailbox[r]
      BY <1>4, GiveUpFacts
    <3>2. \A i \in DOMAIN mailbox[r] :
             \/ Caller(mailbox[r][i]) # <<s, t>> /\ mailbox'[r][i] = mailbox[r][i]
             \/ Caller(mailbox[r][i]) = <<s, t>> /\ ~mailbox'[r][i].awaited
      BY <1>4, GiveUpFacts
    <3> QED BY <3>1, <3>2 DEF At
  <2>2. \A x \in Session, y \in Thread : ~(x = s /\ y = t) => call'[x][y] = call[x][y]
    BY <1>4, GiveUpFacts
  <2>3. \A q \in Room : \A i \in DOMAIN mailbox[q] :
           mailbox[q][i].awaited /\ Caller(mailbox[q][i]) # <<s, t>> => WaitingNext(mailbox[q][i], q)
    <3> SUFFICES ASSUME NEW q \in Room, NEW i \in DOMAIN mailbox[q],
                        mailbox[q][i].awaited, Caller(mailbox[q][i]) # <<s, t>>
                 PROVE  WaitingNext(mailbox[q][i], q)
      OBVIOUS
    <3>1. mailbox[q][i].from \in Session /\ ThreadOf(mailbox[q][i].kind) \in Thread
      BY <1>0, <1>1
    <3>2. Waiting(mailbox[q][i], q)
      BY <1>1
    <3> QED BY <2>2, <3>1, <3>2 DEF Caller
  <2>4. \A q \in Room : \A i \in DOMAIN mailbox'[q] : mailbox'[q][i].awaited =>
           i \in DOMAIN mailbox[q] /\ mailbox'[q][i] = mailbox[q][i] /\ Caller(mailbox[q][i]) # <<s, t>>
    <3>1. \A q \in Room : q # r => \A i \in DOMAIN mailbox[q] : mailbox[q][i].awaited => Caller(mailbox[q][i]) # <<s, t>>
      BY <1>1 DEF Caller
    <3> QED BY <2>1, <3>1
  <2> HIDE DEF WaitingNext
  <2> QED BY <1>1, <2>3, <2>4
<1>5. ASSUME NEW r \in Room, NEW ok \in BOOLEAN, mailbox[r] # <<>>, Answer(r, ok) PROVE Goal
  <2> DEFINE m == mailbox[r][1]
  <2>1. /\ m.from \in Session /\ ThreadOf(m.kind) \in Thread
        /\ DOMAIN mailbox[r] = 1 .. Len(mailbox[r]) /\ Len(mailbox[r]) \in Nat \ {0}
        /\ \A q \in Room : q # r => mailbox'[q] = mailbox[q]
        /\ DOMAIN mailbox'[r] = 1 .. Len(mailbox[r]) - 1
        /\ \A i \in DOMAIN mailbox'[r] : mailbox'[r][i] = mailbox[r][i + 1]
        /\ \A x \in Session, y \in Thread :
              ~(m.awaited /\ x = m.from /\ y = ThreadOf(m.kind)) => call'[x][y] = call[x][y]
    BY <1>5, AnswerFacts DEF Posted
  <2>2. 1 \in DOMAIN mailbox[r] /\ \A i \in DOMAIN mailbox'[r] : i \in Nat /\ i + 1 \in DOMAIN mailbox[r] /\ i + 1 # 1
    BY <2>1
  <2>3. \A q \in Room : \A i \in DOMAIN mailbox[q] :
           mailbox[q][i].awaited /\ (q = r => i # 1) => WaitingNext(mailbox[q][i], q)
    <3> SUFFICES ASSUME NEW q \in Room, NEW i \in DOMAIN mailbox[q], mailbox[q][i].awaited, q = r => i # 1
                 PROVE  WaitingNext(mailbox[q][i], q)
      OBVIOUS
    <3>1. m.awaited => ~(mailbox[q][i].from = m.from /\ ThreadOf(mailbox[q][i].kind) = ThreadOf(m.kind))
      BY <1>1, <2>2 DEF Caller
    <3> QED BY <1>0, <1>1, <2>1, <3>1
  <2> HIDE DEF WaitingNext, m
  <2>4. \A i \in DOMAIN mailbox'[r] : mailbox'[r][i].awaited =>
           /\ WaitingNext(mailbox'[r][i], r)
           /\ \A j \in DOMAIN mailbox'[r] :
                 mailbox'[r][j].awaited /\ Caller(mailbox'[r][j]) = Caller(mailbox'[r][i]) => i + 1 = j + 1
    <3> SUFFICES ASSUME NEW i \in DOMAIN mailbox'[r], mailbox'[r][i].awaited
                 PROVE  /\ WaitingNext(mailbox'[r][i], r)
                        /\ \A j \in DOMAIN mailbox'[r] :
                              mailbox'[r][j].awaited /\ Caller(mailbox'[r][j]) = Caller(mailbox'[r][i]) => i + 1 = j + 1
      OBVIOUS
    <3>1. i + 1 \in DOMAIN mailbox[r] /\ i + 1 # 1 /\ mailbox'[r][i] = mailbox[r][i + 1]
      BY <2>1, <2>2
    <3>2. WaitingNext(mailbox[r][i + 1], r)
      BY <2>3, <3>1
    <3>3. \A j \in DOMAIN mailbox'[r] : j + 1 \in DOMAIN mailbox[r] /\ mailbox'[r][j] = mailbox[r][j + 1]
      BY <2>1, <2>2
    <3> QED BY <1>1, <3>1, <3>2, <3>3
  <2>5. \A q \in Room : q # r => \A i \in DOMAIN mailbox'[q] : mailbox'[q][i].awaited =>
           /\ WaitingNext(mailbox'[q][i], q)
           /\ \A j \in DOMAIN mailbox'[q] :
                 mailbox'[q][j].awaited /\ Caller(mailbox'[q][j]) = Caller(mailbox'[q][i]) => i = j
    BY <1>1, <2>1, <2>3
  <2>6. \A i, j \in DOMAIN mailbox'[r] : i + 1 = j + 1 => i = j
    BY <2>2
  <2> QED BY <2>4, <2>5, <2>6
<1>6. ASSUME NEW r \in Room, Destroy(r) PROVE Goal
  <2>1. /\ \A q \in Room : q # r => mailbox'[q] = mailbox[q]
        /\ mailbox'[r] = <<>>
        /\ \A x \in Session, y \in Thread : call[x][y].room # r => call'[x][y] = call[x][y]
    BY <1>6, DestroyFacts
  <2>2. \A q \in Room : q # r => \A i \in DOMAIN mailbox[q] : mailbox[q][i].awaited => WaitingNext(mailbox[q][i], q)
    BY <1>0, <1>1, <2>1
  <2>3. DOMAIN mailbox'[r] = {}
    BY <2>1
  <2> HIDE DEF WaitingNext
  <2> QED BY <1>1, <2>1, <2>2, <2>3
<1>7. ASSUME UNCHANGED <<mailbox, call>> PROVE Goal
  BY <1>1, <1>7
<1> HIDE DEF Goal
<1>8. Goal
  BY <1>2, <1>3, <1>4, <1>5, <1>6, <1>7, MovesOfCalls
<1>9. QED BY <1>8 DEF Goal, CommandsHaveCallers

(* A step keeps CallersHaveCommands. The command that leaves a mailbox is  *)
(* that of the caller who is answered, for no caller has two.              *)
LEMMA CallersKept ==
    ASSUME TypeOK, CallsFit, CommandsHaveCallers, CallersHaveCommands, Next
    PROVE  CallersHaveCommands'
<1> DEFINE Entry(c, x) == [kind |-> c.kind, from |-> x, awaited |-> TRUE]
           Goal == \A x \in Session, y \in Thread : call'[x][y].at = "waiting" =>
                      \E i \in DOMAIN mailbox'[call'[x][y].room] :
                         mailbox'[call'[x][y].room][i] = Entry(call'[x][y], x)
<1>0. \A x \in Session, y \in Thread : call[x][y] \in Calls
  BY DEF TypeOK, Calls
<1>1. ASSUME NEW x \in Session, NEW y \in Thread, call[x][y].at = "waiting"
      PROVE  /\ call[x][y].room \in Room /\ ThreadOf(call[x][y].kind) = y
             /\ \E i \in DOMAIN mailbox[call[x][y].room] :
                   mailbox[call[x][y].room][i] = Entry(call[x][y], x)
  <2>1. call[x][y].room \in Room /\ ThreadOf(call[x][y].kind) = y
    BY <1>1 DEF TypeOK, CallsFit, At
  <2> QED BY <1>1, <2>1 DEF CallersHaveCommands, At
<1>2. ASSUME NEW s \in Session, NEW t \in Thread, NEW c \in Calls, Moves(s, t, c) PROVE Goal
  <2>1. \A x \in Session, y \in Thread : call'[x][y] = IF x = s /\ y = t THEN c ELSE call[x][y]
    BY <1>2, GoesFacts DEF Moves, TypeOK, Calls
  <2>2. mailbox' = mailbox /\ c.at # "waiting"
    BY <1>2 DEF Moves
  <2> HIDE DEF Entry
  <2> QED BY <1>1, <2>1, <2>2
<1>3. ASSUME NEW s \in Session, NEW t \in Thread, Posts(s, t) PROVE Goal
  <2> DEFINE r == call[s][t].room
             n == Len(mailbox[r])
             k == call[s][t].kind
  <2>1. /\ r \in Room /\ n \in Nat /\ DOMAIN mailbox[r] = 1 .. n
        /\ \A q \in Room : q # r => mailbox'[q] = mailbox[q]
        /\ DOMAIN mailbox'[r] = 1 .. n + 1
        /\ \A i \in DOMAIN mailbox[r] : mailbox'[r][i] = mailbox[r][i]
        /\ mailbox'[r][n + 1] = [kind |-> k, from |-> s, awaited |-> TRUE]
        /\ \A x \in Session, y \in Thread :
              call'[x][y] = IF x = s /\ y = t THEN Call("waiting", k, r) ELSE call[x][y]
    BY <1>3, PostsFacts
  <2>2. /\ call'[s][t].room = r /\ n + 1 \in DOMAIN mailbox'[r]
        /\ mailbox'[r][n + 1] = Entry(call'[s][t], s)
    <3>1. call'[s][t] = Call("waiting", k, r) /\ n + 1 \in DOMAIN mailbox'[r]
      <4>1. call'[s][t] = IF s = s /\ t = t THEN Call("waiting", k, r) ELSE call[s][t]
        BY <2>1
      <4>2. n + 1 \in DOMAIN mailbox'[r]
        BY <2>1
      <4> QED BY <4>1, <4>2
    <3>2. call'[s][t].room = r /\ call'[s][t].kind = k
      BY <3>1 DEF Call
    <3> QED BY <2>1, <3>1, <3>2
  <2> HIDE DEF Entry, r, n, k
  <2>3. ASSUME NEW q \in Room, NEW i \in DOMAIN mailbox[q]
        PROVE  i \in DOMAIN mailbox'[q] /\ mailbox'[q][i] = mailbox[q][i]
    <3>1. CASE q = r
      BY <2>1, <2>3, <3>1
    <3>2. CASE q # r
      BY <2>1, <2>3, <3>2
    <3> QED BY <3>1, <3>2
  <2>4. ASSUME NEW x \in Session, NEW y \in Thread, call'[x][y].at = "waiting", ~(x = s /\ y = t)
        PROVE  \E i \in DOMAIN mailbox'[call'[x][y].room] : mailbox'[call'[x][y].room][i] = Entry(call'[x][y], x)
    <3>1. call'[x][y] = call[x][y] /\ call[x][y].at = "waiting"
      BY <2>1, <2>4
    <3>2. PICK i \in DOMAIN mailbox[call[x][y].room] : mailbox[call[x][y].room][i] = Entry(call[x][y], x)
      BY <1>1, <3>1
    <3> QED BY <1>1, <2>3, <3>1, <3>2
  <2> QED BY <2>2, <2>4
<1>4. ASSUME NEW s \in Session, NEW t \in Thread, GiveUp(s, t) PROVE Goal
  <2> DEFINE r == call[s][t].room
  <2>1. /\ r \in Room
        /\ \A q \in Room : q # r => mailbox'[q] = mailbox[q]
        /\ DOMAIN mailbox'[r] = DOMAIN mailbox[r]
        /\ \A i \in DOMAIN mailbox[r] : Caller(mailbox[r][i]) # <<s, t>> => mailbox'[r][i] = mailbox[r][i]
        /\ \A x \in Session, y \in Thread :
              call'[x][y] = IF x = s /\ y = t THEN Rejected(call[s][t]) ELSE call[x][y]
    <3>1. /\ r \in Room
          /\ \A q \in Room : q # r => mailbox'[q] = mailbox[q]
          /\ DOMAIN mailbox'[r] = DOMAIN mailbox[r]
      BY <1>4, GiveUpFacts
    <3>2. \A i \in DOMAIN mailbox[r] :
             \/ Caller(mailbox[r][i]) # <<s, t>> /\ mailbox'[r][i] = mailbox[r][i]
             \/ Caller(mailbox[r][i]) = <<s, t>> /\ ~mailbox'[r][i].awaited
      BY <1>4, GiveUpFacts
    <3>3. \A x \in Session, y \in Thread :
             call'[x][y] = IF x = s /\ y = t THEN Rejected(call[s][t]) ELSE call[x][y]
      BY <1>4, GiveUpFacts
    <3> QED BY <3>1, <3>2, <3>3
  <2>2. Rejected(call[s][t]).at = "returned"
    BY <1>0, RejectedIsOne
  <2>3. ASSUME NEW x \in Session, NEW y \in Thread, call'[x][y].at = "waiting"
        PROVE  \E i \in DOMAIN mailbox'[call'[x][y].room] : mailbox'[call'[x][y].room][i] = Entry(call'[x][y], x)
    <3>1. call'[x][y] = call[x][y] /\ call[x][y].at = "waiting" /\ ~(x = s /\ y = t)
      BY <2>1, <2>2, <2>3
    <3>2. PICK i \in DOMAIN mailbox[call[x][y].room] : mailbox[call[x][y].room][i] = Entry(call[x][y], x)
      BY <1>1, <3>1
    <3>3. Caller(mailbox[call[x][y].room][i]) # <<s, t>>
      BY <1>1, <3>1, <3>2 DEF Caller
    <3>4. i \in DOMAIN mailbox'[call[x][y].room] /\ mailbox'[call[x][y].room][i] = mailbox[call[x][y].room][i]
      BY <1>1, <2>1, <3>1, <3>2, <3>3
    <3> HIDE DEF Entry
    <3> QED BY <3>1, <3>2, <3>4
  <2> QED BY <2>3
<1>5. ASSUME NEW r \in Room, NEW ok \in BOOLEAN, mailbox[r] # <<>>, Answer(r, ok) PROVE Goal
  <2> DEFINE m == mailbox[r][1]
  <2>1. /\ m.from \in Session /\ ThreadOf(m.kind) \in Thread
        /\ DOMAIN mailbox[r] = 1 .. Len(mailbox[r]) /\ Len(mailbox[r]) \in Nat \ {0}
        /\ \A q \in Room : q # r => mailbox'[q] = mailbox[q]
        /\ DOMAIN mailbox'[r] = 1 .. Len(mailbox[r]) - 1
        /\ \A i \in DOMAIN mailbox'[r] : mailbox'[r][i] = mailbox[r][i + 1]
        /\ \A x \in Session, y \in Thread :
              call'[x][y] = IF m.awaited /\ x = m.from /\ y = ThreadOf(m.kind)
                            THEN Answered(call[x][y], ok) ELSE call[x][y]
    BY <1>5, AnswerFacts DEF Posted
  <2>2. \A x \in Session, y \in Thread : Answered(call[x][y], ok).at = "returned"
    BY <1>0, AnsweredIsOne
  <2>3. ASSUME NEW x \in Session, NEW y \in Thread, call'[x][y].at = "waiting"
        PROVE  \E i \in DOMAIN mailbox'[call'[x][y].room] : mailbox'[call'[x][y].room][i] = Entry(call'[x][y], x)
    <3>1. /\ ~(m.awaited /\ x = m.from /\ y = ThreadOf(m.kind))
          /\ call'[x][y] = call[x][y] /\ call[x][y].at = "waiting"
      <4>1. ~(m.awaited /\ x = m.from /\ y = ThreadOf(m.kind))
        BY <2>1, <2>2, <2>3
      <4> QED BY <2>1, <2>3, <4>1
    <3>2. PICK i \in DOMAIN mailbox[call[x][y].room] : mailbox[call[x][y].room][i] = Entry(call[x][y], x)
      BY <1>1, <3>1
    <3>3. CASE call[x][y].room # r
      <4> HIDE DEF Entry
      <4> QED BY <1>1, <2>1, <3>1, <3>2, <3>3
    <3>4. CASE call[x][y].room = r
      <4>1. i # 1
        BY <1>1, <3>1, <3>2, <3>4
      <4>2. i \in Nat /\ i - 1 \in DOMAIN mailbox'[r] /\ (i - 1) + 1 = i
        BY <2>1, <3>2, <3>4, <4>1
      <4> HIDE DEF Entry
      <4>3. mailbox'[r][i - 1] = mailbox[r][i]
        BY <2>1, <4>2
      <4> QED BY <3>1, <3>2, <3>4, <4>2, <4>3
    <3> QED BY <3>3, <3>4
  <2> QED BY <2>3
<1>6. ASSUME NEW r \in Room, Destroy(r) PROVE Goal
  <2>1. /\ \A q \in Room : q # r => mailbox'[q] = mailbox[q]
        /\ \A x \in Session, y \in Thread :
              call'[x][y] = IF At(x, y, "waiting") /\ call[x][y].room = r THEN Rejected(call[x][y]) ELSE call[x][y]
    BY <1>6, DestroyFacts
  <2>2. \A x \in Session, y \in Thread : Rejected(call[x][y]).at = "returned"
    BY <1>0, RejectedIsOne
  <2>3. ASSUME NEW x \in Session, NEW y \in Thread, call'[x][y].at = "waiting"
        PROVE  \E i \in DOMAIN mailbox'[call'[x][y].room] : mailbox'[call'[x][y].room][i] = Entry(call'[x][y], x)
    <3>1. call'[x][y] = call[x][y] /\ call[x][y].at = "waiting" /\ call[x][y].room # r
      <4>1. ~(At(x, y, "waiting") /\ call[x][y].room = r)
        BY <2>1, <2>2, <2>3
      <4> QED BY <2>1, <2>3, <4>1 DEF At
    <3> HIDE DEF Entry
    <3> QED BY <1>1, <2>1, <3>1
  <2> QED BY <2>3
<1>7. ASSUME UNCHANGED <<mailbox, call>> PROVE Goal
  BY <1>1, <1>7
<1> HIDE DEF Goal
<1>8. Goal
  BY <1>2, <1>3, <1>4, <1>5, <1>6, <1>7, MovesOfCalls
<1>9. QED BY <1>8 DEF Goal, CallersHaveCommands, At

(* A step keeps GoneIsEmpty. Commands are posted to listed rooms and seats *)
(* taken in rooms that serve a command or are being published.             *)
LEMMA GoneKept ==
    ASSUME TypeOK, CallsFit, GoneIsEmpty, Next
    PROVE  GoneIsEmpty'
<1> DEFINE Goal == \A r \in Room \ listed' : mailbox'[r] = <<>> /\ \A p \in Player : seat'[r][p] = NoSeat
<1>0. /\ \A r \in Room \ listed : mailbox[r] = <<>> /\ \A p \in Player : seat[r][p] = NoSeat
      /\ listed \subseteq Room
  BY DEF GoneIsEmpty, Seated, TypeOK
<1>1. ASSUME NEW s \in Session, NEW t \in Thread, Submit(s, t) PROVE Goal
  <2>1. CASE mailbox' = mailbox
    BY <1>0, <1>1, <2>1 DEF Submit
  <2>2. CASE mailbox' # mailbox
    <3>1. Posts(s, t)
      BY <1>1, <2>2 DEF Submit, Posts
    <3>2. /\ call[s][t].room \in listed /\ UNCHANGED <<listed, seat>>
          /\ \A q \in Room : q # call[s][t].room => mailbox'[q] = mailbox[q]
      BY <1>1, <3>1, PostsFacts DEF Submit
    <3> QED BY <1>0, <3>2
  <2> QED BY <2>1, <2>2
<1>2. ASSUME NEW s \in Session, NEW t \in Thread, GiveUp(s, t) PROVE Goal
  <2> DEFINE r == call[s][t].room
  <2>1. /\ \A q \in Room : q # r => mailbox'[q] = mailbox[q]
        /\ mailbox' \in [Room -> Seq(Posted)] /\ r \in Room
        /\ DOMAIN mailbox'[r] = DOMAIN mailbox[r]
        /\ UNCHANGED <<listed, seat>>
    BY <1>2, GiveUpFacts DEF GiveUp
  <2>2. mailbox[r] = <<>> => mailbox'[r] = <<>>
    <3>1. mailbox'[r] \in Seq(Posted)
      BY <2>1
    <3>2. mailbox[r] = <<>> => DOMAIN mailbox'[r] = {}
      BY <2>1
    <3>3. \A m \in Seq(Posted) : DOMAIN m = {} => m = <<>>
      <4> SUFFICES ASSUME NEW m \in Seq(Posted), DOMAIN m = {} PROVE m = <<>>
        OBVIOUS
      <4>1. Len(m) = 0
        BY DOMAIN m = 1 .. Len(m), Len(m) \in Nat
      <4> QED BY <4>1, EmptySeq
    <3> QED BY <3>1, <3>2, <3>3
  <2> QED BY <1>0, <2>1, <2>2
<1>3. ASSUME NEW s \in Session, HelloFails(s) \/ Publish(s) \/ (\E t \in Thread : LookUp(s, t) \/ Return(s, t))
      PROVE  Goal
  <2>1. CASE Publish(s)
    <3>1. PICK r \in Room \ used :
             /\ listed' = listed \cup {r} /\ seat' = [seat EXCEPT ![r][PlayerOf[s]] = s] /\ mailbox' = mailbox
      BY <2>1 DEF Publish
    <3>2. \A q \in Room : q # r => seat'[q] = seat[q]
      BY <3>1 DEF TypeOK
    <3> QED BY <1>0, <3>1, <3>2
  <2>2. CASE ~Publish(s)
    <3>1. UNCHANGED <<listed, seat, mailbox>>
      BY <1>3, <2>2 DEF HelloFails, LookUp, Return, rooms
    <3> QED BY <1>0, <3>1
  <2> QED BY <2>1, <2>2
<1>4. ASSUME NEW s \in Session,
             Open(s) \/ Close(s) \/ AskCreate(s) \/ (\E r \in Room : AskJoin(s, r)) \/ (\E k \in Kind : Forward(s, k))
      PROVE  Goal
  <2>1. UNCHANGED <<listed, seat, mailbox>>
    BY <1>4 DEF Open, Close, AskCreate, AskJoin, Forward, rooms
  <2> QED BY <1>0, <2>1
<1>5. ASSUME NEW r \in Room, Destroy(r) PROVE Goal
  <2>1. /\ listed' = listed \ {r} /\ mailbox'[r] = <<>> /\ \A p \in Player : seat'[r][p] = NoSeat
        /\ \A q \in Room : q # r => seat'[q] = seat[q] /\ mailbox'[q] = mailbox[q]
    BY <1>5, DestroyFacts
  <2> QED BY <1>0, <2>1
<1>6. ASSUME NEW r \in Room, NEW ok \in BOOLEAN, mailbox[r] # <<>>, Answer(r, ok), listed' = listed,
             \/ seat' = seat
             \/ \E p \in Player, who \in Session \cup {NoSeat, Away, Abandoned} : seat' = [seat EXCEPT ![r][p] = who]
      PROVE  Goal
  <2>1. r \in listed /\ \A q \in Room : q # r => mailbox'[q] = mailbox[q]
    BY <1>0, <1>6, AnswerFacts
  <2>2. \A q \in Room : q # r => seat'[q] = seat[q]
    BY <1>6 DEF TypeOK
  <2> QED BY <1>0, <1>6, <2>1, <2>2
<1>7. ASSUME NEW r \in Room, NEW p \in Player, mailbox[r] # <<>>, RemoveMember(r, p) PROVE Goal
  <2>1. CASE Destroy(r)
    BY <1>5, <2>1
  <2>2. CASE ~Destroy(r)
    <3>1. Answer(r, TRUE) /\ listed' = listed /\ seat' = [seat EXCEPT ![r][p] = NoSeat]
      BY <1>7, <2>2 DEF RemoveMember
    <3> QED BY <1>6, <1>7, <3>1
  <2> QED BY <2>1, <2>2
<1>8. ASSUME NEW r \in Room, Serves(r) PROVE Goal
  <2>1. PlayerOf \in [Session -> Player]
    BY RoutingAssumption
  <2>2. CASE Refuse(r)
    BY <1>6, <2>2 DEF Refuse
  <2>3. ASSUME NEW s \in Session, Snapshot(r, s) \/ Start(r, s) PROVE Goal
    BY <1>6, <2>3 DEF Snapshot, Start, Command
  <2>4. ASSUME NEW s \in Session, Join(r, s) \/ Reconnect(r, s) PROVE Goal
    BY <1>6, <2>1, <2>4 DEF Join, Reconnect, Command, SetSeat
  <2>5. ASSUME NEW s \in Session, Disconnect(r, s) \/ Leave(r, s) PROVE Goal
    BY <1>6, <1>7, <2>1, <2>5 DEF Disconnect, Leave, Command, SetSeat
  <2>6. ASSUME NEW s \in Session, Kick(r, s) PROVE Goal
    BY <1>7, <2>6 DEF Kick, Command, Seated
  <2> QED BY <1>8, <2>2, <2>3, <2>4, <2>5, <2>6 DEF Serves
<1>9. ASSUME NEW r \in Room, RoundEnds(r) \/ EmptyRoomTimesOut(r) PROVE Goal
  BY <1>0, <1>5, <1>9 DEF RoundEnds, EmptyRoomTimesOut
<1> HIDE DEF Goal
<1>10. Goal
  BY <1>1, <1>2, <1>3, <1>4, <1>8, <1>9 DEF Next, Goroutine
<1>11. QED BY <1>10 DEF Goal, GoneIsEmpty, Seated

(* All of it holds at the start, with a room from before a restart or      *)
(* without.                                                                *)
LEMMA InitFits ==
    Init => TypeOK /\ GoneIsEmpty /\ CallsFit /\ CommandsHaveCallers /\ CallersHaveCommands
<1> SUFFICES ASSUME Init PROVE TypeOK /\ GoneIsEmpty /\ CallsFit /\ CommandsHaveCallers /\ CallersHaveCommands
  OBVIOUS
<1>1. /\ \A s \in Session, t \in Thread : call[s][t] = Idle
      /\ \A s \in Session : conn[s] = "new"
      /\ \A r \in Room : mailbox[r] = <<>>
      /\ used = listed
  BY DEF Init
<1>2. call \in [Session -> [Thread -> Calls]] /\ conn \in [Session -> {"new", "open", "closed"}]
  BY IdleIsOne DEF Init
<1>3. mailbox \in [Room -> Seq(Posted)]
  <2>1. <<>> \in Seq(Posted)
    OBVIOUS
  <2> QED BY <2>1 DEF Init
<1>4. /\ listed \subseteq Room
      /\ playerRoom \in [Player -> Room \cup {NoRoom}]
      /\ seat \in [Room -> [Player -> Session \cup {NoSeat, Away, Abandoned}]]
      /\ owner \in [Room -> Player \cup {NoPlayer}]
      /\ phase \in [Room -> {"waiting", "playing", "settled"}]
      /\ \A r \in listed : owner[r] \in Player /\ seat[r][owner[r]] # NoSeat
      /\ \A r \in Room \ listed, p \in Player : seat[r][p] = NoSeat
  <2>1. CASE Fresh
    BY <2>1 DEF Fresh
  <2>2. CASE Restored
    <3>1. PICK r \in Room, p \in Player, away \in SUBSET Player, left \in SUBSET Player, ph \in {"waiting", "playing"} :
             /\ p \in away \cup left /\ away \cap left = {}
             /\ listed = {r}
             /\ playerRoom = [q \in Player |-> IF q \in away THEN r ELSE NoRoom]
             /\ seat = [x \in Room |-> [q \in Player |->
                          CASE x = r /\ q \in away -> Away
                            [] x = r /\ q \in left -> Abandoned
                            [] OTHER -> NoSeat]]
             /\ owner = [x \in Room |-> IF x = r THEN p ELSE NoPlayer]
             /\ phase = [x \in Room |-> IF x = r THEN ph ELSE "waiting"]
      BY <2>2 DEF Restored
    <3>2. /\ seat \in [Room -> [Player -> Session \cup {NoSeat, Away, Abandoned}]]
          /\ \A x \in Room, q \in Player : x # r => seat[x][q] = NoSeat
          /\ \A q \in Player : q \in away => seat[r][q] = Away
          /\ \A q \in Player : q \in left /\ q \notin away => seat[r][q] = Abandoned
      <4> DEFINE v(x, q) == CASE x = r /\ q \in away -> Away
                              [] x = r /\ q \in left -> Abandoned
                              [] OTHER -> NoSeat
      <4>1. \A x \in Room, q \in Player :
               /\ v(x, q) \in Session \cup {NoSeat, Away, Abandoned}
               /\ x # r => v(x, q) = NoSeat
               /\ x = r /\ q \in away => v(x, q) = Away
               /\ x = r /\ q \in left /\ q \notin away => v(x, q) = Abandoned
        <5> SUFFICES ASSUME NEW x \in Room, NEW q \in Player
                     PROVE  /\ v(x, q) \in Session \cup {NoSeat, Away, Abandoned}
                            /\ x # r => v(x, q) = NoSeat
                            /\ x = r /\ q \in away => v(x, q) = Away
                            /\ x = r /\ q \in left /\ q \notin away => v(x, q) = Abandoned
          OBVIOUS
        <5>1. CASE x # r
          BY <5>1
        <5>2. CASE x = r /\ q \in away
          BY <3>1, <5>2
        <5>3. CASE x = r /\ q \notin away /\ q \in left
          BY <5>3
        <5>4. CASE x = r /\ q \notin away /\ q \notin left
          BY <5>4
        <5> QED BY <5>1, <5>2, <5>3, <5>4
      <4>2. seat = [x \in Room |-> [q \in Player |-> v(x, q)]]
        BY <3>1
      <4> HIDE DEF v
      <4> QED BY <4>1, <4>2
    <3> QED BY <3>1, <3>2, RoutingAssumption
  <2> QED BY <2>1, <2>2 DEF Init
<1>5. \A r \in listed : owner[r] \in Seated(r)
  BY <1>4 DEF Seated
<1>6. TypeOK
  BY <1>1, <1>2, <1>3, <1>4, <1>5, IdleIsOne DEF TypeOK, At, Posted, Calls
<1>7. GoneIsEmpty
  BY <1>1, <1>4 DEF GoneIsEmpty, Seated
<1>8. CallsFit /\ CallersHaveCommands
  BY <1>1, IdleIsOne DEF CallsFit, CallersHaveCommands, At, Thread
<1>9. CommandsHaveCallers
  BY <1>1 DEF CommandsHaveCallers
<1>10. QED BY <1>6, <1>7, <1>8, <1>9

(* The inductive invariant, for every set of players, connections and      *)
(* rooms, with a room from before a restart or without, with load or       *)
(* without: the types, and that the calls under way and the commands in    *)
(* the mailboxes belong together one to one.                               *)
THEOREM RoutingInvariant ==
    Spec => [](TypeOK /\ GoneIsEmpty /\ CallsFit /\ CommandsHaveCallers /\ CallersHaveCommands)
<1>1. TypeOK /\ GoneIsEmpty /\ CallsFit /\ CommandsHaveCallers /\ CallersHaveCommands /\ [Next]_vars =>
         (TypeOK /\ GoneIsEmpty /\ CallsFit /\ CommandsHaveCallers /\ CallersHaveCommands)'
  <2>1. ASSUME UNCHANGED vars
        PROVE  /\ GoneIsEmpty' <=> GoneIsEmpty
               /\ CallsFit' <=> CallsFit
               /\ CommandsHaveCallers' <=> CommandsHaveCallers
               /\ CallersHaveCommands' <=> CallersHaveCommands
    BY <2>1 DEF vars, rooms, GoneIsEmpty, Seated, CallsFit, CommandsHaveCallers, CallersHaveCommands, Caller, At
  <2> QED BY <2>1, TypesKept, GoneKept, FitKept, CommandsKept, CallersKept
<1>2. QED BY <1>1, InitFits, PTL DEF Spec

(* The types hold, and no room is left on the server without its members:  *)
(* its owner is one of them (removeMember, electOwner and beginDestroy in  *)
(* src/internal/room).                                                     *)
THEOREM RoutingTyped == Spec => []TypeOK
BY RoutingInvariant, PTL

(* Who waits for a room waits for one that is on the server and has its    *)
(* command: neither the destruction of a room nor the end of another call  *)
(* leaves a waiting goroutine behind.                                      *)
CallersAreHeard ==
    \A s \in Session, t \in Thread :
        At(s, t, "waiting") =>
            LET c == call[s][t]
            IN  c.room \in listed /\ \E i \in DOMAIN mailbox[c.room] :
                   mailbox[c.room][i] = [kind |-> c.kind, from |-> s, awaited |-> TRUE]

(* No goroutine waits for a room that does not have its command            *)
(* (submitSync and rejectPendingCommands): the part of CallsReturn that is *)
(* safety.                                                                 *)
THEOREM NobodyWaitsInVain == Spec => []CallersAreHeard
<1>1. TypeOK /\ GoneIsEmpty /\ CallersHaveCommands => CallersAreHeard
  <2> SUFFICES ASSUME TypeOK, GoneIsEmpty, CallersHaveCommands, NEW s \in Session, NEW t \in Thread,
                      At(s, t, "waiting")
               PROVE  LET c == call[s][t]
                      IN  c.room \in listed /\ \E i \in DOMAIN mailbox[c.room] :
                             mailbox[c.room][i] = [kind |-> c.kind, from |-> s, awaited |-> TRUE]
    BY DEF CallersAreHeard
  <2>1. PICK i \in DOMAIN mailbox[call[s][t].room] :
           mailbox[call[s][t].room][i] = [kind |-> call[s][t].kind, from |-> s, awaited |-> TRUE]
    BY DEF CallersHaveCommands
  <2>2. call[s][t].room \in Room /\ mailbox[call[s][t].room] # <<>>
    BY <2>1 DEF TypeOK
  <2> QED BY <2>1, <2>2 DEF GoneIsEmpty
<1>2. QED BY <1>1, RoutingInvariant, PTL

-----------------------------------------------------------------------------
(* What a step can do to a seat: free it, or one of the handlers for a     *)
(* connection of its player.                                               *)
LEMMA SeatChanges ==
    ASSUME TypeOK, GoneIsEmpty, Next, NEW r \in Room, NEW p \in Player
    PROVE  \/ seat'[r][p] \in {seat[r][p], NoSeat}
           \/ \E s \in Session :
                 /\ PlayerOf[s] = p
                 /\ \/ seat'[r][p] = s /\ r \notin used /\ Publish(s)
                    \/ seat'[r][p] = s /\ (Join(r, s) \/ Reconnect(r, s))
                    \/ seat'[r][p] = Away /\ Bound(r, s) /\ phase[r] = "playing" /\ Disconnect(r, s)
                    \/ seat'[r][p] = Abandoned /\ Bound(r, s) /\ Leave(r, s)
<1> DEFINE Goal == \/ seat'[r][p] \in {seat[r][p], NoSeat}
                   \/ \E s \in Session :
                         /\ PlayerOf[s] = p
                         /\ \/ seat'[r][p] = s /\ r \notin used /\ Publish(s)
                            \/ seat'[r][p] = s /\ (Join(r, s) \/ Reconnect(r, s))
                            \/ seat'[r][p] = Away /\ Bound(r, s) /\ phase[r] = "playing" /\ Disconnect(r, s)
                            \/ seat'[r][p] = Abandoned /\ Bound(r, s) /\ Leave(r, s)
<1>0. seat \in [Room -> [Player -> Session \cup {NoSeat, Away, Abandoned}]]
  BY DEF TypeOK
<1>1. ASSUME seat' = seat PROVE Goal
  BY <1>1
<1>2. ASSUME NEW q \in Room, NEW x \in Player, NEW who, seat' = [seat EXCEPT ![q][x] = who]
      PROVE  seat'[r][p] = IF q = r /\ x = p THEN who ELSE seat[r][p]
  BY <1>0, <1>2
<1>3. PlayerOf \in [Session -> Player]
  BY RoutingAssumption
<1>4. ASSUME NEW s \in Session, Publish(s) PROVE Goal
  <2>1. PICK q \in Room \ used : seat' = [seat EXCEPT ![q][PlayerOf[s]] = s]
    BY <1>4 DEF Publish
  <2> QED BY <1>2, <1>3, <1>4, <2>1
<1>5. ASSUME NEW q \in Room, Destroy(q) PROVE Goal
  <2>1. (\A x \in Player : seat'[q][x] = NoSeat) /\ (r # q => seat'[r] = seat[r])
    BY <1>5, DestroyFacts
  <2> QED BY <2>1
<1>6. ASSUME NEW q \in Room, NEW x \in Player, RemoveMember(q, x) PROVE Goal
  <2>1. CASE Destroy(q)
    BY <1>5, <2>1
  <2>2. CASE ~Destroy(q)
    <3>1. seat' = [seat EXCEPT ![q][x] = NoSeat]
      BY <1>6, <2>2 DEF RemoveMember
    <3> QED BY <1>2, <3>1
  <2> QED BY <2>1, <2>2
<1>7. ASSUME NEW q \in Room, NEW s \in Session, Join(q, s) \/ Reconnect(q, s) PROVE Goal
  <2>1. seat' = [seat EXCEPT ![q][PlayerOf[s]] = s]
    BY <1>7 DEF Join, Reconnect, SetSeat
  <2> QED BY <1>2, <1>3, <1>7, <2>1
<1>8. ASSUME NEW q \in Room, NEW s \in Session, Disconnect(q, s) PROVE Goal
  <2>1. CASE phase[q] = "playing"
    <3>1. seat' = [seat EXCEPT ![q][PlayerOf[s]] = Away] /\ Bound(q, s)
      BY <1>8, <2>1 DEF Disconnect, SetSeat
    <3> QED BY <1>2, <1>3, <1>8, <2>1, <3>1
  <2>2. CASE phase[q] # "playing"
    BY <1>3, <1>6, <1>8, <2>2 DEF Disconnect
  <2> QED BY <2>1, <2>2
<1>9. ASSUME NEW q \in Room, NEW s \in Session, Leave(q, s) PROVE Goal
  <2>1. CASE phase[q] = "playing"
    <3>1. seat' = [seat EXCEPT ![q][PlayerOf[s]] = Abandoned] /\ Bound(q, s)
      BY <1>9, <2>1 DEF Leave, SetSeat
    <3> QED BY <1>2, <1>3, <1>9, <2>1, <3>1
  <2>2. CASE phase[q] # "playing"
    BY <1>3, <1>6, <1>9, <2>2 DEF Leave
  <2> QED BY <2>1, <2>2
<1>10. ASSUME NEW q \in Room, Serves(q) PROVE Goal
  <2>1. ASSUME NEW s \in Session, Start(q, s) \/ Snapshot(q, s) PROVE Goal
    BY <1>1, <2>1 DEF Start, Snapshot
  <2>2. CASE Refuse(q)
    BY <1>1, <2>2 DEF Refuse
  <2>3. ASSUME NEW s \in Session, Kick(q, s) PROVE Goal
    BY <1>6, <2>3 DEF Kick, Seated
  <2> HIDE DEF Goal
  <2> QED BY <1>7, <1>8, <1>9, <1>10, <2>1, <2>2, <2>3 DEF Serves
<1>11. ASSUME NEW q \in Room, RoundEnds(q) \/ EmptyRoomTimesOut(q) PROVE Goal
  BY <1>1, <1>5, <1>11 DEF RoundEnds, EmptyRoomTimesOut
<1>12. ASSUME NEW s \in Session,
              \/ Open(s) \/ Close(s) \/ AskCreate(s) \/ (Goroutine(s) /\ ~Publish(s))
              \/ (\E q \in Room : AskJoin(s, q)) \/ (\E k \in Kind : Forward(s, k))
       PROVE  Goal
  <2>1. seat' = seat
    BY <1>12 DEF Open, Close, AskCreate, AskJoin, Forward, Goroutine, HelloFails, LookUp, Submit, GiveUp, Return, rooms
  <2> QED BY <1>1, <2>1
<1> HIDE DEF Goal
<1>13. Goal
  BY <1>4, <1>10, <1>11, <1>12 DEF Next
<1>14. QED BY <1>13 DEF Goal

(* No step brings an abandoned seat back to life.                          *)
LEMMA AbandonedKept ==
    ASSUME TypeOK, GoneIsEmpty, Next, NEW r \in Room, NEW p \in Player, seat[r][p] = Abandoned
    PROVE  seat'[r][p] \in {Abandoned, NoSeat}
<1> SUFFICES ASSUME NEW s \in Session, PlayerOf[s] = p,
                    r \notin used \/ Join(r, s) \/ Reconnect(r, s) \/ Bound(r, s)
             PROVE  FALSE
  BY SeatChanges
<1>1. Abandoned \notin Session /\ Abandoned # NoSeat
  BY RoutingAssumption
<1>2. r \in used
  BY <1>1 DEF GoneIsEmpty, Seated, TypeOK
<1>3. QED BY <1>1, <1>2 DEF Join, CanJoin, Reconnect, CanRejoin, Holds, Bound

(* Who walked out of a round does not get back into its seat (handleLeave  *)
(* and handleReconnect in src/internal/room), by whatever calls are under  *)
(* way.                                                                    *)
THEOREM AbandonedStays == Spec => AbandonedForGood
<1>1. TypeOK /\ GoneIsEmpty /\ [Next]_vars =>
         [\A r \in Room, p \in Player : seat[r][p] = Abandoned => seat'[r][p] \in {Abandoned, NoSeat}]_vars
  BY AbandonedKept
<1>2. QED BY <1>1, RoutingInvariant, PTL DEF Spec, AbandonedForGood

-----------------------------------------------------------------------------
(* A room that has begun does not wait again while it is listed.           *)
LEMMA PhaseKept ==
    ASSUME TypeOK, Next, NEW r \in listed, r \in listed', phase[r] # "waiting"
    PROVE  phase'[r] # "waiting"
<1> DEFINE Goal == phase'[r] # "waiting"
<1>1. ASSUME phase' = phase PROVE Goal
  BY <1>1
<1>2. ASSUME NEW q \in Room, Destroy(q) PROVE Goal
  <2>1. listed' = listed \ {q} /\ \A x \in Room : x # q => phase'[x] = phase[x]
    BY <1>2, DestroyFacts
  <2> QED BY <2>1 DEF TypeOK
<1>3. ASSUME NEW q \in Room, NEW x, RemoveMember(q, x) PROVE Goal
  BY <1>1, <1>2, <1>3 DEF RemoveMember
<1>4. ASSUME NEW q \in Room, Serves(q) PROVE Goal
  <2>1. ASSUME NEW s \in Session, Start(q, s) PROVE Goal
    BY <2>1 DEF Start, TypeOK
  <2>2. ASSUME NEW s \in Session, Snapshot(q, s) \/ Join(q, s) \/ Reconnect(q, s) PROVE Goal
    BY <1>1, <2>2 DEF Snapshot, Join, Reconnect, SetSeat
  <2>3. ASSUME NEW s \in Session, Disconnect(q, s) \/ Leave(q, s) \/ Kick(q, s) PROVE Goal
    BY <1>1, <1>3, <2>3 DEF Disconnect, Leave, Kick, SetSeat
  <2>4. CASE Refuse(q)
    BY <1>1, <2>4 DEF Refuse
  <2> QED BY <1>4, <2>1, <2>2, <2>3, <2>4 DEF Serves
<1>5. ASSUME NEW q \in Room, RoundEnds(q) \/ EmptyRoomTimesOut(q) PROVE Goal
  BY <1>2, <1>5 DEF RoundEnds, EmptyRoomTimesOut, TypeOK
<1>6. ASSUME NEW s \in Session,
             \/ Open(s) \/ Close(s) \/ AskCreate(s) \/ Goroutine(s)
             \/ (\E q \in Room : AskJoin(s, q)) \/ (\E k \in Kind : Forward(s, k))
      PROVE  Goal
  <2>1. phase' = phase
    BY <1>6 DEF Open, Close, AskCreate, AskJoin, Forward, Goroutine, HelloFails, Publish, LookUp, Submit, GiveUp,
       Return, rooms
  <2> QED BY <1>1, <2>1
<1> HIDE DEF Goal
<1>7. Goal
  BY <1>4, <1>5, <1>6 DEF Next
<1>8. QED BY <1>7 DEF Goal

(* Without load nobody gives up.                                           *)
LEMMA AllAwaitedKept ==
    ASSUME ~Overload, TypeOK, CallsFit, AllAwaited, Next
    PROVE  AllAwaited'
<1>1. ASSUME NEW s \in Session, NEW t \in Thread, Posts(s, t) PROVE AllAwaited'
  <2> DEFINE r == call[s][t].room
             n == Len(mailbox[r])
             m == [kind |-> call[s][t].kind, from |-> s, awaited |-> TRUE]
  <2>1. /\ n \in Nat /\ DOMAIN mailbox[r] = 1 .. n
        /\ \A q \in Room : q # r => mailbox'[q] = mailbox[q]
        /\ DOMAIN mailbox'[r] = 1 .. n + 1
        /\ \A i \in DOMAIN mailbox[r] : mailbox'[r][i] = mailbox[r][i]
        /\ mailbox'[r][n + 1] = m /\ m.awaited
    <3>1. m.awaited
      OBVIOUS
    <3>2. /\ n \in Nat /\ DOMAIN mailbox[r] = 1 .. n
          /\ \A q \in Room : q # r => mailbox'[q] = mailbox[q]
          /\ DOMAIN mailbox'[r] = 1 .. n + 1
          /\ mailbox'[r][n + 1] = m
      BY <1>1, PostsFacts
    <3>3. \A i \in DOMAIN mailbox[r] : mailbox'[r][i] = mailbox[r][i]
      BY <1>1, PostsFacts
    <3> HIDE DEF m
    <3> QED BY <3>1, <3>2, <3>3
  <2> HIDE DEF m, n, r
  <2>2. \A i \in DOMAIN mailbox'[r] : i \in DOMAIN mailbox[r] \/ i = n + 1
    BY <2>1
  <2> QED BY <2>1, <2>2 DEF AllAwaited
<1>2. ASSUME NEW r \in Room, NEW ok \in BOOLEAN, mailbox[r] # <<>>, Answer(r, ok) PROVE AllAwaited'
  <2>1. /\ DOMAIN mailbox[r] = 1 .. Len(mailbox[r]) /\ Len(mailbox[r]) \in Nat \ {0}
        /\ \A q \in Room : q # r => mailbox'[q] = mailbox[q]
        /\ DOMAIN mailbox'[r] = 1 .. Len(mailbox[r]) - 1
        /\ \A i \in DOMAIN mailbox'[r] : mailbox'[r][i] = mailbox[r][i + 1]
    BY <1>2, AnswerFacts
  <2>2. \A i \in DOMAIN mailbox'[r] : i + 1 \in DOMAIN mailbox[r]
    BY <2>1
  <2> QED BY <2>1, <2>2 DEF AllAwaited
<1>3. ASSUME NEW r \in Room, Destroy(r) PROVE AllAwaited'
  <2>1. mailbox'[r] = <<>> /\ \A q \in Room : q # r => mailbox'[q] = mailbox[q]
    BY <1>3, DestroyFacts
  <2> QED BY <2>1 DEF AllAwaited
<1>4. ASSUME mailbox' = mailbox PROVE AllAwaited'
  BY <1>4 DEF AllAwaited
<1>5. QED BY <1>1, <1>2, <1>3, <1>4, MovesOfCalls DEF Moves, GiveUp

(* The command a room serves is then awaited, and its caller waits for it. *)
LEMMA HeadIsAwaited ==
    ASSUME TypeOK, CommandsHaveCallers, AllAwaited, NEW r \in Room, mailbox[r] # <<>>
    PROVE  LET m == Head(mailbox[r])
           IN  /\ m = mailbox[r][1] /\ m \in Posted /\ m.awaited
               /\ call[m.from][ThreadOf(m.kind)] = Call("waiting", m.kind, r)
<1>1. mailbox[r] \in Seq(Posted)
  BY DEF TypeOK, Posted
<1>2. 1 \in DOMAIN mailbox[r] /\ Head(mailbox[r]) = mailbox[r][1] /\ mailbox[r][1] \in Posted
  BY <1>1
<1>3. QED BY <1>2 DEF AllAwaited, CommandsHaveCallers

(* Lost is for good while the room is listed.                              *)
LEMMA LostKept ==
    ASSUME TypeOK, Next, NEW r \in listed, r \in listed', NEW s \in Session, Lost(r, s)
    PROVE  Lost(r, s)'
BY PhaseKept, ConnKept DEF Lost

(* A step keeps SeatsAreOwn. A seat goes away in a round only, by the      *)
(* disconnect of its connection, which is closed by then (CallsFit for the *)
(* closer).                                                                *)
LEMMA SeatsKept ==
    ASSUME TypeOK, GoneIsEmpty, CallsFit, CommandsHaveCallers, AllAwaited, SeatsAreOwn, Next,
           TypeOK', GoneIsEmpty'
    PROVE  SeatsAreOwn'
<1> SUFFICES ASSUME NEW r \in Room, NEW p \in Player, seat'[r][p] # NoSeat
             PROVE  \E s \in Session : /\ PlayerOf[s] = p
                                       /\ seat'[r][p] \in {s, Away, Abandoned}
                                       /\ seat'[r][p] = Away => Lost(r, s)'
  BY DEF SeatsAreOwn
<1>1. Away \notin Session /\ Away # Abandoned
  BY RoutingAssumption
<1>2. r \in listed'
  BY DEF GoneIsEmpty, Seated
<1>3. CASE seat'[r][p] = seat[r][p]
  <2>1. PICK s \in Session : /\ PlayerOf[s] = p
                             /\ seat[r][p] \in {s, Away, Abandoned}
                             /\ seat[r][p] = Away => Lost(r, s)
    BY <1>3 DEF SeatsAreOwn
  <2>2. r \in listed
    BY <1>3 DEF GoneIsEmpty, Seated
  <2> QED BY <1>2, <1>3, <2>1, <2>2, LostKept
<1>4. ASSUME NEW s \in Session, PlayerOf[s] = p, seat'[r][p] \in {s, Abandoned}
      PROVE  \E x \in Session : /\ PlayerOf[x] = p
                                /\ seat'[r][p] \in {x, Away, Abandoned}
                                /\ seat'[r][p] = Away => Lost(r, x)'
  BY <1>1, <1>4
<1>5. ASSUME NEW s \in Session, PlayerOf[s] = p, seat'[r][p] = Away, Bound(r, s), phase[r] = "playing",
             Disconnect(r, s)
      PROVE  Lost(r, s)'
  <2>1. r \in listed
    BY <1>5, RoutingAssumption DEF GoneIsEmpty, Seated, Bound
  <2>2. call[s]["closer"] = Call("waiting", "disconnect", r)
    BY <1>5, HeadIsAwaited DEF Disconnect, Command, ThreadOf
  <2>3. conn[s] = "closed"
    BY <2>2 DEF CallsFit, At, Call
  <2> QED BY <1>2, <1>5, <2>1, <2>3, LostKept DEF Lost
<1>6. QED BY <1>3, <1>4, <1>5, SeatChanges

(* A seat is held after a step that was not before it only through         *)
(* publishing a new room or a join.                                        *)
LEMMA HoldsOfStep ==
    ASSUME TypeOK, GoneIsEmpty, Next, NEW r \in listed', r \in Room, NEW p \in Player, Holds(r, p)'
    PROVE  \/ r \in listed /\ Holds(r, p)
           \/ \E s \in Session : PlayerOf[s] = p /\ ((r \notin used /\ Publish(s)) \/ Join(r, s))
<1>1. /\ Away \notin Session /\ Away # Abandoned /\ NoSeat \notin Session /\ Abandoned \notin Session
      /\ Abandoned # NoSeat
  BY RoutingAssumption
<1>2. Holds(r, p) => r \in listed
  BY DEF GoneIsEmpty, Seated, Holds
<1>3. CASE seat'[r][p] \in {seat[r][p], NoSeat}
  BY <1>2, <1>3 DEF Holds
<1>4. ASSUME NEW s \in Session, PlayerOf[s] = p, Reconnect(r, s) PROVE Holds(r, p)
  BY <1>4 DEF Reconnect, CanRejoin
<1>5. ASSUME NEW s \in Session, PlayerOf[s] = p, Bound(r, s) PROVE Holds(r, p)
  BY <1>1, <1>5 DEF Bound, Holds
<1>6. QED BY <1>2, <1>3, <1>4, <1>5, SeatChanges

(* An entry of a room in which the player keeps its seat goes only by the  *)
(* calls of the player's own connections: what other members and the rooms *)
(* do to the index spares it.                                              *)
LEMMA IndexOfStep ==
    ASSUME TypeOK, CallsFit, Next, NEW r \in listed, r \in listed', NEW p \in Player, Holds(r, p)',
           playerRoom[p] = r
    PROVE  \/ playerRoom'[p] = r
           \/ \E s \in Session : PlayerOf[s] = p /\ (Publish(s) \/ Return(s, "pump"))
<1> DEFINE Goal == \/ playerRoom'[p] = r
                   \/ \E s \in Session : PlayerOf[s] = p /\ (Publish(s) \/ Return(s, "pump"))
<1>0. /\ playerRoom \in [Player -> Room \cup {NoRoom}] /\ PlayerOf \in [Session -> Player]
      /\ seat \in [Room -> [Player -> Session \cup {NoSeat, Away, Abandoned}]]
      /\ r \in Room
  BY RoutingAssumption DEF TypeOK
<1>1. ASSUME playerRoom' = playerRoom PROVE Goal
  BY <1>1
<1>2. ASSUME NEW q, NEW x \in Player, playerRoom' = Cleared(q, x), q # r \/ x # p PROVE Goal
  BY <1>0, <1>2 DEF Cleared
<1>3. ASSUME NEW q \in Room, NEW x \in Player, seat' = [seat EXCEPT ![q][x] = NoSeat] \/ seat' = [seat EXCEPT ![q][x] = Abandoned]
      PROVE  q # r \/ x # p
  BY <1>0, <1>3 DEF Holds
<1>4. ASSUME NEW s \in Session, Goroutine(s) PROVE Goal
  <2>1. CASE HelloFails(s)
    BY <1>1, <2>1 DEF HelloFails
  <2>2. CASE Publish(s)
    <3>1. PICK q \in Room \ used : playerRoom' = [playerRoom EXCEPT ![PlayerOf[s]] = q]
      BY <2>2 DEF Publish
    <3> QED BY <1>0, <2>2, <3>1
  <2>3. ASSUME NEW t \in Thread, LookUp(s, t) PROVE Goal
    <3>1. \/ playerRoom' = playerRoom
          \/ playerRoom' = Cleared(playerRoom[PlayerOf[s]], PlayerOf[s]) /\ playerRoom[PlayerOf[s]] \notin listed
      BY <2>3 DEF LookUp
    <3> QED BY <1>0, <1>1, <1>2, <3>1
  <2>4. ASSUME NEW t \in Thread, Submit(s, t) \/ GiveUp(s, t) PROVE Goal
    BY <1>1, <2>4 DEF Submit, GiveUp
  <2>5. ASSUME NEW t \in Thread, Return(s, t) PROVE Goal
    <3>1. CASE t = "pump"
      <4>1. PlayerOf[s] # p => playerRoom'[p] = r
        <5>1. playerRoom' \in {[playerRoom EXCEPT ![PlayerOf[s]] = call[s][t].room],
                               Cleared(call[s][t].room, PlayerOf[s]), playerRoom}
          BY <2>5 DEF Return
        <5> QED BY <1>0, <5>1 DEF Cleared
      <4> QED BY <2>5, <3>1, <4>1
    <3>2. CASE t # "pump"
      <4>1. ThreadOf(call[s][t].kind) = t
        BY <2>5 DEF Return, CallsFit, At
      <4>2. call[s][t].kind \notin {"join", "leave"}
        BY <3>2, <4>1 DEF ThreadOf
      <4>3. playerRoom' = playerRoom
        BY <2>5, <4>2 DEF Return
      <4> QED BY <1>1, <4>3
    <3> QED BY <3>1, <3>2
  <2> QED BY <1>4, <2>1, <2>2, <2>3, <2>4, <2>5 DEF Goroutine
<1>5. ASSUME NEW q \in Room, Destroy(q) PROVE Goal
  <2>1. q # r /\ \A x \in Player : playerRoom'[x] = IF playerRoom[x] = q THEN NoRoom ELSE playerRoom[x]
    BY <1>5, DestroyFacts
  <2> QED BY <2>1
<1>6. ASSUME NEW q \in Room, NEW x \in Player, RemoveMember(q, x) PROVE Goal
  <2>1. CASE Destroy(q)
    BY <1>5, <2>1
  <2>2. CASE ~Destroy(q)
    BY <1>2, <1>3, <1>6, <2>2 DEF RemoveMember
  <2> QED BY <2>1, <2>2
<1>7. ASSUME NEW q \in Room, Serves(q) PROVE Goal
  <2>1. ASSUME NEW s \in Session, Start(q, s) \/ Snapshot(q, s) \/ Join(q, s) \/ Reconnect(q, s) PROVE Goal
    BY <1>1, <2>1 DEF Start, Snapshot, Join, Reconnect
  <2>2. CASE Refuse(q)
    BY <1>1, <2>2 DEF Refuse
  <2>3. ASSUME NEW s \in Session, Kick(q, s) PROVE Goal
    BY <1>6, <2>3 DEF Kick, Seated
  <2>4. ASSUME NEW s \in Session, Disconnect(q, s) PROVE Goal
    BY <1>0, <1>1, <1>6, <2>4 DEF Disconnect
  <2>5. ASSUME NEW s \in Session, Leave(q, s) PROVE Goal
    BY <1>0, <1>2, <1>3, <1>6, <2>5 DEF Leave, SetSeat
  <2> HIDE DEF Goal
  <2> QED BY <1>7, <2>1, <2>2, <2>3, <2>4, <2>5 DEF Serves
<1>8. ASSUME NEW q \in Room, RoundEnds(q) \/ EmptyRoomTimesOut(q) PROVE Goal
  BY <1>1, <1>5, <1>8 DEF RoundEnds, EmptyRoomTimesOut
<1>9. ASSUME NEW s \in Session,
             \/ Open(s) \/ Close(s) \/ AskCreate(s)
             \/ (\E q \in Room : AskJoin(s, q)) \/ (\E k \in Kind : Forward(s, k))
      PROVE  Goal
  BY <1>1, <1>9 DEF Open, Close, AskCreate, AskJoin, Forward
<1> HIDE DEF Goal
<1>10. Goal
  BY <1>4, <1>7, <1>8, <1>9 DEF Next
<1>11. QED BY <1>10 DEF Goal

(* What the read pump does on its own.                                     *)
Asks(s) ==
    \/ AskCreate(s) \/ (\E r \in Room : AskJoin(s, r)) \/ (\E kind \in Kind : Forward(s, kind))
    \/ Publish(s) \/ Submit(s, "pump") \/ Return(s, "pump")

(* The room r serves the command of the pump of s and answers ok.          *)
IsAnswered(s, r, ok) ==
    /\ Serves(r) /\ mailbox[r] # <<>> /\ Answer(r, ok)
    /\ Head(mailbox[r]).from = s /\ ThreadOf(Head(mailbox[r]).kind) = "pump"
    /\ call[s]["pump"] = Call("waiting", Head(mailbox[r]).kind, r)
    /\ call'[s]["pump"] = Answered(call[s]["pump"], ok)

(* What serving does to the pump of a connection: nothing, or the answer   *)
(* to its command, or the end of the room.                                 *)
LEMMA AnswersToPump ==
    ASSUME TypeOK, CommandsHaveCallers, AllAwaited, NEW s \in Session, NEW r \in Room, Serves(r)
    PROVE  \/ call'[s]["pump"] = call[s]["pump"]
           \/ \E ok \in BOOLEAN : IsAnswered(s, r, ok)
           \/ Destroy(r)
<1>1. ASSUME NEW ok \in BOOLEAN, mailbox[r] # <<>>, Answer(r, ok)
      PROVE  call'[s]["pump"] = call[s]["pump"] \/ IsAnswered(s, r, ok)
  <2> DEFINE m == Head(mailbox[r])
  <2>1. /\ m = mailbox[r][1] /\ m.awaited
        /\ call[m.from][ThreadOf(m.kind)] = Call("waiting", m.kind, r)
    BY <1>1, HeadIsAwaited
  <2>2. /\ \A x \in Session, y \in Thread :
              call'[x][y] = IF m.awaited /\ x = m.from /\ y = ThreadOf(m.kind)
                            THEN Answered(call[x][y], ok) ELSE call[x][y]
        /\ "pump" \in Thread
    BY <1>1, <2>1, AnswerFacts DEF Thread
  <2> HIDE DEF m
  <2>3. CASE m.from = s /\ ThreadOf(m.kind) = "pump"
    BY <1>1, <2>1, <2>2, <2>3 DEF IsAnswered, m
  <2>4. CASE ~(m.from = s /\ ThreadOf(m.kind) = "pump")
    BY <2>2, <2>4
  <2> QED BY <2>3, <2>4
<1>2. TRUE \in BOOLEAN /\ FALSE \in BOOLEAN
  OBVIOUS
<1>3. ASSUME NEW p, RemoveMember(r, p) PROVE Destroy(r) \/ Answer(r, TRUE)
  BY <1>3 DEF RemoveMember
<1>4. ASSUME NEW x \in Session, Join(r, x) \/ Reconnect(r, x) \/ Disconnect(r, x) \/ Leave(r, x) \/ Kick(r, x)
                                \/ Start(r, x) \/ Snapshot(r, x)
      PROVE  mailbox[r] # <<>> /\ (Destroy(r) \/ Answer(r, TRUE))
  BY <1>3, <1>4 DEF Join, Reconnect, Disconnect, Leave, Kick, Start, Snapshot, SetSeat, Command
<1>5. ASSUME Refuse(r) PROVE mailbox[r] # <<>> /\ Answer(r, FALSE)
  BY <1>5 DEF Refuse
<1>6. QED BY <1>1, <1>2, <1>4, <1>5 DEF Serves

(* What a step does to the pump of a connection.                           *)
LEMMA PumpOfStep ==
    ASSUME ~Overload, TypeOK, CommandsHaveCallers, AllAwaited, Next, NEW s \in Session
    PROVE  \/ call'[s]["pump"] = call[s]["pump"]
           \/ Asks(s)
           \/ \E r \in Room, ok \in BOOLEAN : IsAnswered(s, r, ok)
           \/ \E r \in Room : /\ r \notin listed'
                              /\ call[s]["pump"].at = "waiting" /\ call[s]["pump"].room = r
                              /\ call'[s]["pump"] = Rejected(call[s]["pump"])
<1> DEFINE Goal == \/ call'[s]["pump"] = call[s]["pump"]
                   \/ Asks(s)
                   \/ \E r \in Room, ok \in BOOLEAN : IsAnswered(s, r, ok)
                   \/ \E r \in Room : /\ r \notin listed'
                                      /\ call[s]["pump"].at = "waiting" /\ call[s]["pump"].room = r
                                      /\ call'[s]["pump"] = Rejected(call[s]["pump"])
<1>0. "pump" \in Thread /\ call \in [Session -> [Thread -> Calls]]
  BY DEF TypeOK, Calls, Thread
<1>1. ASSUME NEW x \in Session, NEW t \in Thread, NEW c, Goes(x, t, c), x # s \/ t # "pump" PROVE Goal
  BY <1>0, <1>1 DEF Goes
<1>2. ASSUME call' = call PROVE Goal
  BY <1>2
<1>3. ASSUME NEW r \in Room, Destroy(r) PROVE Goal
  <2>1. /\ listed' = listed \ {r}
        /\ \A x \in Session, y \in Thread :
              call'[x][y] = IF At(x, y, "waiting") /\ call[x][y].room = r
                            THEN Rejected(call[x][y]) ELSE call[x][y]
    BY <1>3, DestroyFacts
  <2>2. CASE At(s, "pump", "waiting") /\ call[s]["pump"].room = r
    BY <1>0, <2>1, <2>2 DEF At
  <2>3. CASE ~(At(s, "pump", "waiting") /\ call[s]["pump"].room = r)
    BY <1>0, <2>1, <2>3
  <2> QED BY <2>2, <2>3
<1>4. ASSUME NEW x \in Session, Open(x) \/ Close(x) PROVE Goal
  BY <1>1, <1>4 DEF Open, Close, Thread
<1>5. ASSUME NEW x \in Session,
             AskCreate(x) \/ (\E r \in Room : AskJoin(x, r)) \/ (\E kind \in Kind : Forward(x, kind)) \/ Publish(x)
      PROVE  Goal
  <2>1. CASE x = s
    BY <1>5, <2>1 DEF Asks
  <2>2. CASE x # s
    <3>1. \E c : Goes(x, "pump", c)
      BY <1>5 DEF AskCreate, AskJoin, Forward, Publish
    <3> QED BY <1>0, <1>1, <2>2, <3>1
  <2> QED BY <2>1, <2>2
<1>6. ASSUME NEW x \in Session, HelloFails(x) PROVE Goal
  BY <1>1, <1>6 DEF HelloFails, Thread
<1>7. ASSUME NEW x \in Session, NEW t \in Thread, LookUp(x, t) \/ Submit(x, t) \/ Return(x, t) PROVE Goal
  <2>1. CASE x = s /\ t = "pump"
    BY <1>7, <2>1 DEF Asks, LookUp
  <2>2. CASE ~(x = s /\ t = "pump")
    <3>1. \E c : Goes(x, t, c)
      BY <1>7 DEF LookUp, Submit, Return
    <3> QED BY <1>1, <2>2, <3>1
  <2> QED BY <2>1, <2>2
<1>8. ASSUME NEW x \in Session, NEW t \in Thread, GiveUp(x, t) PROVE Goal
  BY <1>8 DEF GiveUp
<1>9. ASSUME NEW r \in Room, Serves(r) PROVE Goal
  BY <1>3, <1>9, AnswersToPump
<1>10. ASSUME NEW r \in Room, RoundEnds(r) \/ EmptyRoomTimesOut(r) PROVE Goal
  BY <1>2, <1>3, <1>10 DEF RoundEnds, EmptyRoomTimesOut
<1> HIDE DEF Goal
<1>11. Goal
  BY <1>4, <1>5, <1>6, <1>7, <1>8, <1>9, <1>10 DEF Next, Goroutine
<1>12. QED BY <1>11 DEF Goal

(* Two calls with the same fields are the same.                            *)
LEMMA CallIsItsFields ==
    ASSUME NEW c \in Calls, NEW d \in Calls,
           c.at = d.at, c.kind = d.kind, c.room = d.room, c.ok = d.ok
    PROVE  c = d
BY DEF Calls

(* A join that is accepted is Joined.                                      *)
LEMMA JoinedFacts ==
    ASSUME NEW r \in Room
    PROVE  /\ Joined(r).at = "returned" /\ Joined(r).kind = "join" /\ Joined(r).room = r
           /\ Answered(Call("waiting", "join", r), TRUE) = Joined(r)
           /\ Call("waiting", "join", r).kind = "join"
<1> DEFINE j == [at |-> "returned", kind |-> "join", room |-> r, ok |-> TRUE]
           w == Call("waiting", "join", r)
           e == Call("returned", "join", r)
<1>1. w \in Calls /\ w.kind = "join" /\ w.room = r /\ e \in Calls
  BY DEF Call, Calls, Kind
<1>2. Joined(r) \in Calls /\ Joined(r).at = "returned" /\ Joined(r).kind = "join" /\ Joined(r).room = r
  BY DEF Joined, Call, Calls, Kind
<1>3. Joined(r).ok = TRUE
  BY DEF Joined, Call
<1>0. /\ j \in Calls /\ j.at = "returned" /\ j.kind = "join" /\ j.room = r /\ j.ok = TRUE
  BY DEF Calls, Kind
<1>4. Joined(r) = j
  <2> HIDE DEF Joined, j
  <2> QED BY <1>0, <1>2, <1>3, CallIsItsFields
<1>5. Answered(w, TRUE) \in Calls /\ Answered(w, TRUE).at = "returned" /\ Answered(w, TRUE).kind = "join"
      /\ Answered(w, TRUE).room = r
  BY <1>1, AnsweredIsOne
<1>6. Answered(w, TRUE).ok = TRUE
  BY DEF Answered, Call
<1>7. Answered(w, TRUE) = j
  <2> HIDE DEF Answered, w, j
  <2> QED BY <1>0, <1>5, <1>6, CallIsItsFields
<1>8. QED BY <1>1, <1>2, <1>3, <1>4, <1>7

(* A connection that reaches its seat before a step and holds the seat     *)
(* after it still reaches it. The case that matters is a leave that comes  *)
(* back: the room has either freed or abandoned the seat, so that it is    *)
(* not held, or refused a connection that is not in the seat, which is     *)
(* then away and its line lost.                                            *)
LEMMA RouteStays ==
    ASSUME Ordinary, TypeOK, GoneIsEmpty, CallsFit, CommandsHaveCallers, AllAwaited, SeatsAreOwn, Next,
           NEW s \in Session, NEW r \in listed, r \in listed',
           Holds(r, PlayerOf[s]), Holds(r, PlayerOf[s])', Reaches(s, r)
    PROVE  Reaches(s, r)'
<1> DEFINE c == call[s]["pump"]
           d == call'[s]["pump"]
           p == PlayerOf[s]
           Goal == /\ playerRoom'[p] = r \/ d = Joined(r) \/ Lost(r, s)'
                   /\ d.at # "publish" /\ (d.kind = "join" => d = Joined(r))
                   /\ d.kind = "leave" /\ d.at = "returned" /\ d.room = r => Lost(r, s)'
<1>0. /\ c \in Calls /\ "pump" \in Thread /\ r \in Room /\ p \in Player
      /\ call \in [Session -> [Thread -> Calls]]
      /\ seat \in [Room -> [Player -> Session \cup {NoSeat, Away, Abandoned}]]
  BY RoutingAssumption DEF TypeOK, Calls, Thread
<1>1. /\ playerRoom[p] = r \/ c = Joined(r) \/ Lost(r, s)
      /\ c.at # "publish" /\ (c.kind = "join" => c = Joined(r))
      /\ c.kind = "leave" /\ c.at = "returned" /\ c.room = r => Lost(r, s)
  BY DEF Reaches
<1>2. Lost(r, s) => Lost(r, s)'
  BY LostKept
<1>3. Joined(r).at = "returned" /\ Joined(r).kind = "join"
  BY <1>0, JoinedFacts
<1>4. ~Publish(s)
  BY <1>1 DEF Publish, At
<1>5. playerRoom[p] = r => playerRoom'[p] = r \/ Return(s, "pump")
  BY <1>0, <1>4, IndexOfStep DEF Ordinary
<1> HIDE DEF d
<1>6. ASSUME d = c PROVE Goal
  <2>1. ~Return(s, "pump")
    <3> SUFFICES ASSUME Return(s, "pump") PROVE FALSE
      OBVIOUS
    <3>1. c.at = "returned" /\ Goes(s, "pump", Idle)
      BY DEF Return, At
    <3>2. d = Idle
      BY <1>0, <3>1, IdleIsOne, GoesFacts DEF d
    <3> QED BY <1>6, <3>1, <3>2, IdleIsOne
  <2> HIDE DEF c
  <2> QED BY <1>1, <1>2, <1>5, <1>6, <2>1
<1>7. ASSUME AskCreate(s) \/ (\E q \in Room : AskJoin(s, q)) PROVE FALSE
  <2>1. c.at = "idle" /\ conn[s] = "open" /\ playerRoom[p] = NoRoom
    BY <1>7 DEF AskCreate, AskJoin, At
  <2> QED BY <1>0, <1>1, <1>3, <2>1, RoutingAssumption DEF Lost
<1>8. ASSUME NEW kind \in Kind, Forward(s, kind) PROVE Goal
  <2>1. /\ kind \in {"leave", "kick", "start"} /\ playerRoom' = playerRoom
        /\ c.at = "idle" /\ Goes(s, "pump", Call("submit", kind, playerRoom[p])) /\ playerRoom[p] \in Room
    BY <1>8 DEF Forward, TypeOK, At
  <2>2. d = Call("submit", kind, playerRoom[p])
    BY <1>0, <2>1, CallIsOne, GoesFacts DEF d
  <2>3. d.at = "submit" /\ d.kind = kind
    BY <2>2 DEF Call
  <2> QED BY <1>1, <1>2, <1>3, <2>1, <2>3
<1>9. ASSUME Submit(s, "pump") PROVE Goal
  <2>1. c.at = "submit" /\ playerRoom' = playerRoom /\ c.kind # "join"
    <3>1. c.at = "submit" /\ playerRoom' = playerRoom
      BY <1>9 DEF Submit, At
    <3> QED BY <1>1, <1>3, <3>1
  <2>2. \/ d = [c EXCEPT !.at = "waiting"]
        \/ d = Rejected(c) /\ c.room \notin listed
    <3>1. \/ Goes(s, "pump", [c EXCEPT !.at = "waiting"])
          \/ Goes(s, "pump", Rejected(c)) /\ c.room \notin listed
      BY <1>9 DEF Submit, Ordinary, Rejected
    <3>2. [c EXCEPT !.at = "waiting"] \in Calls
      BY <1>0 DEF Calls
    <3>3. Rejected(c) \in Calls
      BY <1>0, RejectedIsOne
    <3> HIDE DEF c, Rejected
    <3>4. \A e \in Calls : Goes(s, "pump", e) => d = e
      BY <1>0, GoesFacts DEF d
    <3> QED BY <3>1, <3>2, <3>3, <3>4
  <2>3. d.kind = c.kind /\ d.at \in {"waiting", "returned"} /\ (d.at = "returned" => d.room # r)
    <3>1. CASE d = [c EXCEPT !.at = "waiting"]
      BY <1>0, <3>1 DEF Calls
    <3>2. CASE d = Rejected(c) /\ c.room \notin listed
      BY <1>0, <3>2, RejectedIsOne
    <3> QED BY <2>2, <3>1, <3>2
  <2> HIDE DEF c
  <2> QED BY <1>1, <1>2, <1>3, <2>1, <2>3
<1>10. ASSUME Return(s, "pump") PROVE Goal
  <2>1. /\ c.at = "returned" /\ Goes(s, "pump", Idle)
        /\ playerRoom' = CASE c.kind = "join" /\ c.ok -> [playerRoom EXCEPT ![p] = c.room]
                           [] c.kind = "leave" -> Cleared(c.room, p)
                           [] OTHER -> playerRoom
    BY <1>10 DEF Return, At
  <2>2. d = Idle
    BY <1>0, <2>1, IdleIsOne, GoesFacts DEF d
  <2>3. playerRoom'[p] = r \/ Lost(r, s)'
    <3>1. CASE c = Joined(r)
      <4>1. c.ok /\ c.kind = "join" /\ c.room = r
        <5>1. c.ok
          BY <3>1 DEF Joined, Call
        <5>2. Joined(r).kind = "join" /\ Joined(r).room = r
          BY <1>0, JoinedFacts
        <5>3. c.kind = "join" /\ c.room = r
          <6> HIDE DEF c, Joined
          <6> QED BY <3>1, <5>2
        <5> HIDE DEF c, Joined
        <5> QED BY <5>1, <5>3
      <4>2. playerRoom' = [playerRoom EXCEPT ![p] = c.room]
        BY <2>1, <4>1
      <4> QED BY <1>0, <4>1, <4>2 DEF TypeOK
    <3>2. CASE c # Joined(r) /\ c.kind = "leave"
      <4>1. playerRoom' = Cleared(c.room, p)
        BY <2>1, <3>2
      <4>2. c.room # r /\ playerRoom[p] = r => playerRoom'[p] = r
        BY <1>0, <4>1 DEF Cleared, TypeOK
      <4> QED BY <1>1, <1>2, <2>1, <3>2, <4>2
    <3>3. CASE c # Joined(r) /\ c.kind # "leave"
      <4>1. playerRoom' = playerRoom
        BY <1>1, <2>1, <3>3
      <4> QED BY <1>1, <1>2, <3>3, <4>1
    <3> QED BY <3>1, <3>2, <3>3
  <2> QED BY <2>2, <2>3, IdleIsOne
<1>11. ASSUME NEW q \in Room, NEW ok \in BOOLEAN, IsAnswered(s, q, ok) PROVE Goal
  <2> DEFINE k == Head(mailbox[q]).kind
  <2>1. /\ c = Call("waiting", k, q) /\ d = Answered(c, ok) /\ Serves(q) /\ mailbox[q] # <<>>
        /\ Head(mailbox[q]).from = s
    BY <1>11 DEF IsAnswered, d
  <2>2. c.at = "waiting" /\ c.kind = k /\ c.room = q
    BY <2>1 DEF Call
  <2>3. d.at = "returned" /\ d.kind = k /\ d.room = q
    BY <1>0, <2>1, <2>2, AnsweredIsOne
  <2>4. k # "join" /\ ~Return(s, "pump") /\ c # Joined(r)
    BY <1>1, <1>3, <2>2 DEF Return, At
  <2>5. ASSUME k = "leave", q = r PROVE Lost(r, s)
    <3>1. Leave(r, s) \/ (Refuse(r) /\ ~Bound(r, s))
      BY <2>1, <2>5 DEF Serves, Join, Reconnect, Disconnect, Leave, Kick, Start, Snapshot, Command, Refuse
    <3>2. ~Leave(r, s)
      <4> SUFFICES ASSUME Leave(r, s) PROVE FALSE
        OBVIOUS
      <4>1. \/ seat' = [seat EXCEPT ![r][p] = Abandoned]
            \/ seat' = [seat EXCEPT ![r][p] = NoSeat]
            \/ Destroy(r)
        BY DEF Leave, SetSeat, RemoveMember
      <4>2. ~Destroy(r)
        BY DestroyFacts, <1>0
      <4> QED BY <1>0, <4>1, <4>2 DEF Holds
    <3>3. seat[r][p] = Away
      <4>1. PICK x \in Session : PlayerOf[x] = p /\ seat[r][p] \in {x, Away, Abandoned}
        BY <1>0 DEF SeatsAreOwn, Holds
      <4>2. x = s
        BY <4>1 DEF Ordinary
      <4> QED BY <3>1, <3>2, <4>1, <4>2 DEF Bound, Holds
    <3>4. PICK x \in Session : PlayerOf[x] = p /\ Lost(r, x)
      BY <1>0, <3>3, RoutingAssumption DEF SeatsAreOwn
    <3> QED BY <3>4 DEF Ordinary
  <2> HIDE DEF c, k
  <2> QED BY <1>1, <1>2, <1>5, <2>3, <2>4, <2>5
<1>12. ASSUME NEW q \in Room, q \notin listed', c.at = "waiting", c.room = q, d = Rejected(c) PROVE Goal
  <2>1. d.at = "returned" /\ d.kind = c.kind /\ d.room = q
    BY <1>0, <1>12, RejectedIsOne
  <2>2. c.kind # "join" /\ ~Return(s, "pump") /\ c # Joined(r) /\ q # r
    BY <1>1, <1>3, <1>12 DEF Return, At
  <2> HIDE DEF c
  <2> QED BY <1>1, <1>2, <1>5, <2>1, <2>2
<1>13. Goal
  <2> HIDE DEF Goal
  <2>1. \/ d = c \/ Asks(s) \/ (\E q \in Room, ok \in BOOLEAN : IsAnswered(s, q, ok))
        \/ \E q \in Room : q \notin listed' /\ c.at = "waiting" /\ c.room = q /\ d = Rejected(c)
    BY PumpOfStep DEF Ordinary, d
  <2> HIDE DEF c
  <2> QED BY <1>4, <1>6, <1>7, <1>8, <1>9, <1>10, <1>11, <1>12, <2>1 DEF Asks
<1>14. QED BY <1>13 DEF Reaches, d

(* The connection takes a seat in r.                                       *)
Begins(s, r) == (r \notin used /\ Publish(s)) \/ Join(r, s)

(* It does so by the read pump, which was publishing or waiting for its    *)
(* join.                                                                   *)
LEMMA BeginFacts ==
    ASSUME TypeOK, CommandsHaveCallers, AllAwaited, NEW s \in Session, NEW r \in Room, r \in listed', Begins(s, r)
    PROVE  \/ /\ call[s]["pump"].at = "publish" /\ listed' = listed \cup {r}
              /\ playerRoom'[PlayerOf[s]] = r /\ call'[s]["pump"] = Call("submit", "snapshot", r)
           \/ /\ call[s]["pump"] = Call("waiting", "join", r) /\ listed' = listed
              /\ call'[s]["pump"] = Joined(r)
<1> DEFINE c == call[s]["pump"]
           d == call'[s]["pump"]
           p == PlayerOf[s]
<1>0. "pump" \in Thread /\ call \in [Session -> [Thread -> Calls]] /\ p \in Player
  BY RoutingAssumption DEF TypeOK, Calls, Thread
<1>1. CASE r \notin used /\ Publish(s)
  <2>1. PICK q \in Room \ used :
           /\ c.at = "publish" /\ listed' = listed \cup {q}
           /\ playerRoom' = [playerRoom EXCEPT ![p] = q]
           /\ Goes(s, "pump", Call("submit", "snapshot", q))
    BY <1>1 DEF Publish, At
  <2>2. q = r
    BY <1>1, <2>1 DEF TypeOK
  <2>3. Call("submit", "snapshot", r) \in Calls
    BY CallIsOne DEF Kind
  <2>4. d = Call("submit", "snapshot", r)
    BY <1>0, <2>1, <2>2, <2>3, GoesFacts
  <2>5. playerRoom'[p] = r
    BY <1>0, <2>1, <2>2 DEF TypeOK
  <2> QED BY <2>1, <2>2, <2>4, <2>5
<1>2. CASE Join(r, s)
  <2>1. /\ mailbox[r] # <<>> /\ Head(mailbox[r]).kind = "join" /\ Head(mailbox[r]).from = s
        /\ Answer(r, TRUE) /\ listed' = listed
    BY <1>2 DEF Join, Command, SetSeat
  <2>2. mailbox[r][1].kind = "join" /\ mailbox[r][1].from = s /\ mailbox[r][1].awaited /\ ThreadOf("join") = "pump"
    BY <2>1, HeadIsAwaited DEF ThreadOf
  <2>3. c = Call("waiting", "join", r)
    BY <2>1, <2>2, HeadIsAwaited
  <2>4. d = Answered(c, TRUE)
    <3>1. \A x \in Session, y \in Thread :
             call'[x][y] = IF mailbox[r][1].awaited /\ x = mailbox[r][1].from /\ y = ThreadOf(mailbox[r][1].kind)
                           THEN Answered(call[x][y], TRUE)
                           ELSE call[x][y]
      BY <2>1, AnswerFacts
    <3> QED BY <1>0, <2>2, <3>1
  <2> QED BY <2>1, <2>3, <2>4, JoinedFacts
<1>3. QED BY <1>1, <1>2 DEF Begins

(* A step keeps Routes. A seat is taken by the one pump of the player's    *)
(* one connection, which cannot be publishing or joining and have a seat   *)
(* elsewhere.                                                              *)
LEMMA RoutesKept ==
    ASSUME Ordinary, TypeOK, GoneIsEmpty, CallsFit, CommandsHaveCallers, AllAwaited, SeatsAreOwn, Routes, Next,
           TypeOK'
    PROVE  Routes'
<1> SUFFICES ASSUME NEW s \in Session, NEW r \in listed', Holds(r, PlayerOf[s])'
             PROVE  Reaches(s, r)' /\ \A q \in listed' : Holds(q, PlayerOf[s])' => q = r
  BY DEF Routes
<1> DEFINE p == PlayerOf[s]
           c == call[s]["pump"]
<1>0. p \in Player /\ listed' \subseteq Room
  BY RoutingAssumption DEF TypeOK
<1>1. ASSUME NEW q \in listed', Holds(q, p)'
      PROVE  (q \in listed /\ Holds(q, p)) \/ Begins(s, q)
  BY <1>0, <1>1, HoldsOfStep DEF Begins, Ordinary
<1>2. ASSUME NEW q \in listed', Begins(s, q)
      PROVE  \/ c.at = "publish" /\ listed' = listed \cup {q} /\ q \notin listed
             \/ c.at = "waiting" /\ c.kind = "join" /\ c.room = q
  <2>1. q \in Room
    BY <1>0
  <2>2. \/ c.at = "publish" /\ listed' = listed \cup {q}
        \/ c = Call("waiting", "join", q)
    BY <1>2, <2>1, BeginFacts
  <2>3. CASE c = Call("waiting", "join", q)
    BY <2>3 DEF Call
  <2>4. CASE c.at = "publish" /\ listed' = listed \cup {q}
    <3>1. ~Join(q, s)
      <4> SUFFICES ASSUME Join(q, s) PROVE FALSE
        OBVIOUS
      <4>1. mailbox[q] # <<>> /\ Head(mailbox[q]).kind = "join" /\ Head(mailbox[q]).from = s
        BY DEF Join, Command
      <4>2. c = Call("waiting", "join", q)
        BY <2>1, <4>1, HeadIsAwaited DEF ThreadOf
      <4>3. c.at = "waiting"
        BY <4>2 DEF Call
      <4> QED BY <2>4, <4>3
    <3> QED BY <1>2, <2>4, <3>1 DEF Begins, TypeOK
  <2> QED BY <2>2, <2>3, <2>4
<1>3. ASSUME NEW q \in listed, Holds(q, p)
      PROVE  c.at # "publish" /\ (c.kind = "join" => c.at # "waiting")
  <2>1. c.at # "publish" /\ (c.kind = "join" => c = Joined(q))
    BY <1>3 DEF Routes, Reaches
  <2>2. Joined(q).at = "returned"
    BY JoinedFacts DEF TypeOK
  <2> HIDE DEF c
  <2> QED BY <2>1, <2>2
<1>4. ASSUME NEW q \in listed', Holds(q, p)' PROVE q = r
  <2> HIDE DEF c
  <2>1. CASE q \in listed /\ Holds(q, p) /\ r \in listed /\ Holds(r, p)
    BY <2>1 DEF Routes
  <2>2. CASE ~(q \in listed /\ Holds(q, p) /\ r \in listed /\ Holds(r, p))
    <3>1. Begins(s, q) \/ Begins(s, r)
      BY <1>1, <1>4, <2>2
    <3>2. c.at = "publish" \/ (c.kind = "join" /\ c.at = "waiting")
      BY <1>2, <3>1
    <3>3. Begins(s, q) /\ Begins(s, r)
      BY <1>1, <1>3, <1>4, <3>2
    <3> QED BY <1>2, <3>3
  <2> QED BY <2>1, <2>2
<1>5. Reaches(s, r)'
  <2>1. CASE r \in listed /\ Holds(r, p)
    BY <2>1, RouteStays DEF Routes
  <2>2. CASE Begins(s, r)
    <3>1. \/ playerRoom'[p] = r /\ call'[s]["pump"] = Call("submit", "snapshot", r)
          \/ call'[s]["pump"] = Joined(r)
      BY <1>0, <2>2, BeginFacts
    <3>2. CASE playerRoom'[p] = r /\ call'[s]["pump"] = Call("submit", "snapshot", r)
      BY <3>2 DEF Reaches, Call
    <3>3. CASE call'[s]["pump"] = Joined(r)
      <4>1. Joined(r).at = "returned" /\ Joined(r).kind = "join"
        BY <1>0, JoinedFacts
      <4>2. call'[s]["pump"].at = "returned" /\ call'[s]["pump"].kind = "join"
        BY <3>3, <4>1
      <4> QED BY <3>3, <4>2 DEF Reaches
    <3> QED BY <3>1, <3>2, <3>3
  <2> QED BY <1>1, <2>1, <2>2
<1>6. QED BY <1>4, <1>5

(* Nobody has a seat at the start.                                         *)
LEMMA InitRoutes ==
    ASSUME Ordinary, Init
    PROVE  AllAwaited /\ SeatsAreOwn /\ Routes
<1>1. Fresh /\ mailbox = [r \in Room |-> <<>>]
  BY DEF Init, Ordinary
<1>2. AllAwaited
  BY <1>1 DEF AllAwaited
<1>3. SeatsAreOwn
  BY <1>1 DEF SeatsAreOwn, Fresh
<1>4. Routes
  BY <1>1 DEF Routes, Fresh
<1>5. QED BY <1>2, <1>3, <1>4

(* The inductive invariant of seats and index, over that of the calls.     *)
THEOREM OrdinaryInvariant ==
    ASSUME Ordinary
    PROVE  Spec => [](TypeOK /\ AllAwaited /\ SeatsAreOwn /\ Routes)
<1> DEFINE Inv == TypeOK /\ GoneIsEmpty /\ CallsFit /\ CommandsHaveCallers /\ CallersHaveCommands
           More == AllAwaited /\ SeatsAreOwn /\ Routes
<1>1. Init => More
  BY InitRoutes
<1>2. Inv /\ Inv' /\ More /\ [Next]_vars => More'
  <2> SUFFICES ASSUME Inv, Inv', More, [Next]_vars PROVE More'
    OBVIOUS
  <2>1. CASE Next
    BY <2>1, AllAwaitedKept, SeatsKept, RoutesKept DEF Ordinary
  <2>2. CASE UNCHANGED vars
    <3>1. AllAwaited'
      BY <2>2 DEF vars, rooms, AllAwaited
    <3>2. SeatsAreOwn'
      BY <2>2 DEF vars, rooms, SeatsAreOwn, Lost
    <3>3. Routes'
      BY <2>2 DEF vars, rooms, Routes, Reaches, Holds, Lost
    <3> QED BY <3>1, <3>2, <3>3
  <2> QED BY <2>1, <2>2
<1>3. QED BY <1>1, <1>2, RoutingInvariant, PTL DEF Spec

(* A player in a room that waits for its round is reached through the      *)
(* index (JoinRoom, LeaveRoom and OnSessionClose of                        *)
(* src/internal/room/manager.go), in whatever order its own calls, the     *)
(* calls of others and the closing of its connection come.                 *)
THEOREM WaitingSeatsHaveRoutes ==
    ASSUME Ordinary
    PROVE  Spec => []WaitingSeatHasRoute
<1>1. TypeOK /\ SeatsAreOwn /\ Routes => WaitingSeatHasRoute
  <2> SUFFICES ASSUME TypeOK, SeatsAreOwn, Routes, NEW r \in listed, NEW p \in Player,
                      phase[r] = "waiting", Holds(r, p)
               PROVE  playerRoom[p] = r \/ Entering(r, p)
    BY DEF WaitingSeatHasRoute
  <2>1. PICK s \in Session : PlayerOf[s] = p
    BY DEF SeatsAreOwn, Holds, TypeOK
  <2>2. Reaches(s, r) /\ ~Lost(r, s)
    BY <2>1 DEF Routes, Lost
  <2>3. playerRoom[p] = r \/ call[s]["pump"] = Joined(r)
    BY <2>1, <2>2 DEF Reaches
  <2> QED BY <2>1, <2>3 DEF Entering, Joined
<1>2. QED BY <1>1, OrdinaryInvariant, PTL

(* A player never sits in two rooms (the check of the index in CreateRoom  *)
(* and JoinRoom, which is made before the room is asked).                  *)
THEOREM OneSeatForEach ==
    ASSUME Ordinary
    PROVE  Spec => []OneSeatEach
<1>1. TypeOK /\ SeatsAreOwn /\ Routes => OneSeatEach
  <2> SUFFICES ASSUME TypeOK, SeatsAreOwn, Routes, NEW p \in Player
               PROVE  Cardinality({r \in listed : Holds(r, p)}) <= 1
    BY DEF OneSeatEach
  <2> DEFINE S == {r \in listed : Holds(r, p)}
  <2>1. \A q, r \in S : q = r
    <3> SUFFICES ASSUME NEW q \in S, NEW r \in S PROVE q = r
      OBVIOUS
    <3>1. PICK s \in Session : PlayerOf[s] = p
      BY DEF SeatsAreOwn, Holds, TypeOK
    <3> QED BY <3>1 DEF Routes
  <2>2. CASE S = {}
    BY <2>2, FS_EmptySet
  <2>3. CASE S # {}
    <3>1. PICK r : S = {r}
      BY <2>1, <2>3
    <3>2. Cardinality({r}) = 1
      BY FS_Singleton
    <3> QED BY <3>1, <3>2
  <2> QED BY <2>2, <2>3
<1>2. QED BY <1>1, OrdinaryInvariant, PTL
=============================================================================
