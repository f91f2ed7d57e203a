----------------------------- MODULE RoomRouting -----------------------------
(***************************************************************************)
(* How connections reach rooms: the Manager (src/internal/room/manager.go) *)
(* with its index from players to rooms, the goroutines of a connection    *)
(* (src/internal/session, src/internal/server/ws.go), and the rooms as far *)
(* as seats go.  The index and the seats are guarded by different means, a *)
(* mutex and the goroutine of the room, and a request touches them in      *)
(* steps of its own: look up, submit and wait, update the index.           *)
(*                                                                         *)
(* A connection has three goroutines that call into a room: its read pump, *)
(* the handler that announces it when it opens, and the one that closes it.*)
(* RoomActor has the handlers of a room in full; here they change seats    *)
(* only.  A room here is a Room object, so that its number does not return.*)
(***************************************************************************)
EXTENDS Integers, Sequences, FiniteSets

CONSTANTS
    Player, Session, Room,
    PlayerOf,                    \* the player a connection authenticated as
    NoPlayer, NoRoom,
    NoSeat, Away, Abandoned,     \* what is in a seat but a connection
    RestoresRoom,                \* one room comes from before a restart
    Overload,                    \* submitSync may give up waiting or be turned away
    MaxBusy                      \* bound on the calls under way at a time

ASSUME RoutingAssumption ==
    /\ PlayerOf \in [Session -> Player]
    /\ NoPlayer \notin Player /\ NoRoom \notin Room
    /\ NoSeat # Away /\ NoSeat # Abandoned /\ Away # Abandoned
    /\ {NoSeat, Away, Abandoned} \cap Session = {}
    /\ RestoresRoom \in BOOLEAN /\ Overload \in BOOLEAN
    /\ MaxBusy \in Nat \ {0}

VARIABLES
    listed,       \* rooms of the Manager
    used,         \* history: rooms that were ever listed
    playerRoom,   \* the index
    seat, owner, phase, mailbox,   \* of each room
    conn,         \* "new", "open" or "closed"
    call          \* where each goroutine of a connection is

rooms == <<seat, owner, phase, mailbox>>
vars  == <<listed, used, playerRoom, rooms, conn, call>>

Thread == {"pump", "opener", "closer"}
Kind   == {"create", "snapshot", "join", "leave", "kick", "start", "reconnect", "disconnect"}
ThreadOf(kind) == CASE kind = "reconnect" -> "opener"
                    [] kind = "disconnect" -> "closer"
                    [] OTHER -> "pump"

Call(at, kind, r) == [at |-> at, kind |-> kind, room |-> r, ok |-> FALSE]
Idle == Call("idle", "create", NoRoom)

At(s, t, at) == call[s][t].at = at
Goes(s, t, c) == call' = [call EXCEPT ![s][t] = c]
Busy == {st \in Session \X Thread : ~At(st[1], st[2], "idle")}
Orphans == {ri \in Room \X (1 .. MaxBusy) :
              ri[2] \in DOMAIN mailbox[ri[1]] /\ ~mailbox[ri[1]][ri[2]].awaited}
Calm == Cardinality(Busy) + Cardinality(Orphans) < MaxBusy

\* A seat its player may come back to.
Holds(r, p) == seat[r][p] \notin {NoSeat, Abandoned}
Seated(r)   == {p \in Player : seat[r][p] # NoSeat}

Cleared(r, p) == [playerRoom EXCEPT ![p] = IF @ = r THEN NoRoom ELSE @]

-----------------------------------------------------------------------------
(* Connections.  Closing is one step that any goroutine may take at any    *)
(* time, a dropped line or a full send queue; the close hook runs after it.*)

Open(s) ==
    /\ Calm /\ conn[s] = "new"
    /\ conn' = [conn EXCEPT ![s] = "open"]
    /\ Goes(s, "opener", Call("due", "reconnect", NoRoom))
    /\ UNCHANGED <<listed, used, playerRoom, rooms>>

Close(s) ==
    /\ Calm /\ conn[s] = "open"
    /\ conn' = [conn EXCEPT ![s] = "closed"]
    /\ Goes(s, "closer", Call("due", "disconnect", NoRoom))
    /\ UNCHANGED <<listed, used, playerRoom, rooms>>

\* The greeting was refused because the connection is closed already.
HelloFails(s) ==
    /\ At(s, "opener", "due") /\ conn[s] = "closed"
    /\ Goes(s, "opener", Idle)
    /\ UNCHANGED <<listed, used, playerRoom, rooms, conn>>

\* OnSessionOpen and OnSessionClose; an entry to a room gone is cleared.
LookUp_Unchecked(s, t) ==
    /\ t \in {"opener", "closer"} /\ At(s, t, "due")
    /\ Goes(s, t, Call("submit", call[s][t].kind, playerRoom[PlayerOf[s]]))
    /\ UNCHANGED <<listed, used, playerRoom, rooms, conn>>
LookUp(s, t) ==
    LET r == playerRoom[PlayerOf[s]]
    IN  /\ t \in {"opener", "closer"} /\ At(s, t, "due")
        /\ IF r \in listed
           THEN Goes(s, t, Call("submit", call[s][t].kind, r)) /\ UNCHANGED playerRoom
           ELSE Goes(s, t, Idle) /\ playerRoom' = Cleared(r, PlayerOf[s])
        /\ UNCHANGED <<listed, used, rooms, conn>>

\* A request that these checks refuse has no effect.
AskCreate(s) ==
    /\ Calm /\ conn[s] = "open" /\ At(s, "pump", "idle")
    /\ playerRoom[PlayerOf[s]] = NoRoom
    /\ Goes(s, "pump", Call("publish", "create", NoRoom))
    /\ UNCHANGED <<listed, used, playerRoom, rooms, conn>>

AskJoin_Seated(s, r) ==
    /\ Calm /\ conn[s] = "open" /\ At(s, "pump", "idle") /\ r \in used
    /\ Goes(s, "pump", Call("submit", "join", r))
    /\ UNCHANGED <<listed, used, playerRoom, rooms, conn>>
AskJoin(s, r) ==
    /\ Calm /\ conn[s] = "open" /\ At(s, "pump", "idle") /\ r \in used
    /\ playerRoom[PlayerOf[s]] = NoRoom
    /\ Goes(s, "pump", Call("submit", "join", r))
    /\ UNCHANGED <<listed, used, playerRoom, rooms, conn>>

Forward(s, kind) ==
    LET r == playerRoom[PlayerOf[s]]
    IN  /\ kind \in {"leave", "kick", "start"}
        /\ Calm /\ conn[s] = "open" /\ At(s, "pump", "idle") /\ r \in listed
        /\ Goes(s, "pump", Call("submit", kind, r))
        /\ UNCHANGED <<listed, used, playerRoom, rooms, conn>>

Publish(s) ==
    LET p == PlayerOf[s]
    IN  \E r \in Room \ used :
          /\ At(s, "pump", "publish")
          /\ listed' = listed \cup {r} /\ used' = used \cup {r}
          /\ playerRoom' = [playerRoom EXCEPT ![p] = r]
          /\ seat' = [seat EXCEPT ![r][p] = s]
          /\ owner' = [owner EXCEPT ![r] = p]
          /\ Goes(s, "pump", Call("submit", "snapshot", r))
          /\ UNCHANGED <<phase, mailbox, conn>>

\* Refused by a room that is gone, or by a mailbox that others have filled.
Submit(s, t) ==
    LET c == call[s][t]
    IN  /\ At(s, t, "submit")
        /\ \/ /\ c.room \in listed
              /\ mailbox' = [mailbox EXCEPT ![c.room] =
                               Append(@, [kind |-> c.kind, from |-> s, awaited |-> TRUE])]
              /\ Goes(s, t, [c EXCEPT !.at = "waiting"])
           \/ /\ c.room \notin listed \/ Overload
              /\ Goes(s, t, [c EXCEPT !.at = "returned"])
              /\ UNCHANGED mailbox
        /\ UNCHANGED <<listed, used, playerRoom, seat, owner, phase, conn>>

\* The command stays in the mailbox and is still served.
GiveUp(s, t) ==
    LET c == call[s][t]
    IN  /\ Overload /\ At(s, t, "waiting")
        /\ Goes(s, t, [c EXCEPT !.at = "returned"])
        /\ mailbox' = [mailbox EXCEPT ![c.room] =
                         [i \in DOMAIN @ |->
                            IF @[i].from = s /\ ThreadOf(@[i].kind) = t
                            THEN [@[i] EXCEPT !.awaited = FALSE] ELSE @[i]]]
        /\ UNCHANGED <<listed, used, playerRoom, seat, owner, phase, conn>>

\* A join is entered in the index whatever happened to the seat meanwhile,
\* and a leave deletes the entry whether or not the room accepted it.
Return_NoIndex(s, t) ==
    /\ At(s, t, "returned")
    /\ Goes(s, t, Idle)
    /\ UNCHANGED <<listed, used, playerRoom, rooms, conn>>
Return(s, t) ==
    LET c == call[s][t]
        p == PlayerOf[s]
    IN  /\ At(s, t, "returned")
        /\ playerRoom' = CASE c.kind = "join" /\ c.ok -> [playerRoom EXCEPT ![p] = c.room]
                           [] c.kind = "leave" -> Cleared(c.room, p)
                           [] OTHER -> playerRoom
        /\ Goes(s, t, Idle)
        /\ UNCHANGED <<listed, used, rooms, conn>>

-----------------------------------------------------------------------------
(* Rooms.  A handler runs to its end, hooks into the Manager included,     *)
(* before its caller is answered.                                          *)

Command(r, kind, s) ==
    /\ mailbox[r] # <<>>
    /\ Head(mailbox[r]).kind = kind /\ Head(mailbox[r]).from = s

Answer(r, ok) ==
    LET m == Head(mailbox[r])
    IN  /\ mailbox' = [mailbox EXCEPT ![r] = Tail(@)]
        /\ IF m.awaited
           THEN Goes(m.from, ThreadOf(m.kind),
                     [call[m.from][ThreadOf(m.kind)] EXCEPT !.at = "returned", !.ok = ok])
           ELSE UNCHANGED call

\* What a room that is gone was like makes no difference any more.
Forget(r) ==
    /\ listed' = listed \ {r}
    /\ seat' = [seat EXCEPT ![r] = [p \in Player |-> NoSeat]]
    /\ owner' = [owner EXCEPT ![r] = NoPlayer]
    /\ phase' = [phase EXCEPT ![r] = "waiting"]

\* beginDestroy, removeRoom and rejectPendingCommands: every caller is told.
Destroy_Silently(r) ==
    /\ Forget(r)
    /\ playerRoom' = [p \in Player |-> IF playerRoom[p] = r THEN NoRoom ELSE playerRoom[p]]
    /\ mailbox' = [mailbox EXCEPT ![r] = <<>>]
    /\ UNCHANGED call
Destroy(r) ==
    /\ Forget(r)
    /\ playerRoom' = [p \in Player |-> IF playerRoom[p] = r THEN NoRoom ELSE playerRoom[p]]
    /\ mailbox' = [mailbox EXCEPT ![r] = <<>>]
    /\ call' = [s \in Session |-> [t \in Thread |->
                  IF At(s, t, "waiting") /\ call[s][t].room = r
                  THEN [call[s][t] EXCEPT !.at = "returned"] ELSE call[s][t]]]

RemoveMember(r, p) ==
    /\ IF Seated(r) = {p} THEN Destroy(r)
       ELSE /\ seat' = [seat EXCEPT ![r][p] = NoSeat]
            /\ \E heir \in Seated(r) \ {p} :
                  owner' = [owner EXCEPT ![r] = IF @ = p THEN heir ELSE @]
            /\ playerRoom' = Cleared(r, p)
            /\ Answer(r, TRUE)
            /\ UNCHANGED <<listed, phase>>
    /\ UNCHANGED <<used, conn>>

SetSeat(r, p, who) ==
    /\ seat' = [seat EXCEPT ![r][p] = who]
    /\ Answer(r, TRUE)
    /\ UNCHANGED <<listed, used, owner, phase, conn>>

CanJoin(r, s) == phase[r] = "waiting" /\ seat[r][PlayerOf[s]] = NoSeat
Bound(r, s)   == seat[r][PlayerOf[s]] = s
Commands(r, s) == Bound(r, s) /\ owner[r] = PlayerOf[s] /\ phase[r] = "waiting"
CanRejoin_Abandoned(r, s) == seat[r][PlayerOf[s]] # NoSeat
CanRejoin(r, s) == Holds(r, PlayerOf[s])

Join(r, s) ==
    /\ Command(r, "join", s) /\ CanJoin(r, s)
    /\ SetSeat(r, PlayerOf[s], s) /\ UNCHANGED playerRoom

Reconnect(r, s) ==
    /\ Command(r, "reconnect", s) /\ CanRejoin(r, s)
    /\ SetSeat(r, PlayerOf[s], s) /\ UNCHANGED playerRoom

Disconnect(r, s) ==
    /\ Command(r, "disconnect", s) /\ Bound(r, s)
    /\ IF phase[r] = "playing" THEN SetSeat(r, PlayerOf[s], Away) /\ UNCHANGED playerRoom
       ELSE RemoveMember(r, PlayerOf[s])

Leave(r, s) ==
    /\ Command(r, "leave", s) /\ Bound(r, s)
    /\ IF phase[r] = "playing"
       THEN SetSeat(r, PlayerOf[s], Abandoned) /\ playerRoom' = Cleared(r, PlayerOf[s])
       ELSE RemoveMember(r, PlayerOf[s])

Kick(r, s) ==
    /\ Command(r, "kick", s) /\ Commands(r, s)
    /\ \E q \in Seated(r) \ {owner[r]} : RemoveMember(r, q)

Start(r, s) ==
    /\ Command(r, "start", s) /\ Commands(r, s) /\ Cardinality(Seated(r)) >= 2
    /\ phase' = [phase EXCEPT ![r] = "playing"]
    /\ Answer(r, TRUE)
    /\ UNCHANGED <<listed, used, playerRoom, seat, owner, conn>>

\* Who asks for a start or a kick may also be refused for what is left out
\* here: somebody is not ready, the kicked player is not a member.
Refuse(r) ==
    LET m == Head(mailbox[r])
        s == m.from
    IN  /\ mailbox[r] # <<>>
        /\ \/ m.kind = "join" /\ ~CanJoin(r, s)
           \/ m.kind = "reconnect" /\ ~CanRejoin(r, s)
           \/ m.kind \in {"disconnect", "leave"} /\ ~Bound(r, s)
           \/ m.kind \in {"kick", "start"}
        /\ Answer(r, FALSE)
        /\ UNCHANGED <<listed, used, playerRoom, seat, owner, phase, conn>>

\* A snapshot is no business of seats.
Snapshot(r, s) ==
    /\ Command(r, "snapshot", s) /\ Answer(r, TRUE)
    /\ UNCHANGED <<listed, used, playerRoom, seat, owner, phase, conn>>

RoundEnds(r) ==
    /\ r \in listed /\ phase[r] = "playing"
    /\ phase' = [phase EXCEPT ![r] = "settled"]
    /\ UNCHANGED <<listed, used, playerRoom, seat, owner, mailbox, conn, call>>

EmptyRoomTimesOut(r) ==
    /\ r \in listed /\ \A p \in Player : seat[r][p] \notin Session
    /\ Destroy(r)
    /\ UNCHANGED <<used, conn>>

Serves(r) ==
    \/ \E s \in Session : \/ Join(r, s) \/ Reconnect(r, s) \/ Disconnect(r, s)
                          \/ Leave(r, s) \/ Kick(r, s) \/ Start(r, s)
                          \/ Snapshot(r, s)
    \/ Refuse(r)

-----------------------------------------------------------------------------
Goroutine(s) ==
    \/ HelloFails(s) \/ Publish(s)
    \/ \E t \in Thread : LookUp(s, t) \/ Submit(s, t) \/ GiveUp(s, t) \/ Return(s, t)

\* When nobody connects or asks any more, everything has come to rest.
Next ==
    \/ \E s \in Session :
          \/ Open(s) \/ Close(s) \/ AskCreate(s) \/ Goroutine(s)
          \/ \E r \in Room : AskJoin(s, r)
          \/ \E kind \in Kind : Forward(s, kind)
    \/ \E r \in Room : Serves(r) \/ RoundEnds(r) \/ EmptyRoomTimesOut(r)

\* Manager.Restore: every member is away, and all but those who abandoned
\* the round are in the index.
Fresh ==
    /\ listed = {} /\ playerRoom = [p \in Player |-> NoRoom]
    /\ seat = [r \in Room |-> [p \in Player |-> NoSeat]]
    /\ owner = [r \in Room |-> NoPlayer] /\ phase = [r \in Room |-> "waiting"]

Restored ==
    \E r \in Room, p \in Player, away, left \in SUBSET Player, ph \in {"waiting", "playing"} :
      /\ away \cap left = {} /\ p \in away \cup left
      /\ IF ph = "waiting" THEN left = {} ELSE Cardinality(away \cup left) >= 2
      /\ listed = {r}
      /\ playerRoom = [q \in Player |-> IF q \in away THEN r ELSE NoRoom]
      /\ seat = [x \in Room |-> [q \in Player |->
                   CASE x = r /\ q \in away -> Away
                     [] x = r /\ q \in left -> Abandoned
                     [] OTHER -> NoSeat]]
      /\ owner = [x \in Room |-> IF x = r THEN p ELSE NoPlayer]
      /\ phase = [x \in Room |-> IF x = r THEN ph ELSE "waiting"]

Init ==
    /\ IF RestoresRoom THEN Restored ELSE Fresh
    /\ used = listed
    /\ mailbox = [r \in Room |-> <<>>]
    /\ conn = [s \in Session |-> "new"]
    /\ call = [s \in Session |-> [t \in Thread |-> Idle]]

\* The goroutine of every room keeps serving; nobody has to ask, to close
\* or to give up.
Fairness == \A r \in Room : WF_vars(Serves(r))

Spec == Init /\ [][Next]_vars /\ Fairness

-----------------------------------------------------------------------------
(* Types; no command is ever addressed to a room that was not found; and no *)
(* room is left on the server without its members: its owner is one.       *)
TypeOK ==
    /\ listed \subseteq used /\ used \subseteq Room
    /\ playerRoom \in [Player -> Room \cup {NoRoom}]
    /\ seat \in [Room -> [Player -> Session \cup {NoSeat, Away, Abandoned}]]
    /\ owner \in [Room -> Player \cup {NoPlayer}] /\ \A r \in listed : owner[r] \in Seated(r)
    /\ phase \in [Room -> {"waiting", "playing", "settled"}]
    /\ mailbox \in [Room -> Seq([kind : Kind, from : Session, awaited : BOOLEAN])]
    /\ conn \in [Session -> {"new", "open", "closed"}]
    /\ call \in [Session -> [Thread ->
          [at : {"idle", "due", "publish", "submit", "waiting", "returned"},
           kind : Kind, room : Room \cup {NoRoom}, ok : BOOLEAN]]]
    /\ \A s \in Session, t \in Thread :
          At(s, t, "submit") \/ At(s, t, "waiting") => call[s][t].room \in used

\* A join the room has accepted and the index does not have yet.
Entering(r, p) ==
    \E s \in Session : /\ PlayerOf[s] = p
                       /\ call[s]["pump"] = [Call("returned", "join", r) EXCEPT !.ok = TRUE]

(* A seated player is never out of reach of the room: its commands and its *)
(* closing find the seat, for the index has it or is about to have it.     *)
SeatHasRoute ==
    \A r \in listed, p \in Player : Holds(r, p) => playerRoom[p] = r \/ Entering(r, p)

(* As long as a room waits for its round, the index and its seats agree up *)
(* to a join under way, in whatever order closings, leaves, kicks and      *)
(* joins of several connections come.                                      *)
WaitingSeatHasRoute ==
    \A r \in listed, p \in Player :
        phase[r] = "waiting" /\ Holds(r, p) => playerRoom[p] = r \/ Entering(r, p)

(* A player sits in one room at most, rounds it walked out of aside.       *)
OneSeatEach ==
    \A p \in Player : Cardinality({r \in listed : Holds(r, p)}) <= 1

(* Once a connection is closed and its close hook has run, no seat is      *)
(* bound to it: the room counts it as connected no more.                   *)
BoundSessionsAreLive ==
    \A r \in listed, s \in Session :
        Bound(r, s) => conn[s] = "open" \/ ~At(s, "closer", "idle")

(* Who walked out of a round does not get back into its seat, by a         *)
(* reconnection that was under way either.                                 *)
AbandonedForGood ==
    [][\A r \in Room, p \in Player :
          seat[r][p] = Abandoned => seat'[r][p] \in {Abandoned, NoSeat}]_vars

(* Nobody waits for ever for a room, one that is being destroyed included. *)
CallsReturn ==
    \A s \in Session, t \in Thread : At(s, t, "waiting") ~> ~At(s, t, "waiting")
=============================================================================
