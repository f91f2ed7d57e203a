--------------------------- MODULE RoomPersistence ---------------------------
(***************************************************************************)
(* What outlives the process: the snapshot of every room in Redis and the  *)
(* record of its matches in MySQL (src/internal/room/{snapshot,persistence,*)
(* lifecycle}.go, src/internal/store).  Memory is the truth while the      *)
(* process runs; it may die at any point, and the next one rebuilds the    *)
(* rooms from their snapshots.                                             *)
(*                                                                         *)
(* A room serves one command at a time: its handler changes the room, and  *)
(* then the room works through what the command left to write, its         *)
(* `pending` steps, before it answers and takes the next one.  Rooms run   *)
(* beside each other, so the steps of two rooms interleave, and a player   *)
(* who was taken out of one room may be in another before the first has    *)
(* written that down.                                                      *)
(*                                                                         *)
(* Of a room only what the stores are about matters: who sits in it, who   *)
(* of them gave the seat up, and the match it plays.  The in-memory index  *)
(* of players is taken to agree with the seats (RoomRouting is about when  *)
(* it does), and the cards are those of UnoEngine.                         *)
(***************************************************************************)
EXTENDS Integers, Sequences, FiniteSets, FiniteSetsExt

CONSTANTS
    Player, NoPlayer,
    Room,        \* numbers: snapshots are restored in the order of the ids
    MaxMatch,    \* bound on the matches ever started
    MaxFailures  \* bound on the calls of Redis and MySQL that fail

ASSUME PersistenceAssumption ==
    /\ NoPlayer \notin Player /\ IsFiniteSet(Player)
    /\ Room \subseteq Nat \ {0} /\ IsFiniteSet(Room)
    /\ MaxMatch \in Nat /\ MaxFailures \in Nat

NoRoom == 0
NoMatch == 0
Match == 1 .. MaxMatch

VARIABLES
    proc,        \* "up", "stopping", "down" or "restoring"
    room,        \* the image of every room in memory
    online,      \* players whose seat is bound to a connection
    pending,     \* what a room still has to write for its current command
    stopped,     \* rooms whose mailbox loop has returned after a stop
    todo,        \* snapshots that were loaded and not yet restored
    snap, roomIndex, playerKey,                  \* Redis
    matchStatus, matchRoom, matchWinner,         \* MySQL
    lastMatch,   \* the last match id handed out
    failures,    \* calls of the stores that failed so far
    announced,   \* history: the winners broadcast to the players of a match
    copied,      \* history: the last save of the room is in Redis
    conflicted,  \* history: players named by a snapshot thrown away as a conflict
    promised     \* history: the rooms of a process that died with nothing to write

memory  == <<room, online, pending, stopped>>
redis   == <<snap, roomIndex, playerKey>>
mysql   == <<matchStatus, matchRoom, matchWinner>>
ids     == <<lastMatch, failures>>
history == <<announced, copied, conflicted, promised>>
vars    == <<proc, todo, memory, redis, mysql, ids, history>>

NoImage == [phase |-> "none", members |-> {}, gone |-> {}, match |-> NoMatch]
Image ==
    [phase : {"none", "waiting", "playing", "settled", "destroyed"},
     members : SUBSET Player, gone : SUBSET Player, match : Match \cup {NoMatch}]

\* Members who may come back: activeSnapshotPlayerIDs.
Active(i) == i.members \ i.gone
Live(r)   == room[r].phase \in {"waiting", "playing", "settled"} /\ r \notin stopped
Idle(r)   == Live(r) /\ pending[r] = <<>>

\* The room of a player in the index of the manager.
Seated(p) == \E r \in Room : room[r].phase \notin {"none", "destroyed"} /\ p \in Active(room[r])

Save      == [op |-> "save", player |-> NoPlayer]
Clear(p)  == [op |-> "clear", player |-> p]
Finish(w) == [op |-> "finish", player |-> w]

\* A call of a store fails: it is logged and no more.
Fails == failures < MaxFailures /\ failures' = failures + 1

\* The handler of a command leaves the room as i, with these steps to take.
Handled(r, i, steps) ==
    /\ room' = [room EXCEPT ![r] = i]
    /\ pending' = [pending EXCEPT ![r] = steps]
    /\ UNCHANGED <<proc, todo, stopped, redis, mysql, failures, copied, conflicted, promised>>

-----------------------------------------------------------------------------
(* Commands of clients.                                                    *)

Serving == proc = "up"

\* allocateRoomID only looks at the rooms in memory.
Create(p, r) ==
    /\ Serving /\ room[r].phase = "none" /\ ~Seated(p)
    /\ Handled(r, [NoImage EXCEPT !.phase = "waiting", !.members = {p}], <<Save>>)
    /\ online' = online \cup {p}
    /\ UNCHANGED <<lastMatch, announced>>

Join(p, r) ==
    /\ Serving /\ Idle(r) /\ room[r].phase = "waiting" /\ ~Seated(p)
    /\ Handled(r, [room[r] EXCEPT !.members = @ \cup {p}], <<Save>>)
    /\ online' = online \cup {p}
    /\ UNCHANGED <<lastMatch, announced>>

\* The last member takes the room along; its snapshot is deleted in the end.
Without(i, p) ==
    [i EXCEPT !.members = @ \ {p}, !.gone = @ \ {p},
              !.phase = IF i.members = {p} THEN "destroyed" ELSE @]

Remove_Unsaved(p, r) ==
    /\ Handled(r, Without(room[r], p), <<Clear(p)>>)
    /\ online' = online \ {p}
    /\ UNCHANGED <<lastMatch, announced>>
Remove(p, r) ==
    /\ Handled(r, Without(room[r], p), <<Clear(p), Save>>)
    /\ online' = online \ {p}
    /\ UNCHANGED <<lastMatch, announced>>

Leave(p, r) ==
    /\ Serving /\ Idle(r) /\ room[r].phase # "playing" /\ p \in Active(room[r]) \cap online
    /\ Remove(p, r)

\* The owner is some other member whose connection is there.
Kick(p, r) ==
    /\ Serving /\ Idle(r) /\ room[r].phase = "waiting" /\ p \in room[r].members
    /\ (room[r].members \ {p}) \cap online # {}
    /\ Remove(p, r)

Abandon_FreesSeat(p, r) ==
    /\ Serving /\ Idle(r) /\ room[r].phase = "playing" /\ p \in Active(room[r]) \cap online
    /\ Handled(r, [room[r] EXCEPT !.gone = @ \cup {p}, !.members = @ \ {p}], <<Clear(p), Save>>)
    /\ online' = online \ {p}
    /\ UNCHANGED <<lastMatch, announced>>
Abandon(p, r) ==
    /\ Serving /\ Idle(r) /\ room[r].phase = "playing" /\ p \in Active(room[r]) \cap online
    /\ Handled(r, [room[r] EXCEPT !.gone = @ \cup {p}], <<Clear(p), Save>>)
    /\ online' = online \ {p}
    /\ UNCHANGED <<lastMatch, announced>>

\* A connection closes, by itself or by CloseAll.
Disconnect(p) ==
    \E r \in Room :
        /\ Serving /\ Idle(r) /\ p \in Active(room[r]) \cap online
        /\ IF room[r].phase = "playing"
           THEN /\ Handled(r, room[r], <<Save>>)
                /\ online' = online \ {p}
                /\ UNCHANGED <<lastMatch, announced>>
           ELSE Remove(p, r)

Reconnect(p, r) ==
    /\ Serving /\ Idle(r) /\ p \in Active(room[r]) \ online
    /\ Handled(r, room[r], <<Save>>)
    /\ online' = online \cup {p}
    /\ UNCHANGED <<lastMatch, announced>>

\* Ready, calls of the rules engine, refused commands: every one ends with a save.
OtherCommand(r) ==
    /\ Serving /\ Idle(r) /\ room[r].members \cap online # {}
    /\ Handled(r, room[r], <<Save>>)
    /\ UNCHANGED <<online, lastMatch, announced>>

-----------------------------------------------------------------------------
(* A round starts and ends.                                                *)

CanStart(r) ==
    /\ Serving /\ Idle(r) /\ room[r].phase = "waiting"
    /\ Cardinality(room[r].members) >= 2 /\ room[r].members \cap online # {}
    /\ lastMatch < MaxMatch

InsertMatch(m, r) ==
    /\ matchStatus' = [matchStatus EXCEPT ![m] = "playing"]
    /\ matchRoom' = [matchRoom EXCEPT ![m] = r]
    /\ UNCHANGED matchWinner

InRound(r, m) == [room[r] EXCEPT !.phase = "playing", !.match = m]

Start(r) ==
    LET m == lastMatch + 1
    IN  /\ CanStart(r)
        /\ lastMatch' = m
        /\ InsertMatch(m, r)
        /\ room' = [room EXCEPT ![r] = InRound(r, m)]
        /\ pending' = [pending EXCEPT ![r] = <<Save>>]
        /\ UNCHANGED <<proc, todo, online, stopped, redis, failures, history>>

\* CreateMatch fails: the room stays waiting and the id is used up.  The
\* statement may have been executed all the same.
StartRefused_Ignored(r) ==
    LET m == lastMatch + 1
    IN  /\ CanStart(r) /\ Fails
        /\ lastMatch' = m
        /\ room' = [room EXCEPT ![r] = InRound(r, m)]
        /\ pending' = [pending EXCEPT ![r] = <<Save>>]
        /\ UNCHANGED <<proc, todo, online, stopped, redis, mysql, history>>
StartRefused(r) ==
    LET m == lastMatch + 1
    IN  /\ CanStart(r) /\ Fails
        /\ lastMatch' = m
        /\ InsertMatch(m, r) \/ UNCHANGED mysql
        /\ pending' = [pending EXCEPT ![r] = <<Save>>]
        /\ UNCHANGED <<proc, todo, room, online, stopped, redis, history>>

\* By a player or by the automation.  The players hear of the result first.
RoundEnds_Unrecorded(r) ==
    /\ Idle(r) /\ room[r].phase = "playing"
    /\ \E w \in room[r].members :
          /\ Handled(r, [room[r] EXCEPT !.phase = "settled"], <<Save>>)
          /\ announced' = [announced EXCEPT ![room[r].match] = @ \cup {w}]
    /\ UNCHANGED <<online, lastMatch>>
RoundEnds(r) ==
    /\ Idle(r) /\ room[r].phase = "playing"
    /\ \E w \in room[r].members :
          /\ Handled(r, [room[r] EXCEPT !.phase = "settled"], <<Finish(w), Save>>)
          /\ announced' = [announced EXCEPT ![room[r].match] = @ \cup {w}]
    /\ UNCHANGED <<online, lastMatch>>

\* Automated moves go on, whoever is there.
AutomatedMove(r) ==
    /\ Idle(r) /\ room[r].phase = "playing"
    /\ Handled(r, room[r], <<Save>>)
    /\ UNCHANGED <<online, lastMatch, announced>>

EmptyRoomTimeout(r) ==
    /\ Idle(r) /\ Active(room[r]) \cap online = {}
    /\ Handled(r, [room[r] EXCEPT !.phase = "destroyed"], <<Save>>)
    /\ UNCHANGED <<online, lastMatch, announced>>

-----------------------------------------------------------------------------
(* The pending steps of a room.  A call that fails is logged and no more;  *)
(* one that took effect all the same is like one that succeeded.           *)

Steps(r, op) == pending[r] # <<>> /\ Head(pending[r]).op = op

NextStep(r) == pending' = [pending EXCEPT ![r] = Tail(@)]

\* DeletePlayerRoom.
ClearPlayerKey_AnyRoom(r) ==
    LET p == Head(pending[r]).player
    IN  /\ Steps(r, "clear") /\ NextStep(r)
        /\ \/ playerKey' = [playerKey EXCEPT ![p] = NoRoom] /\ UNCHANGED failures
           \/ Fails /\ UNCHANGED playerKey
        /\ UNCHANGED <<proc, todo, room, online, stopped, snap, roomIndex, mysql, lastMatch, history>>
ClearPlayerKey(r) ==
    LET p == Head(pending[r]).player
    IN  /\ Steps(r, "clear") /\ NextStep(r)
        /\ \/ playerKey' = [playerKey EXCEPT ![p] = IF @ = r THEN NoRoom ELSE @] /\ UNCHANGED failures
           \/ Fails /\ UNCHANGED playerKey
        /\ UNCHANGED <<proc, todo, room, online, stopped, snap, roomIndex, mysql, lastMatch, history>>

EnterResult(m, w) ==
    /\ matchStatus' = [matchStatus EXCEPT ![m] = "finished"]
    /\ matchWinner' = [matchWinner EXCEPT ![m] = {w}]
    /\ UNCHANGED matchRoom

\* FinishMatch: one transaction, which a match that is not playing refuses.
FinishMatch_Overwrites(r) ==
    LET m == room[r].match
    IN  /\ Steps(r, "finish") /\ NextStep(r)
        /\ \/ EnterResult(m, Head(pending[r]).player) /\ UNCHANGED failures
           \/ Fails /\ UNCHANGED mysql
        /\ UNCHANGED <<proc, todo, room, online, stopped, redis, lastMatch, history>>
FinishMatch(r) ==
    LET m == room[r].match
    IN  /\ Steps(r, "finish") /\ NextStep(r)
        /\ \/ /\ matchStatus[m] = "playing"
              /\ EnterResult(m, Head(pending[r]).player)
              /\ Fails \/ UNCHANGED failures
           \/ matchStatus[m] # "playing" /\ UNCHANGED <<mysql, failures>>
           \/ Fails /\ UNCHANGED mysql
        /\ UNCHANGED <<proc, todo, room, online, stopped, redis, lastMatch, history>>

\* The scripts of the repository: each is atomic in Redis.
SaveRoom(r, i) ==
    /\ snap' = [snap EXCEPT ![r] = i]
    /\ roomIndex' = roomIndex \cup {r}
    /\ playerKey' = [p \in Player |-> IF p \in Active(i) THEN r ELSE playerKey[p]]

DeleteRoom_OnlyIndex(r, i) ==
    /\ roomIndex' = roomIndex \ {r}
    /\ playerKey' = [p \in Player |-> IF p \in i.members /\ playerKey[p] = r THEN NoRoom ELSE playerKey[p]]
    /\ UNCHANGED snap
DeleteRoom(r, i) ==
    /\ snap' = [snap EXCEPT ![r] = NoImage]
    /\ roomIndex' = roomIndex \ {r}
    /\ playerKey' = [p \in Player |-> IF p \in i.members /\ playerKey[p] = r THEN NoRoom
                                      ELSE playerKey[p]]

\* syncSnapshot.  A room that is destroyed is gone after it.
SyncSnapshot(r) ==
    LET over == room[r].phase \in {"settled", "destroyed"}
    IN  /\ Steps(r, "save") /\ NextStep(r)
        /\ \/ /\ IF over THEN DeleteRoom(r, room[r]) ELSE SaveRoom(r, room[r])
              /\ copied' = [copied EXCEPT ![r] = room[r].phase # "destroyed"]
              /\ UNCHANGED failures
           \/ Fails /\ UNCHANGED redis /\ copied' = [copied EXCEPT ![r] = FALSE]
        /\ room' = [room EXCEPT ![r] = IF @.phase = "destroyed" THEN NoImage ELSE @]
        /\ UNCHANGED <<proc, todo, online, stopped, mysql, lastMatch, announced, conflicted, promised>>

\* Keys of a room that serves no command for the whole TTL.  The turn timer
\* makes a room with a round serve one, and a start takes seconds.
Expire(r) ==
    /\ snap[r] # NoImage /\ proc # "restoring"
    /\ pending[r] = <<>> /\ room[r].phase # "playing"
    /\ snap' = [snap EXCEPT ![r] = NoImage]
    /\ playerKey' = [p \in Player |-> IF playerKey[p] = r THEN NoRoom ELSE playerKey[p]]
    /\ copied' = [copied EXCEPT ![r] = FALSE]
    /\ promised' = [promised EXCEPT ![r] = NoImage]
    /\ UNCHANGED <<proc, todo, memory, roomIndex, mysql, ids, announced, conflicted>>

-----------------------------------------------------------------------------
(* The process: crash, shutdown and restart.                               *)

NoImages == [r \in Room |-> NoImage]
AtRest == \A r \in Room : pending[r] = <<>> /\ (room[r].phase # "none" => copied[r])

\* What is in memory is lost.
MemoryLost ==
    /\ proc' = "down"
    /\ promised' = IF AtRest /\ failures = 0 /\ proc # "restoring" THEN room ELSE NoImages
    /\ room' = NoImages /\ pending' = [r \in Room |-> <<>>]
    /\ online' = {} /\ stopped' = {} /\ todo' = {}
    /\ copied' = [r \in Room |-> FALSE]
    /\ UNCHANGED <<redis, mysql, ids, announced, conflicted>>

Crash == proc # "down" /\ MemoryLost

\* The HTTP server takes no new connection and CloseAll closes those there are.
\* Rooms serve on until it returns, after the close hook of the last one has
\* run: for them this is the end of "up", in which nobody happens to reconnect.
ConnectionsClosed ==
    /\ proc = "up" /\ online = {}
    /\ proc' = "stopping"
    /\ UNCHANGED <<todo, memory, redis, mysql, ids, history>>

\* commandStop: a last snapshot, and the loop of the room returns.
Stop(r) ==
    /\ proc = "stopping" /\ Idle(r)
    /\ stopped' = stopped \cup {r}
    /\ pending' = [pending EXCEPT ![r] = <<Save>>]
    /\ UNCHANGED <<proc, todo, room, online, redis, mysql, ids, history>>

Exit ==
    /\ proc = "stopping" /\ \A r \in Room : ~Live(r) /\ pending[r] = <<>>
    /\ MemoryLost

\* LoadSnapshots: what the index lists; ids without a snapshot are dropped from
\* it.  A load that fails keeps the process from starting.
LoadSnapshots ==
    /\ proc = "down" /\ proc' = "restoring"
    /\ todo' = {r \in roomIndex : snap[r] # NoImage}
    /\ roomIndex' = todo'
    /\ UNCHANGED <<memory, snap, playerKey, mysql, ids, history>>

Restored(r) ==
    /\ room' = [room EXCEPT ![r] = snap[r]]
    /\ pending' = [pending EXCEPT ![r] = <<Save>>]
    /\ UNCHANGED <<redis, failures, conflicted>>

\* The room that was not published saves itself once more when it is stopped,
\* then its record is deleted.  Either call may fail.
Discarded(r) ==
    LET named == Active(snap[r])
        overwritten == [p \in Player |-> IF p \in named THEN r ELSE playerKey[p]]
        freed(key) == [p \in Player |-> IF p \in snap[r].members /\ key[p] = r
                                        THEN NoRoom ELSE key[p]]
    IN  /\ conflicted' = conflicted \cup named
        /\ \E saved, deleted \in BOOLEAN :
              LET key == IF saved THEN overwritten ELSE playerKey
              IN  /\ IF saved /\ deleted THEN UNCHANGED failures ELSE Fails
                  /\ playerKey' = IF deleted THEN freed(key) ELSE key
                  /\ snap' = IF deleted THEN [snap EXCEPT ![r] = NoImage] ELSE snap
                  /\ roomIndex' = IF deleted THEN roomIndex \ {r} ELSE roomIndex
        /\ UNCHANGED <<room, pending>>

\* restoreRecord, in the order of the ids.  The first snapshot of a restored
\* room is waited for, unless the wait ends with an error.
RestoreRecord ==
    LET r == Min(todo)
    IN  /\ proc = "restoring" /\ todo # {}
        /\ failures > 0 \/ \A q \in Room : pending[q] = <<>>
        /\ IF \E p \in Active(snap[r]) : Seated(p) THEN Discarded(r) ELSE Restored(r)
        /\ todo' = todo \ {r}
        /\ UNCHANGED <<proc, online, stopped, mysql, lastMatch, announced, copied, promised>>

\* Only now the server listens.
StartServing ==
    /\ proc = "restoring" /\ todo = {}
    /\ proc' = "up"
    /\ promised' = NoImages
    /\ UNCHANGED <<todo, memory, redis, mysql, ids, announced, copied, conflicted>>

-----------------------------------------------------------------------------
Init ==
    /\ proc = "up" /\ todo = {}
    /\ room = NoImages /\ online = {} /\ stopped = {} /\ pending = [r \in Room |-> <<>>]
    /\ snap = NoImages /\ roomIndex = {} /\ playerKey = [p \in Player |-> NoRoom]
    /\ matchStatus = [m \in Match |-> "absent"] /\ matchRoom = [m \in Match |-> NoRoom]
    /\ matchWinner = [m \in Match |-> {}]
    /\ lastMatch = 0 /\ failures = 0
    /\ announced = [m \in Match |-> {}] /\ copied = [r \in Room |-> FALSE]
    /\ conflicted = {} /\ promised = NoImages

Next ==
    \/ \E p \in Player, r \in Room :
          \/ Create(p, r) \/ Join(p, r) \/ Leave(p, r) \/ Kick(p, r)
          \/ Abandon(p, r) \/ Reconnect(p, r)
    \/ \E p \in Player : Disconnect(p)
    \/ \E r \in Room :
          \/ OtherCommand(r) \/ Start(r) \/ StartRefused(r) \/ RoundEnds(r)
          \/ AutomatedMove(r) \/ EmptyRoomTimeout(r)
          \/ ClearPlayerKey(r) \/ FinishMatch(r) \/ SyncSnapshot(r) \/ Expire(r)
          \/ Stop(r)
    \/ Crash \/ ConnectionsClosed \/ Exit
    \/ LoadSnapshots \/ RestoreRecord \/ StartServing

Spec == Init /\ [][Next]_vars

-----------------------------------------------------------------------------
Step == {Save} \cup {Clear(p) : p \in Player} \cup {Finish(p) : p \in Player}

(* Types.  Who gave a seat up still has one, in memory and in Redis, and   *)
(* the index lists every snapshot, so that each can be found.              *)
TypeOK ==
    /\ proc \in {"up", "stopping", "down", "restoring"}
    /\ room \in [Room -> Image] /\ snap \in [Room -> Image]
    /\ \A r \in Room : room[r].gone \subseteq room[r].members
    /\ \A r \in Room : snap[r].phase \in {"none", "waiting", "playing"}
    /\ pending \in [Room -> Seq(Step)]
    /\ online \subseteq Player /\ stopped \subseteq Room /\ todo \subseteq Room
    /\ roomIndex \in SUBSET Room /\ {r \in Room : snap[r] # NoImage} \subseteq roomIndex
    /\ playerKey \in [Player -> Room \cup {NoRoom}]
    /\ matchStatus \in [Match -> {"absent", "playing", "finished"}]
    /\ matchRoom \in [Match -> Room \cup {NoRoom}]
    /\ matchWinner \in [Match -> SUBSET Player]
    /\ lastMatch \in Match \cup {0} /\ failures \in 0 .. MaxFailures

(* A round that is played, or that a restart would take up again, is in    *)
(* the record of matches under its room, whatever calls failed and         *)
(* wherever the process died: there is a row for its result to go to.      *)
RoundHasItsMatch ==
    \A r \in Room : \A i \in {room[r], snap[r]} :
        i.phase \in {"playing", "settled"} =>
            matchStatus[i.match] # "absent" /\ matchRoom[i.match] = r

(* When a room has answered a command and no write was lost, Redis has the *)
(* room as it is, lists it, and leads its members to it: no write of       *)
(* another room, and no late clean-up of a seat given up in another room,  *)
(* gets in between.  The exception are players whom a snapshot thrown away *)
(* at a restart also named: its last save took their keys.                 *)
AnsweredIsSaved ==
    \A r \in Room :
        /\ room[r].phase \in {"waiting", "playing"}
        /\ pending[r] = <<>> /\ copied[r]
        => /\ snap[r] = room[r] /\ r \in roomIndex
           /\ \A p \in Active(room[r]) \ conflicted : playerKey[p] = r

(* Without lost writes a room that is over stays over: once it has written *)
(* that down, no snapshot is left to bring back a settled round or a room  *)
(* without members.                                                        *)
OverIsForgotten ==
    \A r \in Room :
        /\ failures = 0 /\ proc \in {"up", "stopping"}
        /\ room[r].phase \in {"none", "settled"} /\ pending[r] = <<>>
        => snap[r] = NoImage /\ \A p \in Player : playerKey[p] # r

(* Without lost writes a round the players were told the end of has its    *)
(* result recorded before the room answers.                                *)
SettledIsRecorded ==
    \A r \in Room :
        /\ failures = 0 /\ room[r].phase = "settled"
        /\ \A i \in DOMAIN pending[r] : pending[r][i].op # "finish"
        => matchStatus[room[r].match] = "finished"

(* A process that died between commands, killed or shut down, loses no     *)
(* room: each comes back as it was, and none is taken for a conflict.      *)
(* It presumes that no write had failed by then (failures in MemoryLost),  *)
(* and promises nothing of a snapshot that has expired (Expire).           *)
RestartBringsRoomsBack ==
    [][\A r \in Room : promised[r].phase \in {"waiting", "playing"} =>
          /\ LoadSnapshots => r \in todo'
          /\ r \in todo \ todo' /\ proc' = "restoring" => room'[r] = promised[r]]_vars

(* What the record of matches promises (MatchLedger).                      *)
Ledger == INSTANCE MatchLedger WITH status <- matchStatus, winner <- matchWinner
ImplementsLedger == Ledger!LedgerSpec
=============================================================================
