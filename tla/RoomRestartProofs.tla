------------------------- MODULE RoomRestartProofs -------------------------
(***************************************************************************)
(* Proofs about what RoomPersistence keeps in Redis: the snapshot and the  *)
(* keys of a room that has answered, the room that is over, and what a     *)
(* restart brings back.                                                    *)
(***************************************************************************)
EXTENDS RoomPersistenceProofs

(* What the keys of players and the snapshot of a room tell of it while no *)
(* write was lost: a key leads to a snapshot that names the player, and to *)
(* a room in memory that has the player or is about to clear the key; a    *)
(* room that is over and has written so has no snapshot.                   *)
KeysOf(r) ==
    /\ \A p \in Player : playerKey[p] = r =>
          /\ p \in Active(snap[r])
          /\ room[r].phase # "none" => p \in Active(room[r]) \/ pending[r] = <<Clear(p), Save>>
    /\ proc # "down" /\ r \notin todo /\ room[r].phase = "none" => snap[r] = NoImage
    /\ room[r].phase = "settled" /\ pending[r] = <<>> => snap[r] = NoImage

(* The inductive invariant about the keys: it holds as long as no write    *)
(* was lost.                                                               *)
KeysLead == failures = 0 => \A r \in Room : KeysOf(r)

(* The room of a process that died at rest, which the next one has to      *)
(* bring back.                                                             *)
Stays(r) == promised[r].phase \in {"waiting", "playing"}

(* The inductive invariant about a restart: what is not restored yet is in *)
(* Redis as it was promised, promised rooms share no player, and the rooms *)
(* already back hold only players of their own promise.                    *)
Promise ==
    (\E r \in Room : Stays(r)) =>
        /\ proc \in {"down", "restoring"}
        /\ \A r \in Room : (proc = "down" \/ r \in todo) /\ (Stays(r) \/ snap[r] # NoImage) =>
              snap[r] = promised[r]
        /\ \A q, r \in Room : q # r => Active(promised[q]) \cap Active(promised[r]) = {}
        /\ \A r \in Room : proc = "restoring" /\ r \notin todo => Active(room[r]) \subseteq Active(promised[r])

-----------------------------------------------------------------------------
(* AnsweredIsSaved for one room.                                           *)
Saved(r) ==
    room[r].phase \in {"waiting", "playing"} /\ pending[r] = <<>> /\ copied[r] =>
        /\ snap[r] = room[r] /\ r \in roomIndex
        /\ \A p \in Active(room[r]) \ conflicted : playerKey[p] = r

(* A step that leaves the room, its snapshot and the keys of its members   *)
(* alone keeps the room saved.                                             *)
LEMMA SavedKept ==
    ASSUME NEW r \in Room, Saved(r), room'[r] = room[r],
           pending'[r] # <<>> \/ pending'[r] = pending[r],
           copied'[r] = copied[r], snap'[r] = snap[r], r \in roomIndex => r \in roomIndex',
           conflicted \subseteq conflicted',
           pending[r] = <<>> /\ room[r].phase # "destroyed" =>
              \A p \in Active(room[r]) \ conflicted' : playerKey[p] = r => playerKey'[p] = r
    PROVE  Saved(r)'
BY DEF Saved, Active

(* A command leaves its own room with a write to do and every other room   *)
(* saved.                                                                  *)
LEMMA CommandSaved ==
    ASSUME Base, NEW q \in Room, Saved(q),
           NEW r \in Room, NEW i \in Image, NEW steps \in Seq(Step), Command(r, i, steps)
    PROVE  Saved(q)'
<1>1. CASE q = r
  <2>1. steps # <<>>
    <3>1. \/ steps = <<Save>>
          \/ \E p \in Player : steps \in {<<Clear(p), Save>>, <<Finish(p), Save>>}
      BY DEF Command
    <3> QED BY <3>1
  <2>2. pending'[r] = steps
    BY DEF Command, Handled, Base, TypeOK
  <2> QED BY <1>1, <2>1, <2>2 DEF Saved
<1>2. CASE q # r
  <2>1. room'[q] = room[q] /\ pending'[q] = pending[q]
    BY <1>2 DEF Command, Handled, Base, TypeOK
  <2> QED BY <2>1, SavedKept DEF Command, Handled, redis
<1>3. QED BY <1>1, <1>2

(* So do the start of a round and the stop of a room.                      *)
LEMMA StartSaved ==
    ASSUME Base, NEW q \in Room, Saved(q), NEW r \in Room, Start(r) \/ StartRefused(r) \/ Stop(r)
    PROVE  Saved(q)'
<1>1. CASE q = r
  <2>1. pending' = [pending EXCEPT ![r] = <<Save>>]
    BY DEF Start, StartRefused, Stop
  <2>2. pending'[r] = <<Save>>
    BY <2>1 DEF Base, TypeOK
  <2> QED BY <1>1, <2>2 DEF Saved, Save
<1>2. CASE q # r
  <2>1. room'[q] = room[q] /\ pending'[q] = pending[q]
    BY <1>2 DEF Start, StartRefused, Stop, Base, TypeOK
  <2> QED BY <2>1, SavedKept DEF Start, StartRefused, Stop, redis, history
<1>3. QED BY <1>1, <1>2

(* Clearing the key of a player in one room leaves every other room saved. *)
LEMMA WriteSaved ==
    ASSUME Base, NEW q \in Room, Saved(q), NEW r \in Room, ClearPlayerKey(r) \/ FinishMatch(r)
    PROVE  Saved(q)'
<1>1. /\ pending' = [pending EXCEPT ![r] = <<Save>>]
      /\ UNCHANGED <<room, snap, roomIndex, history>>
  BY WriteStep
<1>2. CASE q = r
  BY <1>1, <1>2 DEF Saved, Base, TypeOK, Save
<1>3. CASE q # r
  <2>1. pending'[q] = pending[q]
    BY <1>1, <1>3 DEF Base, TypeOK
  <2>2. \A p \in Player : playerKey[p] = q => playerKey'[p] = q
    <3>1. CASE UNCHANGED playerKey
      BY <3>1
    <3>2. ASSUME NEW w \in Player, playerKey' = [playerKey EXCEPT ![w] = IF @ = r THEN NoRoom ELSE @]
          PROVE  \A p \in Player : playerKey[p] = q => playerKey'[p] = q
      BY <1>3, <3>2 DEF Base, TypeOK
    <3> QED BY <3>1, <3>2, WriteStep
  <2>3. Active(room[q]) \subseteq Player
    BY DEF Base, TypeOK, Image, Active
  <2> QED BY <1>1, <2>1, <2>2, <2>3, SavedKept DEF history
<1>4. QED BY <1>2, <1>3

(* A save leaves its own room saved, and takes no key of a member of       *)
(* another.                                                                *)
LEMMA SaveSaved ==
    ASSUME Base, NEW q \in Room, Saved(q), NEW r \in Room, SyncSnapshot(r)
    PROVE  Saved(q)'
<1>1. CASE q = r
  <2>1. CASE room[r].phase \in {"waiting", "playing"} /\ SaveRoom(r, room[r])
    <3>1. snap'[r] = room[r] /\ r \in roomIndex' /\ room' = room
      BY <2>1, SaveStep DEF SaveRoom, Base, TypeOK
    <3>2. \A p \in Active(room[r]) : playerKey'[p] = r
      BY <2>1 DEF SaveRoom, Base, TypeOK, Image, Active
    <3> QED BY <1>1, <3>1, <3>2 DEF Saved, Active
  <2>2. CASE room[r].phase \in {"settled", "destroyed"}
    <3>1. room'[r].phase \in {"settled", "none"}
      BY <2>2, SaveStep, NoImageFacts DEF Base, TypeOK
    <3> QED BY <1>1, <3>1 DEF Saved
  <2>3. CASE copied' = [copied EXCEPT ![r] = FALSE]
    BY <1>1, <2>3 DEF Saved, Base
  <2> QED BY <2>1, <2>2, <2>3, SaveStep
<1>2. CASE q # r
  <2>1. /\ room'[q] = room[q] /\ pending'[q] = pending[q] /\ copied'[q] = copied[q]
        /\ conflicted' = conflicted
    <3>1. room'[q] = room[q] /\ pending'[q] = pending[q]
      <4>1. room \in [Room -> Image] /\ pending \in [Room -> Seq(Step)]
        BY DEF Base, TypeOK
      <4>2. \/ room' = room \/ room' = [room EXCEPT ![r] = NoImage]
        BY SaveStep
      <4>3. pending' = [pending EXCEPT ![r] = <<>>]
        BY SaveStep
      <4> HIDE DEF Base
      <4> QED BY <1>2, <4>1, <4>2, <4>3
    <3>2. \E b \in BOOLEAN : copied' = [copied EXCEPT ![r] = b]
      BY SaveStep
    <3>3. copied'[q] = copied[q]
      BY <1>2, <3>2 DEF Base
    <3> QED BY <3>1, <3>3, SaveStep
  <2>2. snap'[q] = snap[q] /\ (q \in roomIndex => q \in roomIndex')
    <3>1. snap' = snap \/ \E i \in {room[r], NoImage} : snap' = [snap EXCEPT ![r] = i]
      BY SaveStep DEF SaveRoom, DeleteRoom, redis
    <3>2. roomIndex' \in {roomIndex, roomIndex \cup {r}, roomIndex \ {r}}
      BY SaveStep DEF SaveRoom, DeleteRoom, redis
    <3>3. snap \in [Room -> Image]
      BY DEF Base, TypeOK
    <3> HIDE DEF Base
    <3> QED BY <1>2, <3>1, <3>2, <3>3
  <2>3. ASSUME NEW p \in Active(room[q]), room[q].phase # "destroyed", playerKey[p] = q
        PROVE  playerKey'[p] = q
    <3>1. p \in Player
      BY DEF Base, TypeOK, Image, Active
    <3>2. CASE UNCHANGED redis
      BY <2>3, <3>2 DEF redis
    <3>3. CASE DeleteRoom(r, room[r])
      BY <1>2, <2>3, <3>1, <3>3 DEF DeleteRoom
    <3>4. CASE SaveRoom(r, room[r]) /\ room[r].phase \in {"waiting", "playing"}
      <4>1. p \notin Active(room[r])
        BY <1>2, <2>3, <3>1, <3>4 DEF Base, OneSeat
      <4> QED BY <2>3, <3>1, <3>4, <4>1 DEF SaveRoom
    <3> QED BY <3>2, <3>3, <3>4, SaveStep
  <2> QED BY <2>1, <2>2, <2>3, SavedKept
<1>3. QED BY <1>1, <1>2

(* A snapshot that expires counts as not saved; the other rooms stay       *)
(* saved.                                                                  *)
LEMMA ExpireSaved ==
    ASSUME Base, NEW q \in Room, Saved(q), NEW r \in Room, Expire(r)
    PROVE  Saved(q)'
<1>1. CASE q = r
  BY <1>1 DEF Saved, Expire, Base
<1>2. CASE q # r
  <2>1. \A p \in Player : playerKey[p] = q => playerKey'[p] = q
    BY <1>2 DEF Expire
  <2>2. Active(room[q]) \subseteq Player
    BY DEF Base, TypeOK, Image, Active
  <2> QED BY <1>2, <2>1, <2>2, SavedKept DEF Expire, memory, Base, TypeOK
<1>3. QED BY <1>1, <1>2

(* The death of the process, its shutdown and its start keep what is       *)
(* saved.                                                                  *)
LEMMA ProcessSaved ==
    ASSUME Base, NEW q \in Room, Saved(q), Crash \/ Exit \/ ConnectionsClosed \/ LoadSnapshots \/ StartServing
    PROVE  Saved(q)'
<1>1. CASE Crash \/ Exit
  <2>1. room'[q].phase = "none"
    BY <1>1, NoImageFacts DEF Crash, Exit, MemoryLost
  <2> QED BY <2>1 DEF Saved
<1>2. CASE ConnectionsClosed \/ StartServing
  BY <1>2, SavedKept DEF ConnectionsClosed, StartServing, memory, redis, history
<1>3. CASE LoadSnapshots
  <2>1. room'[q].phase = "none"
    BY <1>3, NoImageFacts DEF LoadSnapshots, memory, Base, InMemory
  <2> QED BY <2>1 DEF Saved
<1>4. QED BY <1>1, <1>2, <1>3

(* A restored record has its save to do; one thrown away takes the keys of *)
(* no player but those of the conflict.                                    *)
LEMMA RestoreSaved ==
    ASSUME Base, NEW q \in Room, Saved(q), NEW r \in todo, Discarded(r) \/ Restored(r), copied' = copied
    PROVE  Saved(q)'
<1>0. r \in Room /\ room[r] = NoImage /\ snap[r] \in Image
  BY DEF Base, TypeOK, InMemory
<1>1. CASE Restored(r)
  <2>1. CASE q = r
    BY <1>1, <2>1 DEF Restored, Saved, Base, TypeOK, Save
  <2>2. CASE q # r
    BY <1>0, <1>1, <2>2, SavedKept DEF Restored, redis, Base, TypeOK
  <2> QED BY <2>1, <2>2
<1>2. CASE Discarded(r)
  <2>1. CASE q = r
    BY <1>0, <1>2, <2>1, NoImageFacts DEF Discarded, Saved
  <2>2. CASE q # r
    <3>1. \A p \in Player : p \notin Active(snap[r]) /\ playerKey[p] = q => playerKey'[p] = q
      BY <1>0, <1>2, <2>2 DEF Discarded
    <3>2. Active(room[q]) \subseteq Player
      BY DEF Base, TypeOK, Image, Active
    <3>3. /\ room' = room /\ pending' = pending /\ snap'[q] = snap[q] /\ (q \in roomIndex => q \in roomIndex')
          /\ conflicted' = conflicted \cup Active(snap[r])
      BY <1>0, <1>2, <2>2 DEF Discarded, Base, TypeOK
    <3> QED BY <3>1, <3>2, <3>3, SavedKept
  <2> QED BY <2>1, <2>2
<1>3. QED BY <1>1, <1>2

(* When a room has answered a command and its last save was not lost,      *)
(* Redis has the room as it is, lists it, and leads its members to it, for *)
(* every interleaving of the writes of the rooms.                          *)
THEOREM AnswersAreSaved == Spec => []AnsweredIsSaved
<1>1. AnsweredIsSaved <=> \A r \in Room : Saved(r)
  BY DEF AnsweredIsSaved, Saved
<1>2. Init => \A r \in Room : Saved(r)
  BY NoImageFacts DEF Init, Saved
<1>3. Base /\ (\A r \in Room : Saved(r)) /\ [Next]_vars => (\A r \in Room : Saved(r))'
  <2> SUFFICES ASSUME Base, \A r \in Room : Saved(r), [Next]_vars, NEW q \in Room PROVE Saved(q)'
    OBVIOUS
  <2>1. CASE UNCHANGED vars
    BY <2>1 DEF vars, memory, redis, history, Saved, Active
  <2>2. CASE ClientCommand
    BY <2>2, CommandFacts, CommandSaved
  <2>3. CASE RestoreRecord
    BY <2>3, RestoreStep, RestoreSaved
  <2>4. CASE StoreStep /\ ~RestoreRecord
    BY <2>4, StartSaved, WriteSaved, SaveSaved, ExpireSaved, ProcessSaved DEF StoreStep
  <2> QED BY <2>1, <2>2, <2>3, <2>4, NextCases
<1>4. Spec => [](\A r \in Room : Saved(r))
  BY <1>2, <1>3, BaseInvariant, PTL DEF Spec
<1>5. QED BY <1>1, <1>4, PTL

-----------------------------------------------------------------------------
(* A step that leaves the room and its snapshot alone and makes no key     *)
(* lead to it keeps its keys right.                                        *)
LEMMA KeysKept ==
    ASSUME NEW q \in Room, KeysOf(q), room'[q] = room[q], pending'[q] = pending[q],
           snap'[q] = snap[q], \A p \in Player : playerKey'[p] = q => playerKey[p] = q,
           proc' # "down" /\ q \notin todo' => proc # "down" /\ q \notin todo
    PROVE  KeysOf(q)'
BY DEF KeysOf, Active

(* While the count of failures is still zero after a step, no call has     *)
(* failed in it.                                                           *)
LEMMA NoFailure ==
    ASSUME TypeOK, failures' = 0
    PROVE  ~Fails /\ (UNCHANGED failures => failures = 0)
BY DEF TypeOK, Fails

(* The players of a room and of its snapshot are players, and no room is   *)
(* the absent one.                                                         *)
LEMMA RoomTypes ==
    ASSUME Base, NEW q \in Room
    PROVE  /\ room[q] \in Image /\ snap[q] \in Image /\ q # NoRoom
           /\ Active(room[q]) \subseteq Player /\ Active(snap[q]) \subseteq Player
           /\ Active(room[q]) \subseteq room[q].members /\ Active(snap[q]) \subseteq snap[q].members
BY PersistenceAssumption DEF Base, TypeOK, Image, Active, NoRoom

(* A command keeps the keys right.                                         *)
LEMMA CommandKeys ==
    ASSUME Base, NEW q \in Room, KeysOf(q),
           NEW r \in Room, NEW i \in Image, NEW steps \in Seq(Step), Command(r, i, steps)
    PROVE  KeysOf(q)'
<1>1. CASE q = r
  <2>1. steps # <<>> /\ i.phase # "none" /\ proc # "down" /\ r \notin todo /\ pending[r] = <<>>
    BY DEF Command, Save
  <2>2. pending'[r] = steps /\ room'[r] = i /\ UNCHANGED <<snap, playerKey>>
    BY DEF Command, Handled, Base, TypeOK, redis
  <2>3. ASSUME NEW p \in Player, playerKey[p] = r
        PROVE  p \in Active(snap[r]) /\ (p \in Active(i) \/ steps = <<Clear(p), Save>>)
    <3>1. p \in Active(snap[r])
      BY <1>1, <2>3 DEF KeysOf
    <3>2. room[r].phase # "none"
      BY <1>1, <2>1, <3>1, NoImageFacts DEF KeysOf
    <3>3. p \in Active(room[r])
      BY <1>1, <2>1, <2>3, <3>2, StepsDiffer DEF KeysOf
    <3> QED BY <3>1, <3>3 DEF Command
  <2> QED BY <1>1, <2>1, <2>2, <2>3 DEF KeysOf, Active
<1>2. CASE q # r
  <2>1. room'[q] = room[q] /\ pending'[q] = pending[q]
    BY <1>2 DEF Command, Handled, Base, TypeOK
  <2> QED BY <2>1, KeysKept DEF Command, Handled, redis
<1>3. QED BY <1>1, <1>2

(* The start of a round and the stop of a room keep the keys right.        *)
LEMMA StartKeys ==
    ASSUME Base, NEW q \in Room, KeysOf(q), NEW r \in Room, Start(r) \/ Stop(r)
    PROVE  KeysOf(q)'
<1>1. /\ Idle(r) /\ pending' = [pending EXCEPT ![r] = <<Save>>]
      /\ room' = room \/ room' = [room EXCEPT ![r] = InRound(r, lastMatch + 1)]
      /\ UNCHANGED <<proc, todo, snap, playerKey>>
  BY DEF Start, Stop, CanStart, redis
<1>2. CASE q = r
  <2>1. pending'[r] = <<Save>> /\ pending[r] = <<>> /\ room[r].phase # "none"
    BY <1>1 DEF Idle, Live, Base, TypeOK
  <2>2. pending'[r] # <<>>
    BY <2>1 DEF Save
  <2>3. room'[r] = room[r] \/ room'[r] = InRound(r, lastMatch + 1)
    BY <1>1 DEF Base, TypeOK
  <2>4. /\ room'[r].members = room[r].members /\ room'[r].gone = room[r].gone
        /\ room'[r].phase # "none"
    BY <2>1, <2>3, RoomTypes DEF InRound, Image
  <2>5. \A p \in Player : playerKey[p] = r => p \in Active(snap[r]) /\ p \in Active(room[r])
    BY <1>2, <2>1, StepsDiffer DEF KeysOf
  <2> QED BY <1>1, <1>2, <2>2, <2>4, <2>5 DEF KeysOf, Active
<1>3. CASE q # r
  <2>1. room'[q] = room[q] /\ pending'[q] = pending[q]
    BY <1>1, <1>3 DEF Base, TypeOK
  <2> QED BY <1>1, <2>1, KeysKept
<1>4. QED BY <1>2, <1>3

(* Clearing a key that leads to the room, and entering a result, keep the  *)
(* keys right.                                                             *)
LEMMA WriteKeys ==
    ASSUME Base, NEW q \in Room, KeysOf(q), NEW r \in Room, ClearPlayerKey(r) \/ FinishMatch(r), ~Fails
    PROVE  KeysOf(q)'
<1>1. /\ pending' = [pending EXCEPT ![r] = <<Save>>] /\ pending[r] # <<>>
      /\ UNCHANGED <<proc, todo, room, snap>>
  BY WriteStep
<1>2. PICK w \in Player :
        \/ /\ pending[r] = <<Clear(w), Save>>
           /\ playerKey' = [playerKey EXCEPT ![w] = IF @ = r THEN NoRoom ELSE @]
        \/ pending[r] = <<Finish(w), Save>> /\ UNCHANGED playerKey
  BY WriteStep
<1>3. \A p \in Player, s \in Room : playerKey'[p] = s => playerKey[p] = s
  BY <1>2, RoomTypes DEF Base, TypeOK
<1>4. CASE q = r
  <2>1. pending'[r] # <<>>
    BY <1>1 DEF Base, TypeOK, Save
  <2>2. \A p \in Player : playerKey'[p] = r => pending[r] # <<Clear(p), Save>>
    BY <1>2, RoomTypes, StepsDiffer DEF Base, TypeOK
  <2> QED BY <1>1, <1>3, <1>4, <2>1, <2>2 DEF KeysOf, Active
<1>5. CASE q # r
  <2>1. pending'[q] = pending[q]
    BY <1>1, <1>5 DEF Base, TypeOK
  <2> QED BY <1>1, <1>3, <2>1, KeysKept
<1>6. QED BY <1>4, <1>5

(* A save keeps the keys right.                                            *)
LEMMA SaveKeys ==
    ASSUME Base, NEW q \in Room, KeysOf(q), NEW r \in Room, SyncSnapshot(r), ~Fails
    PROVE  KeysOf(q)'
<1>1. /\ pending[r] = <<Save>> /\ room[r].phase # "none" /\ UNCHANGED <<proc, todo>>
      /\ pending' = [pending EXCEPT ![r] = <<>>]
      /\ room' = IF room[r].phase = "destroyed" THEN [room EXCEPT ![r] = NoImage] ELSE room
      /\ \/ room[r].phase \in {"waiting", "playing"} /\ SaveRoom(r, room[r])
         \/ room[r].phase \in {"settled", "destroyed"} /\ DeleteRoom(r, room[r])
  BY SaveStep
<1>2. CASE q = r
  <2>1. \A p \in Player : playerKey[p] = r => p \in Active(room[r])
    BY <1>1, <1>2, StepsDiffer DEF KeysOf
  <2>2. CASE room[r].phase \in {"waiting", "playing"} /\ SaveRoom(r, room[r])
    <3>1. room' = room /\ snap'[r] = room[r]
      BY <1>1, <2>2 DEF SaveRoom, Base, TypeOK
    <3>2. \A p \in Player : playerKey'[p] = r => p \in Active(room[r])
      BY <2>1, <2>2 DEF SaveRoom
    <3> QED BY <1>2, <2>2, <3>1, <3>2 DEF KeysOf, Active
  <2>3. CASE DeleteRoom(r, room[r])
    <3>1. snap'[r] = NoImage
      BY <2>3 DEF DeleteRoom, Base, TypeOK
    <3>2. \A p \in Player : playerKey'[p] # r
      BY <2>1, <2>3, RoomTypes DEF DeleteRoom
    <3> QED BY <1>2, <3>1, <3>2 DEF KeysOf
  <2> QED BY <1>1, <2>2, <2>3
<1>3. CASE q # r
  <2>1. room'[q] = room[q] /\ pending'[q] = pending[q]
    BY <1>1, <1>3 DEF Base, TypeOK
  <2>2. snap'[q] = snap[q]
    BY <1>1, <1>3 DEF Base, TypeOK, SaveRoom, DeleteRoom
  <2>3. \A p \in Player : playerKey'[p] = q => playerKey[p] = q
    BY <1>1, <1>3, RoomTypes DEF SaveRoom, DeleteRoom
  <2> QED BY <1>1, <2>1, <2>2, <2>3, KeysKept
<1>4. QED BY <1>2, <1>3

(* A snapshot that expires takes its keys along.                           *)
LEMMA ExpireKeys ==
    ASSUME Base, NEW q \in Room, KeysOf(q), NEW r \in Room, Expire(r)
    PROVE  KeysOf(q)'
<1>1. \A p \in Player : playerKey'[p] # r /\ (playerKey'[p] = q => playerKey[p] = q)
  BY RoomTypes DEF Expire
<1>2. CASE q = r
  <2>1. snap'[r] = NoImage
    BY DEF Expire, Base, TypeOK
  <2> QED BY <1>1, <1>2, <2>1 DEF KeysOf
<1>3. CASE q # r
  <2>1. snap'[q] = snap[q] /\ UNCHANGED <<proc, todo, room, pending>>
    BY <1>3 DEF Expire, memory, Base, TypeOK
  <2> QED BY <1>1, <2>1, KeysKept
<1>4. QED BY <1>2, <1>3

(* The death of the process, its shutdown and its start keep the keys      *)
(* right.                                                                  *)
LEMMA ProcessKeys ==
    ASSUME Base, NEW q \in Room, KeysOf(q),
           Crash \/ Exit \/ ConnectionsClosed \/ LoadSnapshots \/ StartServing
    PROVE  KeysOf(q)'
<1>1. CASE Crash \/ Exit
  <2>1. room'[q] = NoImage /\ proc' = "down" /\ UNCHANGED <<snap, playerKey>>
    BY <1>1, NoImageFacts DEF Crash, Exit, MemoryLost, redis
  <2> QED BY <2>1, NoImageFacts DEF KeysOf, Active
<1>2. CASE ConnectionsClosed \/ StartServing
  <2>1. proc # "down" /\ UNCHANGED <<todo, room, pending, snap, playerKey>>
    BY <1>2 DEF ConnectionsClosed, StartServing, memory, redis
  <2> QED BY <2>1, KeysKept
<1>3. CASE LoadSnapshots
  <2>1. room'[q].phase = "none" /\ UNCHANGED <<snap, playerKey>>
    BY <1>3, NoImageFacts DEF LoadSnapshots, memory, Base, InMemory
  <2>2. q \notin todo' => snap[q] = NoImage
    BY <1>3 DEF LoadSnapshots, Base, TypeOK
  <2> QED BY <2>1, <2>2 DEF KeysOf, Active
<1>4. QED BY <1>1, <1>2, <1>3

(* A restored record keeps the keys right; one thrown away leaves no key   *)
(* to its room.                                                            *)
LEMMA RestoreKeys ==
    ASSUME Base, NEW q \in Room, KeysOf(q), NEW r \in todo, todo' = todo \ {r}, proc' = proc,
           Discarded(r) \/ Restored(r), ~Fails
    PROVE  KeysOf(q)'
<1>0. r \in Room /\ room[r] = NoImage /\ snap[r] \in Image /\ snap[r] # NoImage
  BY DEF Base, TypeOK, InMemory
<1>1. CASE Restored(r)
  <2>1. CASE q = r
    <3>1. room'[r] = snap[r] /\ UNCHANGED <<snap, playerKey>>
      BY <1>0, <1>1 DEF Restored, Base, TypeOK, redis
    <3>2. snap[r].phase \in {"waiting", "playing"}
      BY <1>0 DEF Base, TypeOK, InMemory
    <3> QED BY <2>1, <3>1, <3>2 DEF KeysOf, Active
  <2>2. CASE q # r
    <3>1. room'[q] = room[q] /\ pending'[q] = pending[q] /\ UNCHANGED <<snap, playerKey>>
      BY <1>1, <2>2 DEF Restored, redis, Base, TypeOK
    <3> QED BY <2>2, <3>1, KeysKept
  <2> QED BY <2>1, <2>2
<1>2. CASE Discarded(r)
  <2>1. /\ snap' = [snap EXCEPT ![r] = NoImage] /\ UNCHANGED <<room, pending>>
        /\ playerKey' = [p \in Player |->
              IF /\ p \in snap[r].members
                 /\ (IF p \in Active(snap[r]) THEN r ELSE playerKey[p]) = r
              THEN NoRoom ELSE IF p \in Active(snap[r]) THEN r ELSE playerKey[p]]
    <3>1. PICK saved, deleted \in BOOLEAN :
            LET key == IF saved
                       THEN [p \in Player |-> IF p \in Active(snap[r]) THEN r ELSE playerKey[p]]
                       ELSE playerKey
            IN  /\ IF saved /\ deleted THEN UNCHANGED failures ELSE Fails
                /\ playerKey' = IF deleted
                                THEN [p \in Player |-> IF p \in snap[r].members /\ key[p] = r
                                                       THEN NoRoom ELSE key[p]]
                                ELSE key
                /\ snap' = IF deleted THEN [snap EXCEPT ![r] = NoImage] ELSE snap
      BY <1>2 DEF Discarded
    <3>2. saved /\ deleted
      BY <3>1
    <3> QED BY <1>2, <3>1, <3>2 DEF Discarded
  <2>2. CASE q = r
    <3>1. \A p \in Player : playerKey'[p] # r
      BY <1>0, <2>1, <2>2, RoomTypes DEF KeysOf
    <3>2. snap'[r] = NoImage
      BY <2>1 DEF Base, TypeOK
    <3> QED BY <1>0, <2>1, <2>2, <3>1, <3>2, NoImageFacts DEF KeysOf
  <2>3. CASE q # r
    <3>1. \A p \in Player : playerKey'[p] = q => playerKey[p] = q
      BY <2>1, <2>3, RoomTypes
    <3>2. snap'[q] = snap[q]
      BY <2>1, <2>3 DEF Base, TypeOK
    <3> QED BY <2>1, <2>3, <3>1, <3>2, KeysKept
  <2> QED BY <2>2, <2>3
<1>3. QED BY <1>1, <1>2

(* The invariant about the keys holds in every state.                      *)
THEOREM KeysInvariant == Spec => []KeysLead
<1>1. Init => KeysLead
  BY NoImageFacts, PersistenceAssumption DEF Init, KeysLead, KeysOf, NoRoom
<1>2. Base /\ KeysLead /\ [Next]_vars => KeysLead'
  <2> SUFFICES ASSUME Base, KeysLead, [Next]_vars, failures' = 0, NEW q \in Room PROVE KeysOf(q)'
    BY DEF KeysLead
  <2>0. ~Fails /\ (UNCHANGED failures => KeysOf(q))
    BY NoFailure DEF Base, KeysLead
  <2>1. CASE UNCHANGED vars
    BY <2>0, <2>1 DEF vars, memory, redis, ids, KeysOf, Active
  <2>2. CASE ClientCommand
    <3> PICK r \in Room, i \in Image, steps \in Seq(Step) : Command(r, i, steps)
      BY <2>2, CommandFacts
    <3>1. UNCHANGED failures
      BY DEF Command, Handled
    <3> QED BY <2>0, <3>1, CommandKeys
  <2>3. CASE RestoreRecord
    <3> PICK r \in todo :
          /\ todo' = todo \ {r} /\ UNCHANGED proc /\ (Discarded(r) \/ Restored(r))
      BY <2>3, RestoreStep
    <3>1. UNCHANGED failures
      BY <2>0 DEF Discarded, Restored
    <3> QED BY <2>0, <3>1, RestoreKeys
  <2>4. ASSUME NEW r \in Room, Start(r) \/ Stop(r) PROVE KeysOf(q)'
    <3>1. UNCHANGED failures
      BY <2>4 DEF Start, Stop, ids
    <3> QED BY <2>0, <2>4, <3>1, StartKeys
  <2>5. ASSUME NEW r \in Room, ClearPlayerKey(r) \/ FinishMatch(r) PROVE KeysOf(q)'
    <3>1. UNCHANGED failures
      BY <2>0, <2>5, WriteStep
    <3> QED BY <2>0, <2>5, <3>1, WriteKeys
  <2>6. ASSUME NEW r \in Room, SyncSnapshot(r) PROVE KeysOf(q)'
    <3>1. UNCHANGED failures
      BY <2>0, <2>6, SaveStep
    <3> QED BY <2>0, <2>6, <3>1, SaveKeys
  <2>7. ASSUME NEW r \in Room, Expire(r) PROVE KeysOf(q)'
    BY <2>0, <2>7, ExpireKeys DEF Expire, ids
  <2>8. CASE Crash \/ Exit \/ ConnectionsClosed \/ LoadSnapshots \/ StartServing
    <3>1. UNCHANGED failures
      BY <2>8 DEF Crash, Exit, MemoryLost, ConnectionsClosed, LoadSnapshots, StartServing, ids
    <3> QED BY <2>0, <2>8, <3>1, ProcessKeys
  <2> QED BY <2>0, <2>1, <2>2, <2>3, <2>4, <2>5, <2>6, <2>7, <2>8, NextCases DEF StoreStep, StartRefused
<1>3. QED BY <1>1, <1>2, BaseInvariant, PTL DEF Spec

(* Without lost writes a room that is over and has written so has no       *)
(* snapshot that could bring it back, and no key leads to it.              *)
THEOREM OverRoomsAreForgotten == Spec => []OverIsForgotten
<1>1. Base /\ KeysLead => OverIsForgotten
  <2> SUFFICES ASSUME Base, KeysLead, NEW r \in Room, failures = 0, proc \in {"up", "stopping"},
                      room[r].phase \in {"none", "settled"}, pending[r] = <<>>
               PROVE  snap[r] = NoImage /\ \A p \in Player : playerKey[p] # r
    BY DEF OverIsForgotten
  <2>1. KeysOf(r) /\ todo = {}
    BY DEF KeysLead, Base, InMemory
  <2>2. snap[r] = NoImage
    BY <2>1 DEF KeysOf
  <2> QED BY <2>1, <2>2, NoImageFacts DEF KeysOf
<1>2. QED BY <1>1, BaseInvariant, KeysInvariant, PTL

-----------------------------------------------------------------------------
(* When the process dies at rest without a lost write, Redis has what is   *)
(* promised.                                                               *)
LEMMA PromiseMade ==
    ASSUME Base, KeysLead, AnsweredIsSaved, Crash \/ Exit
    PROVE  Promise'
<1>1. proc' = "down" /\ UNCHANGED snap
      /\ promised' = IF AtRest /\ failures = 0 /\ proc # "restoring" THEN room ELSE NoImages
  BY DEF Crash, Exit, MemoryLost, redis
<1>2. CASE promised' = NoImages
  BY <1>2, NoImageFacts DEF Promise, Stays
<1>3. CASE promised' = room /\ AtRest /\ failures = 0 /\ proc # "restoring"
  <2>1. proc # "down" /\ todo = {}
    BY <1>3 DEF Crash, Exit, Base, InMemory
  <2>2. \A r \in Room : pending[r] = <<>> /\ room[r].phase # "destroyed"
    BY <1>3 DEF AtRest, Base, InMemory
  <2>3. ASSUME NEW r \in Room
        PROVE  room[r].phase \in {"waiting", "playing"} \/ snap[r] # NoImage => snap[r] = room[r]
    <3>1. CASE room[r].phase \in {"waiting", "playing"}
      BY <1>3, <3>1 DEF AtRest, AnsweredIsSaved
    <3>2. CASE room[r].phase \in {"none", "settled"}
      BY <1>3, <2>1, <2>2, <3>2 DEF KeysLead, KeysOf
    <3> QED BY <2>2, <3>1, <3>2, RoomTypes DEF Image
  <2>4. \A q, r \in Room : q # r => Active(room[q]) \cap Active(room[r]) = {}
    BY <2>2, RoomTypes DEF Base, OneSeat
  <2> QED BY <1>1, <1>3, <2>3, <2>4 DEF Promise, Stays, Active
<1>4. QED BY <1>1, <1>2, <1>3

(* A restored record keeps the promise of the others.                      *)
LEMMA PromiseOfRestore ==
    ASSUME Base, Promise, NEW r \in todo, todo' = todo \ {r}, proc = "restoring",
           UNCHANGED <<proc, promised>>, Discarded(r) \/ Restored(r)
    PROVE  Promise'
<1> SUFFICES ASSUME NEW s \in Room, Stays(s) PROVE Promise'
  BY DEF Promise, Stays
<1>0. r \in Room /\ room[r] = NoImage /\ snap[r] # NoImage
  BY DEF Base, TypeOK, InMemory
<1>1. snap[r] = promised[r]
  BY <1>0 DEF Promise
<1>2. \A q \in Room : q # r => snap'[q] = snap[q] /\ room'[q] = room[q]
  BY <1>0 DEF Discarded, Restored, redis, Base, TypeOK
<1>3. room'[r] \in {NoImage, snap[r]}
  BY <1>0 DEF Discarded, Restored, Base, TypeOK
<1>4. Active(room'[r]) \subseteq Active(promised[r])
  BY <1>1, <1>3, NoImageFacts
<1>5. \A q \in Room : q # r => Active(room'[q]) = Active(room[q])
  BY <1>2
<1>6. \A q \in Room : q \notin todo' => Active(room'[q]) \subseteq Active(promised[q])
  BY <1>4, <1>5 DEF Promise
<1>7. \A q \in Room : q \in todo' /\ (Stays(q) \/ snap'[q] # NoImage) => snap'[q] = promised[q]
  BY <1>2 DEF Promise
<1>8. QED
  BY <1>6, <1>7 DEF Promise, Stays, Active

(* A save in the middle of a restore touches no record still to do.        *)
LEMMA PromiseOfSave ==
    ASSUME Base, Promise, NEW r \in Room, SyncSnapshot(r)
    PROVE  Promise'
<1> SUFFICES ASSUME NEW s \in Room, Stays(s) PROVE Promise'
  BY SaveStep DEF Promise, Stays
<1>1. proc = "restoring" /\ r \notin todo /\ UNCHANGED <<proc, todo, promised>>
  BY SaveStep DEF Promise
<1>2. \A q \in todo : snap'[q] = snap[q]
  BY <1>1, SaveStep DEF SaveRoom, DeleteRoom, redis, Base, TypeOK
<1>3. \A q \in Room : Active(room'[q]) \subseteq Active(room[q])
  <2>1. \A q \in Room : room'[q] \in {room[q], NoImage}
    <3>1. room' = room \/ room' = [room EXCEPT ![r] = NoImage]
      BY SaveStep
    <3>2. room \in [Room -> Image]
      BY DEF Base, TypeOK
    <3> QED BY <3>1, <3>2
  <2> QED BY <2>1, NoImageFacts
<1>4. QED
  BY <1>1, <1>2, <1>3 DEF Promise, Stays, Active

(* A command in the middle of a restore brings no player in.               *)
LEMMA PromiseOfCommand ==
    ASSUME Base, Promise, NEW r \in Room, NEW i \in Image, NEW steps \in Seq(Step), Command(r, i, steps)
    PROVE  Promise'
<1> SUFFICES ASSUME NEW s \in Room, Stays(s) PROVE Promise'
  BY DEF Promise, Stays, Command, Handled
<1>1. proc = "restoring" /\ UNCHANGED <<proc, todo, promised, snap>> /\ room' = [room EXCEPT ![r] = i]
  BY DEF Promise, Command, Handled, redis
<1>2. Active(i) \subseteq Active(room[r])
  <2>1. Active(i) \subseteq Player
    BY DEF Image, Active
  <2> QED BY <1>1, <2>1 DEF Command
<1>3. \A q \in Room : Active(room'[q]) \subseteq Active(room[q])
  BY <1>1, <1>2 DEF Base, TypeOK
<1>4. QED
  BY <1>1, <1>3 DEF Promise, Stays, Active

(* A snapshot that expires is no longer promised.                          *)
LEMMA PromiseOfExpire ==
    ASSUME Base, Promise, NEW r \in Room, Expire(r)
    PROVE  Promise'
<1>1. /\ promised' = [promised EXCEPT ![r] = NoImage] /\ snap' = [snap EXCEPT ![r] = NoImage]
      /\ UNCHANGED <<proc, todo, room>> /\ proc # "restoring"
  BY DEF Expire, memory
<1>2. promised'[r] = NoImage /\ snap'[r] = NoImage
  BY <1>1 DEF Base, TypeOK
<1>3. \A q \in Room : q # r => promised'[q] = promised[q] /\ snap'[q] = snap[q]
  BY <1>1 DEF Base, TypeOK
<1>4. \A q \in Room : Stays(q)' => Stays(q) /\ q # r
  BY <1>2, <1>3, NoImageFacts DEF Stays
<1>5. \A q \in Room : Active(promised'[q]) \subseteq Active(promised[q])
  <2>1. \A q \in Room : promised'[q] \in {promised[q], NoImage}
    BY <1>2, <1>3
  <2> QED BY <2>1, NoImageFacts
<1>6. SUFFICES ASSUME NEW s \in Room, Stays(s) PROVE Promise'
  BY <1>4 DEF Promise
<1>7. \A q, t \in Room : q # t => Active(promised'[q]) \cap Active(promised'[t]) = {}
  BY <1>5, <1>6 DEF Promise
<1>8. \A q \in Room : (proc = "down" \/ q \in todo) /\ (Stays(q)' \/ snap'[q] # NoImage) =>
         snap'[q] = promised'[q]
  BY <1>2, <1>3, <1>4, <1>6 DEF Promise
<1>9. QED
  BY <1>1, <1>6, <1>7, <1>8 DEF Promise, Active

(* Loading the snapshots takes up every promised room.                     *)
LEMMA PromiseOfLoad ==
    ASSUME Base, Promise, LoadSnapshots
    PROVE  Promise'
<1>1. /\ proc = "down" /\ proc' = "restoring" /\ UNCHANGED <<snap, room, promised>>
      /\ \A r \in Room : Active(room[r]) = {}
  BY NoImageFacts DEF LoadSnapshots, memory, history, Base, InMemory
<1>2. QED
  BY <1>1 DEF Promise, Stays, Active

(* The promise of a restart holds in every state.                          *)
THEOREM PromiseInvariant == Spec => []Promise
<1>1. Init => Promise
  BY NoImageFacts DEF Init, Promise, Stays
<1>2. Base /\ KeysLead /\ AnsweredIsSaved /\ Promise /\ [Next]_vars => Promise'
  <2> SUFFICES ASSUME Base, KeysLead, AnsweredIsSaved, Promise, [Next]_vars PROVE Promise'
    OBVIOUS
  <2>1. CASE UNCHANGED <<proc, todo, room, snap, promised>>
    BY <2>1 DEF Promise, Stays, Active
  <2>2. UNCHANGED vars => UNCHANGED <<proc, todo, room, snap, promised>>
    BY DEF vars, memory, redis, history
  <2>3. CASE ClientCommand
    BY <2>3, CommandFacts, PromiseOfCommand
  <2>4. ASSUME NEW r \in Room, ClearPlayerKey(r) \/ FinishMatch(r)
        PROVE  UNCHANGED <<proc, todo, room, snap, promised>>
    BY <2>4, WriteStep DEF history
  <2>5. ASSUME NEW r \in Room, Start(r) \/ StartRefused(r) \/ Stop(r)
        PROVE  Promise'
    <3>1. ~(\E q \in Room : Stays(q)) /\ UNCHANGED promised
      BY <2>5 DEF Start, StartRefused, Stop, CanStart, Serving, history, Promise
    <3> QED BY <3>1 DEF Promise, Stays
  <2>6. CASE RestoreRecord
    BY <2>6, RestoreStep, PromiseOfRestore
  <2>7. CASE ConnectionsClosed \/ StartServing
    <3>1. ~(\E q \in Room : Stays(q)')
      BY <2>7, NoImageFacts DEF ConnectionsClosed, StartServing, history, Promise, Stays
    <3> QED BY <3>1 DEF Promise
  <2> QED BY <2>1, <2>2, <2>3, <2>4, <2>5, <2>6, <2>7, PromiseMade, PromiseOfSave, PromiseOfExpire,
             PromiseOfLoad, NextCases DEF StoreStep
<1>3. QED BY <1>1, <1>2, BaseInvariant, KeysInvariant, AnswersAreSaved, PTL DEF Spec

(* A process that died between commands, killed or shut down, loses no     *)
(* room: the next one loads each, and restores it as it was.               *)
THEOREM RestartsBringRoomsBack == Spec => RestartBringsRoomsBack
<1> DEFINE BroughtBack ==
      \A r \in Room : promised[r].phase \in {"waiting", "playing"} =>
          /\ LoadSnapshots => r \in todo'
          /\ r \in todo \ todo' /\ proc' = "restoring" => room'[r] = promised[r]
<1>1. Base /\ Promise /\ [Next]_vars => BroughtBack
  <2> SUFFICES ASSUME Base, Promise, [Next]_vars, NEW r \in Room, Stays(r)
               PROVE  /\ LoadSnapshots => r \in todo'
                      /\ r \in todo \ todo' /\ proc' = "restoring" => room'[r] = promised[r]
    BY DEF Stays
  <2>1. ASSUME LoadSnapshots PROVE r \in todo'
    <3>1. snap[r] = promised[r]
      BY <2>1 DEF Promise, LoadSnapshots
    <3>2. snap[r] # NoImage
      BY <3>1, NoImageFacts DEF Stays
    <3> QED BY <2>1, <3>2 DEF LoadSnapshots, Base, TypeOK
  <2>2. ASSUME r \in todo, r \notin todo', proc' = "restoring" PROVE room'[r] = promised[r]
    <3>1. RestoreRecord
      <4>1. UNCHANGED vars \/ ClientCommand => todo' = todo
        BY CommandFacts DEF vars, Command, Handled
      <4>2. ASSUME NEW q \in Room, Start(q) \/ StartRefused(q) \/ ClearPlayerKey(q) \/ FinishMatch(q)
                                   \/ SyncSnapshot(q) \/ Expire(q) \/ Stop(q)
            PROVE  todo' = todo
        BY <4>2, WriteStep, SaveStep DEF Start, StartRefused, Expire, Stop
      <4>3. ~(Crash \/ Exit)
        BY <2>2 DEF Crash, Exit, MemoryLost
      <4>4. ~LoadSnapshots
        BY <2>2 DEF LoadSnapshots, Base, InMemory
      <4>5. ConnectionsClosed \/ StartServing => todo' = todo
        BY DEF ConnectionsClosed, StartServing
      <4> QED BY <2>2, <4>1, <4>2, <4>3, <4>4, <4>5, NextCases DEF StoreStep
    <3>2. /\ proc = "restoring"
          /\ IF \E p \in Active(snap[r]) : Seated(p) THEN Discarded(r) ELSE Restored(r)
      BY <2>2, <3>1, RestoreStep
    <3>3. snap[r] = promised[r] /\ room[r] = NoImage
      BY <2>2 DEF Promise, Base, InMemory
    <3>4. ASSUME NEW p \in Active(snap[r]), Seated(p) PROVE FALSE
      <4>1. PICK q \in Room : room[q].phase # "none" /\ p \in Active(room[q])
        BY <3>4 DEF Seated
      <4>2. q # r /\ q \notin todo
        BY <3>3, <4>1, NoImageFacts DEF Base, InMemory
      <4>3. p \in Active(promised[q])
        BY <3>2, <4>1, <4>2 DEF Promise
      <4> QED BY <3>3, <4>2, <4>3 DEF Promise
    <3>5. Restored(r)
      BY <3>2, <3>4
    <3> QED BY <3>3, <3>5 DEF Restored, Base, TypeOK
  <2> QED BY <2>1, <2>2
<1>2. Spec => [][BroughtBack]_vars
  BY <1>1, BaseInvariant, PromiseInvariant, PTL DEF Spec
<1>3. QED
  BY <1>2 DEF RestartBringsRoomsBack
==============================================================================
