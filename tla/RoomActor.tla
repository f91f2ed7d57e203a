------------------------------ MODULE RoomActor ------------------------------
(***************************************************************************)
(* One room (src/internal/room): a mailbox, the goroutine that serves it   *)
(* and is the only writer of the room, and two timers that post events to  *)
(* the mailbox: the turn timer and the empty-room timer.                   *)
(*                                                                         *)
(* A timer carries the token it was armed with, and cancelling it bumps    *)
(* the token of the room.  Tokens only grow, so an event is told apart by  *)
(* whether its token still is the current one: its flag `live`.            *)
(*                                                                         *)
(* Connected and Session of a member are always set and cleared together;  *)
(* both are `session`.  Of the rules engine only the player whose decision *)
(* is due and the end of the round matter here (UnoEngine has the rest).   *)
(***************************************************************************)
EXTENDS Integers, Sequences, FiniteSets, SequencesExt

CONSTANTS
    Player, Session,
    PlayerOf,      \* the player a connection authenticated as
    NoPlayer, NoSession,
    MaxPlayers,
    StrikeLimit,   \* time-outs in a row before a player is managed
    MailboxSize,
    MaxRequests    \* bound on the requests of clients in the mailbox

ASSUME RoomAssumption ==
    /\ PlayerOf \in [Session -> Player]
    /\ NoPlayer \notin Player /\ NoSession \notin Session
    /\ {MaxPlayers, StrikeLimit, MailboxSize, MaxRequests} \subseteq Nat \ {0}
    /\ MaxPlayers >= 2

MinPlayers == 2

VARIABLES
    members,     \* players in the order of their seats
    owner,
    phase,       \* "waiting", "playing" or "settled"
    turnOf,      \* whose decision is due, NoPlayer when no round is on
    session,     \* the connection bound to each seat
    ready, autoPlay, abandoned,   \* sets of members
    strikes,
    turnTimer,   \* "off", or the kind of event it will post
    emptyTimer,  \* "off", "running", or "fired" (it is not armed again then)
    mailbox,
    closing,     \* submit refuses every command
    loop         \* "running", "draining" or "ended"

seats  == <<members, owner, session, ready, autoPlay, abandoned, strikes>>
game   == <<phase, turnOf>>
timers == <<turnTimer, emptyTimer>>
vars   == <<seats, game, timers, mailbox, closing, loop>>

Requests   == {"join", "reconnect", "disconnect", "ready", "start", "leave", "kick", "act"}
TurnEvents == {"turn_timeout", "auto_play"}
EmptyEvent == {"empty_timeout"}
Control    == {"snapshot", "stop"}
Command    == [kind : Requests \cup TurnEvents \cup EmptyEvent \cup Control,
               from : Session \cup {NoSession}, live : BOOLEAN]

Members == ToSet(members)
Bound(s) == PlayerOf[s] \in Members /\ session[PlayerOf[s]] = s
HasConnected == \E p \in Members : session[p] # NoSession
Managed(p) == p \in autoPlay \/ session[p] = NoSession

-----------------------------------------------------------------------------
(* The mailbox.  submit decides under a lock that beginDestroy takes too.  *)

Accepts_AfterClosing == Len(mailbox) < MailboxSize
Accepts == ~closing /\ Len(mailbox) < MailboxSize

Post(kind, s) == mailbox' = Append(mailbox, [kind |-> kind, from |-> s, live |-> TRUE])

Queued(kinds) == {i \in DOMAIN mailbox : mailbox[i].kind \in kinds}

Request(s, kind) ==
    /\ Accepts
    /\ Cardinality(Queued(Requests)) < MaxRequests
    /\ Post(kind, s)
    /\ UNCHANGED <<seats, game, timers, closing, loop>>

Shutdown ==
    /\ Accepts
    /\ Post("stop", NoSession)
    /\ closing' = TRUE
    /\ UNCHANGED <<seats, game, timers, loop>>

\* An event that submit refuses is lost: the timer does not try again.
PostOrLose(kind) == IF Accepts THEN Post(kind, NoSession) ELSE UNCHANGED mailbox

TurnTimerFires ==
    /\ turnTimer # "off"
    /\ PostOrLose(turnTimer)
    /\ turnTimer' = "off"
    /\ UNCHANGED <<seats, game, emptyTimer, closing, loop>>

EmptyTimerFires ==
    /\ emptyTimer = "running"
    /\ PostOrLose("empty_timeout")
    /\ emptyTimer' = "fired"
    /\ UNCHANGED <<seats, game, turnTimer, closing, loop>>

-----------------------------------------------------------------------------
(* Serving a command.  Cancelling a timer outdates its queued events.      *)

Serve_TokenKept(outdated) == mailbox' = Tail(mailbox)
Serve(outdated) ==
    mailbox' = [i \in 1 .. Len(mailbox) - 1 |->
                  [mailbox[i + 1] EXCEPT !.live = @ /\ mailbox[i + 1].kind \notin outdated]]

Current(kind) ==
    loop = "running" /\ mailbox # <<>> /\ Head(mailbox).kind = kind /\ Head(mailbox).live

From(kind, s) == Current(kind) /\ Head(mailbox).from = s

\* scheduleTurnTimer, in the state the handler leaves behind.
ScheduleTurn ==
    turnTimer' = IF phase' # "playing" THEN "off"
                 ELSE IF Managed(turnOf)' THEN "auto_play" ELSE "turn_timeout"

\* What a handler does about the turn of a player whose connection changed.
RescheduleIfDue(p, outdated) ==
    IF phase = "playing" /\ p = turnOf
    THEN ScheduleTurn /\ Serve(TurnEvents \cup outdated)
    ELSE UNCHANGED turnTimer /\ Serve(outdated)

ScheduleEmpty_BeforeUnbind ==
    emptyTimer' = IF emptyTimer = "off" /\ ~HasConnected THEN "running" ELSE emptyTimer
ScheduleEmpty ==
    emptyTimer' = IF emptyTimer = "off" /\ ~HasConnected' THEN "running" ELSE emptyTimer

BeginDestroy ==
    /\ closing' = TRUE /\ loop' = "draining"
    /\ turnTimer' = "off" /\ emptyTimer' = "off"
    /\ Serve(TurnEvents \cup EmptyEvent)

SeatOf(p) == CHOOSE i \in DOMAIN members : members[i] = p

RemoveMember_KeepsOwner(p) ==
    LET rest == RemoveAt(members, SeatOf(p))
    IN  /\ members' = rest
        /\ session' = [session EXCEPT ![p] = NoSession]
        /\ strikes' = [strikes EXCEPT ![p] = 0]
        /\ autoPlay' = autoPlay \ {p} /\ abandoned' = abandoned \ {p}
        /\ ready' = ready \ {p}
        /\ UNCHANGED <<owner, game>>
        /\ IF rest = <<>> THEN BeginDestroy
           ELSE ScheduleEmpty /\ Serve({}) /\ UNCHANGED <<turnTimer, closing, loop>>
RemoveMember(p) ==
    LET rest == RemoveAt(members, SeatOf(p))
        heir == IF p = owner /\ rest # <<>> THEN rest[1] ELSE owner
    IN  /\ members' = rest
        /\ session' = [session EXCEPT ![p] = NoSession]
        /\ strikes' = [strikes EXCEPT ![p] = 0]
        /\ autoPlay' = autoPlay \ {p} /\ abandoned' = abandoned \ {p}
        /\ owner' = heir
        /\ ready' = IF heir # owner THEN (ready \ {p}) \cup {heir} ELSE ready \ {p}
        /\ UNCHANGED game
        /\ IF rest = <<>> THEN BeginDestroy
           ELSE /\ ScheduleEmpty
                /\ Serve({})
                /\ UNCHANGED <<turnTimer, closing, loop>>

CanJoin_Twice(s) == phase = "waiting" /\ Len(members) < MaxPlayers
CanJoin(s) ==
    phase = "waiting" /\ PlayerOf[s] \notin Members /\ Len(members) < MaxPlayers

Join(s) ==
    /\ From("join", s) /\ CanJoin(s)
    /\ members' = Append(members, PlayerOf[s])
    /\ session' = [session EXCEPT ![PlayerOf[s]] = s]
    /\ emptyTimer' = "off" /\ Serve(EmptyEvent)
    /\ UNCHANGED <<owner, ready, autoPlay, abandoned, strikes, game, turnTimer, closing, loop>>

CanReconnect(s) == PlayerOf[s] \in Members \ abandoned

Reconnect_KeepsCountdown(s) ==
    LET p == PlayerOf[s]
    IN  /\ From("reconnect", s) /\ CanReconnect(s)
        /\ session' = [session EXCEPT ![p] = s]
        /\ autoPlay' = autoPlay \ {p} /\ strikes' = [strikes EXCEPT ![p] = 0]
        /\ UNCHANGED <<members, owner, ready, abandoned, game, emptyTimer, closing, loop>>
        /\ RescheduleIfDue(p, {})
Reconnect(s) ==
    LET p == PlayerOf[s]
    IN  /\ From("reconnect", s) /\ CanReconnect(s)
        /\ session' = [session EXCEPT ![p] = s]
        /\ autoPlay' = autoPlay \ {p} /\ strikes' = [strikes EXCEPT ![p] = 0]
        /\ emptyTimer' = "off"
        /\ UNCHANGED <<members, owner, ready, abandoned, game, closing, loop>>
        /\ RescheduleIfDue(p, EmptyEvent)

\* A seat stays in the game without its player: disconnected or abandoned.
KeepSeat(p) ==
    /\ session' = [session EXCEPT ![p] = NoSession]
    /\ autoPlay' = autoPlay \cup {p}
    /\ UNCHANGED <<members, owner, ready, strikes, game, closing, loop>>
    /\ ScheduleEmpty
    /\ RescheduleIfDue(p, {})

Disconnect_AnySession(s) ==
    /\ From("disconnect", s) /\ PlayerOf[s] \in Members
    /\ IF phase = "playing" THEN KeepSeat(PlayerOf[s]) /\ UNCHANGED abandoned
       ELSE RemoveMember(PlayerOf[s])
Disconnect(s) ==
    /\ From("disconnect", s) /\ Bound(s)
    /\ IF phase = "playing" THEN KeepSeat(PlayerOf[s]) /\ UNCHANGED abandoned
       ELSE RemoveMember(PlayerOf[s])

Leave_FreesSeat(s) == From("leave", s) /\ Bound(s) /\ RemoveMember(PlayerOf[s])
Leave(s) ==
    /\ From("leave", s) /\ Bound(s)
    /\ IF phase = "playing"
       THEN KeepSeat(PlayerOf[s]) /\ abandoned' = abandoned \cup {PlayerOf[s]}
       ELSE RemoveMember(PlayerOf[s])

Commands(s) == Bound(s) /\ PlayerOf[s] = owner /\ phase = "waiting"

Kick(s) ==
    /\ From("kick", s) /\ Commands(s)
    /\ \E p \in Members \ {owner} : RemoveMember(p)

Ready(s) ==
    /\ From("ready", s) /\ Bound(s) /\ phase = "waiting"
    /\ \E yes \in BOOLEAN :
          ready' = IF yes \/ PlayerOf[s] = owner THEN ready \cup {PlayerOf[s]}
                   ELSE ready \ {PlayerOf[s]}
    /\ Serve({})
    /\ UNCHANGED <<members, owner, session, autoPlay, abandoned, strikes, game, timers,
                   closing, loop>>

CanStart(s) == Commands(s) /\ Len(members) >= MinPlayers /\ Members \subseteq ready

\* The opening card decides whose turn it is.
Start(s) ==
    /\ From("start", s) /\ CanStart(s)
    /\ phase' = "playing"
    /\ turnOf' \in Members
    /\ UNCHANGED <<seats, emptyTimer, closing, loop>>
    /\ ScheduleTurn /\ Serve(TurnEvents)

\* After a successful engine call: the decision is due to some member, the
\* same one included, or the round is over.
MoveOn ==
    /\ \/ turnOf' \in Members /\ UNCHANGED phase
       \/ turnOf' = NoPlayer /\ phase' = "settled"
    /\ ScheduleTurn /\ Serve(TurnEvents)

CanAct(s) == Bound(s) /\ phase = "playing" /\ turnOf = PlayerOf[s]

Act(s) ==
    /\ From("act", s) /\ CanAct(s)
    /\ strikes' = [strikes EXCEPT ![turnOf] = 0]
    /\ autoPlay' = autoPlay \ {turnOf}
    /\ UNCHANGED <<members, owner, session, ready, abandoned, emptyTimer, closing, loop>>
    /\ MoveOn

\* A refused automatic action would be a MoveOn to the same player: the timer
\* is armed again either way.
AutomatedTurn_KeepsManual(kind) ==
    /\ Current(kind) /\ phase = "playing"
    /\ strikes' = IF kind = "turn_timeout" THEN [strikes EXCEPT ![turnOf] = @ + 1] ELSE strikes
    /\ UNCHANGED <<members, owner, session, ready, autoPlay, abandoned, emptyTimer, closing, loop>>
    /\ MoveOn
AutomatedTurn(kind) ==
    /\ Current(kind) /\ phase = "playing"
    /\ strikes' = IF kind = "turn_timeout" THEN [strikes EXCEPT ![turnOf] = @ + 1] ELSE strikes
    /\ autoPlay' = IF kind = "turn_timeout" /\ strikes'[turnOf] >= StrikeLimit
                   THEN autoPlay \cup {turnOf} ELSE autoPlay
    /\ UNCHANGED <<members, owner, session, ready, abandoned, emptyTimer, closing, loop>>
    /\ MoveOn

CollectEmptyRoom ==
    /\ Current("empty_timeout") /\ ~HasConnected
    /\ BeginDestroy
    /\ UNCHANGED <<seats, game>>

\* The first command of a room, restored rooms above all.
FirstSnapshot ==
    /\ Current("snapshot")
    /\ UNCHANGED <<seats, game, turnTimer, closing, loop>>
    /\ ScheduleEmpty
    /\ Serve({})

Stop ==
    /\ Current("stop")
    /\ turnTimer' = "off" /\ emptyTimer' = "off"
    /\ Serve(TurnEvents \cup EmptyEvent)
    /\ loop' = "ended"
    /\ UNCHANGED <<seats, game, closing>>

\* Whatever a handler refuses, and events with an old token.  A start fails
\* when the match cannot be recorded; an action may break the rules, and a
\* call or catch of UNO is nobody's turn and changes nothing here.
Refused(c) ==
    LET s == c.from
    IN  \/ ~c.live
        \/ c.kind = "join" /\ ~CanJoin(s)
        \/ c.kind = "reconnect" /\ ~CanReconnect(s)
        \/ c.kind \in {"disconnect", "leave"} /\ ~Bound(s)
        \/ c.kind = "ready" /\ ~(Bound(s) /\ phase = "waiting")
        \/ c.kind \in {"kick", "start", "act"}
        \/ c.kind \in TurnEvents /\ phase # "playing"
        \/ c.kind = "empty_timeout" /\ HasConnected

Refuse ==
    /\ loop = "running" /\ mailbox # <<>> /\ Refused(Head(mailbox))
    /\ Serve({})
    /\ UNCHANGED <<seats, game, timers, closing, loop>>

\* rejectPendingCommands answers every caller still queued, and the loop ends.
Drain ==
    /\ loop = "draining"
    /\ mailbox' = <<>> /\ loop' = "ended"
    /\ UNCHANGED <<seats, game, timers, closing>>

Serves ==
    \/ \E s \in Session :
          \/ Join(s) \/ Reconnect(s) \/ Disconnect(s) \/ Leave(s)
          \/ Kick(s) \/ Ready(s) \/ Start(s) \/ Act(s)
    \/ \E kind \in TurnEvents : AutomatedTurn(kind)
    \/ CollectEmptyRoom \/ FirstSnapshot \/ Stop \/ Refuse \/ Drain

\* A room that has ended does nothing any more.
Gone == loop = "ended" /\ UNCHANGED vars

Next ==
    \/ \E s \in Session, kind \in Requests : Request(s, kind)
    \/ Shutdown \/ TurnTimerFires \/ EmptyTimerFires \/ Serves \/ Gone

-----------------------------------------------------------------------------
(* A room begins empty but for its creator, or is restored from a snapshot *)
(* with everybody disconnected.  Its first command is a snapshot.          *)

Fresh ==
    /\ turnOf = NoPlayer /\ phase = "waiting" /\ turnTimer = "off"
    /\ autoPlay = {} /\ abandoned = {} /\ strikes = [p \in Player |-> 0]

Created ==
    \E s \in Session :
      /\ Fresh
      /\ members = <<PlayerOf[s]>> /\ owner = PlayerOf[s] /\ ready = {owner}
      /\ session = [p \in Player |-> IF p = owner THEN s ELSE NoSession]

Restored ==
    /\ members \in {q \in SeqOf(Player, MaxPlayers) : q # <<>> /\ IsInjective(q)}
    /\ owner \in Members
    /\ session = [p \in Player |-> NoSession]
    /\ ready \in SUBSET Members /\ owner \in ready
    /\ \/ Fresh
       \/ /\ phase = "playing" /\ Len(members) >= MinPlayers /\ ready = Members
          /\ turnOf \in Members /\ turnTimer = "auto_play"
          /\ autoPlay = Members /\ abandoned \in SUBSET Members
          /\ strikes \in [Player -> 0 .. StrikeLimit]
          /\ \A p \in Player \ Members : strikes[p] = 0

Init ==
    /\ Created \/ Restored
    /\ emptyTimer = "off"
    /\ mailbox = <<[kind |-> "snapshot", from |-> NoSession, live |-> TRUE]>>
    /\ closing = FALSE /\ loop = "running"

\* The goroutine keeps serving and the runtime runs every timer.
Fairness == WF_vars(Serves) /\ WF_vars(TurnTimerFires) /\ WF_vars(EmptyTimerFires)

Spec == Init /\ [][Next]_vars /\ Fairness

-----------------------------------------------------------------------------
TypeOK ==
    /\ members \in Seq(Player) /\ IsInjective(members)
    /\ owner \in Player
    /\ phase \in {"waiting", "playing", "settled"}
    /\ turnOf \in Player \cup {NoPlayer}
    /\ session \in [Player -> Session \cup {NoSession}]
    /\ ready \subseteq Members /\ autoPlay \subseteq Members /\ abandoned \subseteq Members
    /\ strikes \in [Player -> Nat]
    /\ turnTimer \in {"off"} \cup TurnEvents
    /\ emptyTimer \in {"off", "running", "fired"}
    /\ mailbox \in Seq(Command) /\ Len(mailbox) <= MailboxSize
    /\ closing \in BOOLEAN
    /\ loop \in {"running", "draining", "ended"}

LiveQueued(kinds) == {i \in Queued(kinds) : mailbox[i].live}

(* A round never stalls and never runs double: while it is on, exactly one *)
(* event will make the room act for the player in turn, an armed timer or  *)
(* a queued event with the current token.  The event is the managed one    *)
(* exactly when that player is managed or away, whatever disconnections,   *)
(* reconnections, leaves, time-outs and actions came in between; so nobody *)
(* who is there is ever played for before the time-out.                    *)
OneEventPerTurn ==
    ~closing =>
        IF phase # "playing" THEN turnTimer = "off" /\ LiveQueued(TurnEvents) = {}
        ELSE LET kind  == IF Managed(turnOf) THEN "auto_play" ELSE "turn_timeout"
                 other == TurnEvents \ {kind}
             IN  /\ turnTimer \notin other /\ LiveQueued(other) = {}
                 /\ Cardinality(LiveQueued({kind})) = IF turnTimer = kind THEN 0 ELSE 1

(* Nobody's room is taken away: a countdown to the collection of the room  *)
(* runs, or has its event queued, exactly while no member is connected; so *)
(* a return at the last moment outdates it, and no departure forgets it.   *)
EmptyRoomCountsDown ==
    ~closing /\ Queued({"snapshot"}) = {} =>
        (~HasConnected <=> emptyTimer = "running" \/ LiveQueued(EmptyEvent) # {})

(* Nobody is kept waiting by a room that is gone: once the loop ended no   *)
(* command is left in the mailbox, so every synchronous caller is answered.*)
NoOrphanCommand == loop = "ended" => mailbox = <<>>

(* What Restore demands of the snapshot of a room (validateRoomSnapshot):  *)
(* a room that is not over or destroyed survives a restart at any moment.  *)
RoomSnapshotRestores ==
    loop = "running" /\ phase # "settled" =>
        /\ members # <<>> /\ Len(members) <= MaxPlayers
        /\ owner \in Members
        /\ IF phase = "waiting" THEN autoPlay = {} /\ abandoned = {}
           ELSE Len(members) >= MinPlayers /\ turnOf \in Members

(* A connected player is managed only after StrikeLimit time-outs in a row *)
(* (any own action or reconnection starts the count afresh), and nobody    *)
(* collects more strikes than that.                                        *)
ManagedForAReason ==
    \A p \in Members :
        /\ strikes[p] <= StrikeLimit
        /\ p \in autoPlay /\ session[p] # NoSession => strikes[p] = StrikeLimit

(* The seats of a running round are the seats of its engine: whoever       *)
(* leaves, disconnects or is kicked, the list does not change until the    *)
(* round is over.                                                          *)
SeatsAreKept == [][phase = "playing" => members' = members]_vars

(* A connection that was replaced cannot take the new one down: a player   *)
(* loses its connection or its seat only by a command of the connection    *)
(* bound to it, by the owner's kick, or by a newer connection of its own.  *)
OnlyBoundSessionUnbinds ==
    [][\A p \in Members :
          session[p] # NoSession /\ session'[p] # session[p] =>
             \/ Head(mailbox).from = session[p]
             \/ Head(mailbox).kind = "kick" /\ Head(mailbox).from = session[owner]
             \/ Head(mailbox).kind = "reconnect" /\ session'[p] = Head(mailbox).from]_vars

(* No room stays without a connection for good: it is collected, unless    *)
(* somebody comes back in time.                                            *)
EmptyRoomCollected == []<>(loop # "running" \/ HasConnected)
=============================================================================
