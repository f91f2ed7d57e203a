----------------------------- MODULE Connections -----------------------------
(***************************************************************************)
(* WebSocket connections (src/internal/session) and what waits for what    *)
(* around them.  A connection has a bounded queue of outgoing messages, a  *)
(* goroutine that reads, one that writes, and the handler that opened it.  *)
(* Its Close runs once; whoever calls it meanwhile waits for that one run, *)
(* which in turn waits until the room has served the disconnect.           *)
(*                                                                         *)
(* The room is its mailbox and the goroutine that serves it and sends what *)
(* came of a command to the members (RoomActor has the rest).  A caller of *)
(* the room gives up after 3 s: it may do so here at any time, but need    *)
(* not, so that no wait below ends for want of patience.  The room itself  *)
(* does not end here, and every connection is the only one of its player.  *)
(***************************************************************************)
EXTENDS Naturals, Sequences, FiniteSets

CONSTANTS
    Session, NoSession,
    Starts,        \* who may be open and seated at the start, and whether in a round
    Late,          \* connections that may open later
    Talking,       \* connections whose clients send something
    SendBuffer,    \* sendBufferSize
    MailboxSize,
    MaxRequests    \* bound on the messages read and the seats asked back

ASSUME ConnectionsAssumption ==
    /\ {NoSession, "off", "next", "over"} \cap Session = {}
    /\ Starts \subseteq [up : SUBSET Session, playing : BOOLEAN]
    /\ Late \subseteq Session /\ Talking \subseteq Session
    /\ {SendBuffer, MailboxSize, MaxRequests} \subseteq Nat \ {0}

VARIABLES
    opener, reader, writer,   \* where the goroutines of each connection are
    asked,       \* open connections that a goroutine of their own shall close
    stage,       \* how far Close of each connection is
    up,          \* connections that are not hung up
    registered,  \* sessions of the session manager
    queue,       \* messages in each send queue
    missed,      \* history: open connections that were refused a message by a full queue
    requests,    \* messages read and seats asked back so far
    mailbox, loop, bound,     \* the room; bound: connections with a seat
    index,       \* connections whose player the room manager finds in the room
    playing,     \* whether the room is in a round
    returned,    \* history: seats given to a connection whose disconnect had been served
    shutdown     \* CloseAll: what it is at, and what is left of its snapshot

threads == <<opener, reader, writer>>
session == <<asked, stage, up, registered>>
output  == <<queue, missed>>
seats   == <<bound, playing, index, returned>>
room    == <<mailbox, loop, seats>>
vars    == <<threads, session, output, requests, room, shutdown>>

Ends   == {"done", "gave_up", "turned_away", "no_room"}
Stages == {"open", "closed", "unlisted", "waiting"} \cup Ends
Kinds  == {"join", "leave", "message", "reconnect", "disconnect"}
Idle   == [at |-> "idle", kind |-> "message", from |-> NoSession, by |-> "nobody",
           seated |-> {}, to |-> {}]

Goes(thread, s, at) == thread' = [thread EXCEPT ![s] = at]
IsClosed(s) == stage[s] # "open"
Over(s)     == stage[s] \in Ends

-----------------------------------------------------------------------------
(* Send.  Its select takes any branch that is ready: when the connection   *)
(* is closed and the queue has room, either of the two.                    *)

Enqueue_Unbounded(s) ==
    /\ queue' = [queue EXCEPT ![s] = @ + 1]
    /\ UNCHANGED <<asked, missed>>
Enqueue(s) ==
    /\ queue[s] < SendBuffer
    /\ queue' = [queue EXCEPT ![s] = @ + 1]
    /\ UNCHANGED <<asked, missed>>

SendsNothing(s) == IsClosed(s) /\ UNCHANGED <<queue, asked, missed>>

Overflow(s) ==
    /\ queue[s] = SendBuffer /\ ~IsClosed(s)
    /\ missed' = missed \cup {s}
    /\ UNCHANGED queue

Send_Drops(s) ==
    \/ Enqueue(s) \/ SendsNothing(s)
    \/ Overflow(s) /\ UNCHANGED asked
Send(s) ==
    \/ Enqueue(s) \/ SendsNothing(s)
    \/ Overflow(s) /\ asked' = asked \cup {s}

-----------------------------------------------------------------------------
(* Close.                                                                  *)

ClosedBy(s) ==
    \/ opener[s] = "closing" \/ reader[s] = "closing" \/ writer[s] = "closing"
    \/ s \in asked \/ shutdown.at = s

Becomes(s, from, to) == stage[s] = from /\ stage' = [stage EXCEPT ![s] = to]

CloseBegins(s) ==
    /\ ClosedBy(s) /\ Becomes(s, "open", "closed")
    /\ asked' = asked \ {s} /\ missed' = missed \ {s}
    /\ UNCHANGED <<threads, up, registered, queue, requests, room, shutdown>>

\* Hanging up and unregistering.
Unlist_Forgotten(s) ==
    /\ Becomes(s, "closed", "unlisted")
    /\ up' = up \ {s}
    /\ UNCHANGED <<threads, asked, registered, output, requests, room, shutdown>>
Unlist(s) ==
    /\ Becomes(s, "closed", "unlisted")
    /\ up' = up \ {s} /\ registered' = registered \ {s}
    /\ UNCHANGED <<threads, asked, output, requests, room, shutdown>>

Accepts == Len(mailbox) < MailboxSize
Post(kind, s, by) == mailbox' = Append(mailbox, [kind |-> kind, from |-> s, by |-> by])

\* OnSessionClose.  It goes by the index, and takes no notice of a full mailbox.
Hook(s) ==
    /\ \/ /\ s \in index /\ Accepts /\ Post("disconnect", s, "closer")
          /\ Becomes(s, "unlisted", "waiting")
       \/ /\ s \in index /\ ~Accepts /\ Becomes(s, "unlisted", "turned_away") /\ UNCHANGED mailbox
       \/ /\ s \notin index /\ Becomes(s, "unlisted", "no_room") /\ UNCHANGED mailbox
    /\ UNCHANGED <<threads, asked, up, registered, output, requests, loop, seats, shutdown>>

HookGivesUp(s) ==
    /\ Becomes(s, "waiting", "gave_up")
    /\ UNCHANGED <<threads, asked, up, registered, output, requests, room, shutdown>>

\* A call of Close returns when the one run of it is over.  For a goroutine
\* of the connection it is the last thing it does.
CloseReturns_AtOnce(s) == IsClosed(s)
CloseReturns(s) == Over(s)

-----------------------------------------------------------------------------
(* handleWebSocket: New registers the session and starts its goroutines,   *)
(* SendHello, OnSessionOpen.                                               *)

New(s) ==
    /\ opener[s] = "new" /\ s \in Late
    /\ registered' = registered \cup {s} /\ up' = up \cup {s}
    /\ Goes(opener, s, "registered")
    /\ UNCHANGED <<reader, writer, asked, stage, output, requests, room, shutdown>>

\* The session may have been closed by now.
StartPumps(s) ==
    /\ opener[s] = "registered"
    /\ Goes(opener, s, "hello") /\ Goes(reader, s, "reading") /\ Goes(writer, s, "idle")
    /\ UNCHANGED <<session, output, requests, room, shutdown>>

\* A greeting that is refused closes the connection.
Hello(s) ==
    /\ opener[s] = "hello" /\ Send(s)
    /\ Goes(opener, s, IF queue' = queue THEN "closing" ELSE "opened")
    /\ UNCHANGED <<reader, writer, stage, up, registered, requests, room, shutdown>>

\* Without a room to come back to, or turned away by it, the handler is done.
Rebind(s) ==
    /\ opener[s] = "opened"
    /\ \/ /\ requests < MaxRequests /\ requests' = requests + 1
          /\ s \in index /\ Accepts /\ Post("reconnect", s, "opener")
          /\ Goes(opener, s, "asking")
       \/ Goes(opener, s, "ended") /\ UNCHANGED <<requests, mailbox>>
    /\ UNCHANGED <<reader, writer, session, output, loop, seats, shutdown>>

-----------------------------------------------------------------------------
(* readPump and writePump.                                                 *)

Read(s) ==
    /\ reader[s] = "reading" /\ s \in up \cap Talking /\ requests < MaxRequests
    /\ requests' = requests + 1
    /\ Goes(reader, s, "handling")
    /\ UNCHANGED <<opener, writer, session, output, room, shutdown>>

\* The client is gone, has been silent for too long, or was hung up on.
ReadFails(s) ==
    /\ reader[s] = "reading"
    /\ Goes(reader, s, "closing")
    /\ UNCHANGED <<opener, writer, session, output, requests, room, shutdown>>

\* A pong or an error.
Reply(s) ==
    /\ reader[s] \in {"handling", "refused"} /\ Goes(reader, s, "reading")
    /\ Send(s)
    /\ UNCHANGED <<opener, writer, stage, up, registered, requests, room, shutdown>>

\* Route: a player the index does not have joins, the requests of another go to
\* its room.  A leave loses the index entry when it returns, whatever came of
\* it: the mailbox was full, or the caller waits no longer.
Forgets(s, kind) == index' = IF kind = "leave" THEN index \ {s} ELSE index

\* What a reader does after a call: a client whose join came to nothing is told.
AfterCall(kind, seated) == IF kind = "join" /\ seated = {} THEN "refused" ELSE "reading"

Ask(s) ==
    /\ reader[s] = "handling"
    /\ \E kind \in IF s \in index THEN {"leave", "message"} ELSE {"join"} :
          IF Accepts
          THEN Post(kind, s, "reader") /\ Goes(reader, s, "asking") /\ UNCHANGED index
          ELSE Forgets(s, kind) /\ Goes(reader, s, AfterCall(kind, {})) /\ UNCHANGED mailbox
    /\ UNCHANGED <<opener, writer, session, output, requests, loop, bound, playing, returned,
                   shutdown>>

\* A caller that waits no longer: whoever answers later answers nobody.
Commands == {mailbox[i] : i \in DOMAIN mailbox} \cup {loop}
AskedBy(c, s, by) == c.from = s /\ c.by = by
Leaves(s, by) ==
    LET Left(c) == IF AskedBy(c, s, by) THEN [c EXCEPT !.by = "nobody"] ELSE c
    IN  mailbox' = [i \in DOMAIN mailbox |-> Left(mailbox[i])] /\ loop' = Left(loop)

GivesUp(s) ==
    /\ \/ /\ reader[s] = "asking" /\ Leaves(s, "reader")
          /\ \E c \in Commands : /\ AskedBy(c, s, "reader") /\ Forgets(s, c.kind)
                                /\ Goes(reader, s, AfterCall(c.kind, {}))
          /\ UNCHANGED opener
       \/ /\ opener[s] = "asking" /\ Leaves(s, "opener")
          /\ Goes(opener, s, "ended") /\ UNCHANGED <<reader, index>>
    /\ UNCHANGED <<writer, session, output, requests, bound, playing, returned, shutdown>>

\* Its select, too, takes any branch that is ready.
TakeMessage(s) ==
    /\ writer[s] = "idle" /\ queue[s] > 0
    /\ Goes(writer, s, "writing")
    /\ queue' = [queue EXCEPT ![s] = @ - 1]
    /\ UNCHANGED <<opener, reader, session, missed, requests, room, shutdown>>

WriterStops(s) ==
    /\ writer[s] = "idle" /\ IsClosed(s)
    /\ Goes(writer, s, "ended") /\ up' = up \ {s}
    /\ UNCHANGED <<opener, reader, asked, stage, registered, output, requests, room, shutdown>>

Written(s) ==
    /\ writer[s] = "writing" /\ s \in up
    /\ Goes(writer, s, "idle")
    /\ UNCHANGED <<opener, reader, session, output, requests, room, shutdown>>

\* Too slow, or hung up.
WriteFails(s) ==
    /\ writer[s] = "writing"
    /\ Goes(writer, s, "closing")
    /\ UNCHANGED <<opener, reader, session, output, requests, room, shutdown>>

-----------------------------------------------------------------------------
(* The room.  Before a round connections join and are kicked, and one that *)
(* is lost leaves the index with its seat; in a round the seat of a lost   *)
(* connection is kept, until it is asked back.                             *)

MayTake(c)   == c.kind = "reconnect" \/ (c.kind = "join" /\ ~playing)
MayKick(c)   == c.kind = "message" /\ c.from \in bound /\ ~playing
MayStart(c)  == c.kind = "message" /\ c.from \in bound
GivesUpSeat(c) == c.kind \in {"leave", "disconnect"}

\* Who is sent something: all that have a seat when one changed hands, was asked
\* back, or the round began, a kicked member as well; for another request of the
\* game the one that asked, or all; nobody for a join that is refused.
Told(c) ==
    LET members == IF c.from \in bound THEN bound ELSE {}
    IN  CASE c.kind = "message" ->
                 IF <<bound, playing>>' # <<bound, playing>> THEN {bound}
                 ELSE {{c.from}, {c.from} \cup members}
          [] c.kind = "leave"     -> IF members = {} THEN {{c.from}} ELSE {bound'}
          [] c.kind = "reconnect" -> IF bound' # bound THEN {bound'} ELSE {members}
          [] OTHER                -> IF bound' # bound THEN {bound'} ELSE {{}}

Serve ==
    /\ loop.at = "idle" /\ mailbox # <<>> /\ mailbox' = Tail(mailbox)
    /\ LET c == Head(mailbox)
       IN  /\ \/ GivesUpSeat(c) /\ bound' = bound \ {c.from} /\ UNCHANGED playing
              \/ MayTake(c) /\ bound' = bound \cup {c.from} /\ UNCHANGED playing
              \/ MayKick(c) /\ UNCHANGED playing
                 /\ \E s \in bound \ {c.from} : bound' = bound \ {s}
              \/ MayStart(c) /\ playing' = TRUE /\ UNCHANGED bound
              \/ ~GivesUpSeat(c) /\ UNCHANGED <<bound, playing>>
           /\ index' = IF c.kind = "disconnect" /\ playing THEN index ELSE index \ (bound \ bound')
           /\ returned' = (returned \cap bound') \cup {s \in bound' \ bound : stage[s] = "done"}
           /\ \E to \in Told(c) :
                 loop' = [at |-> "serving", kind |-> c.kind, from |-> c.from, by |-> c.by,
                          seated |-> bound' \ bound, to |-> to]
    /\ UNCHANGED <<threads, session, output, requests, shutdown>>

Sent(s) == loop' = [loop EXCEPT !.to = @ \ {s}]

Broadcast_ClosesInLine(s) ==
    /\ loop.at = "serving" /\ s \in loop.to
    /\ \/ Overflow(s) /\ s \notin asked /\ asked' = asked \cup {s} /\ UNCHANGED loop
       \/ (Enqueue(s) \/ SendsNothing(s)) /\ (s \in asked \/ IsClosed(s) => Over(s)) /\ Sent(s)
    /\ UNCHANGED <<threads, stage, up, registered, requests, mailbox, seats, shutdown>>
Broadcast(s) ==
    /\ loop.at = "serving" /\ s \in loop.to
    /\ Sent(s) /\ Send(s)
    /\ UNCHANGED <<threads, stage, up, registered, requests, mailbox, seats, shutdown>>

Answered(thread, name, s) ==
    thread' = IF loop.by = name /\ thread[s] = "asking"
              THEN [thread EXCEPT ![s] = IF name = "reader" THEN AfterCall(loop.kind, loop.seated)
                                                            ELSE "ended"]
              ELSE thread

\* A seat that was joined is entered into the index by the one who asked.
Answer ==
    LET s == loop.from
    IN  /\ loop.at = "serving" /\ loop.to = {}
        /\ loop' = Idle
        /\ Answered(reader, "reader", s) /\ Answered(opener, "opener", s)
        /\ IF loop.by # "reader" THEN UNCHANGED index
           ELSE IF loop.kind = "join" THEN index' = index \cup loop.seated
           ELSE Forgets(s, loop.kind)
        /\ stage' = IF loop.by = "closer" /\ stage[s] = "waiting"
                    THEN [stage EXCEPT ![s] = "done"] ELSE stage
        /\ UNCHANGED <<writer, asked, up, registered, output, requests, mailbox, bound, playing,
                       returned, shutdown>>

-----------------------------------------------------------------------------
(* CloseAll closes the sessions that are registered when it is called, one *)
(* after the other.  A handler under way may still register another.       *)

ShutdownBegins ==
    /\ shutdown.at = "off"
    /\ shutdown' = [at |-> "next", left |-> registered, all |-> registered]
    /\ UNCHANGED <<threads, session, output, requests, room>>

NextIsDue ==
    \/ shutdown.at = "next"
    \/ \E s \in Session : shutdown.at = s /\ CloseReturns(s)

CloseNext(s) ==
    /\ NextIsDue /\ s \in shutdown.left
    /\ shutdown' = [shutdown EXCEPT !.at = s, !.left = @ \ {s}]
    /\ UNCHANGED <<threads, session, output, requests, room>>

ShutdownEnds ==
    /\ NextIsDue /\ shutdown.left = {}
    /\ shutdown' = [shutdown EXCEPT !.at = "over"]
    /\ UNCHANGED <<threads, session, output, requests, room>>

-----------------------------------------------------------------------------
Init ==
    /\ \E start \in Starts : up = start.up /\ playing = start.playing
    /\ registered = up /\ bound = up
    /\ index \in {up \cup kept : kept \in SUBSET Late} /\ returned = {}
    /\ opener = [s \in Session |-> IF s \in up THEN "ended" ELSE "new"]
    /\ reader = [s \in Session |-> IF s \in up THEN "reading" ELSE "off"]
    /\ writer = [s \in Session |-> IF s \in up THEN "idle" ELSE "off"]
    /\ asked = {} /\ stage = [s \in Session |-> "open"]
    /\ queue = [s \in Session |-> 0] /\ missed = {} /\ requests = 0
    /\ mailbox = <<>> /\ loop = Idle
    /\ shutdown = [at |-> "off", left |-> {}, all |-> {}]

Closing(s) == CloseBegins(s) \/ Unlist(s) \/ Hook(s)

\* What goroutines do as soon as they can.
Runs(s) ==
    \/ Closing(s)
    \/ StartPumps(s) \/ Hello(s) \/ Rebind(s) \/ Reply(s) \/ Ask(s)
    \/ TakeMessage(s) \/ WriterStops(s) \/ Written(s) \/ WriteFails(s)
    \/ Broadcast(s) \/ CloseNext(s)

\* What depends on clients, the operator, or a slow room.
Happens(s) == New(s) \/ Read(s) \/ ReadFails(s) \/ HookGivesUp(s) \/ GivesUp(s)

Next ==
    \/ \E s \in Session : Runs(s) \/ Happens(s)
    \/ Serve \/ Answer \/ ShutdownBegins \/ ShutdownEnds

\* Goroutines that can run do.  A write ends, at its deadline if not before;
\* a read need not, unless the connection is hung up.
Fairness ==
    /\ \A s \in Session :
          /\ WF_vars(Closing(s)) /\ WF_vars(StartPumps(s) \/ Hello(s) \/ Rebind(s))
          /\ WF_vars(Reply(s) \/ Ask(s) \/ (s \notin up /\ ReadFails(s)))
          /\ WF_vars(TakeMessage(s) \/ WriterStops(s) \/ Written(s) \/ WriteFails(s))
    /\ WF_vars(Serve \/ (\E s \in Session : Broadcast(s)) \/ Answer)

Spec == Init /\ [][Next]_vars /\ Fairness

-----------------------------------------------------------------------------
TypeOK ==
    /\ opener \in [Session -> {"new", "registered", "hello", "opened", "asking", "closing", "ended"}]
    /\ reader \in [Session -> {"off", "reading", "handling", "asking", "refused", "closing"}]
    /\ writer \in [Session -> {"off", "idle", "writing", "closing", "ended"}]
    /\ stage \in [Session -> Stages]
    /\ UNION {asked, up, registered, missed, bound, index, returned} \subseteq Session
    /\ queue \in [Session -> 0 .. SendBuffer]
    /\ requests \in 0 .. MaxRequests /\ playing \in BOOLEAN
    /\ Len(mailbox) <= MailboxSize
    /\ \A c \in Commands :
          /\ c.kind \in Kinds /\ c.from \in Session \cup {NoSession}
          /\ c.by \in {"reader", "opener", "closer", "nobody"}
    /\ shutdown.at \in {"off", "next", "over"} \cup Session
    /\ shutdown.left \cup shutdown.all \subseteq Session

\* A goroutine whose last step is to call Close is gone when Close is over.
Gone(s) ==
    /\ Over(s) /\ s \notin up /\ s \notin registered
    /\ {opener[s], reader[s], writer[s]} \subseteq {"closing", "ended"}

(* The manager lists a connection from before its goroutines run until it  *)
(* is hung up, whoever closes it and however early: none that is alive is  *)
(* out of the reach of CloseAll, and none that is closed stays listed.     *)
RegistryIsTrue ==
    \A s \in Session :
        s \in registered <=> opener[s] # "new" /\ stage[s] \in {"open", "closed"}

(* When CloseAll is over, the rooms have served the disconnect of every    *)
(* connection it found, also of those that another goroutine was closing   *)
(* at the time: the final snapshots of the rooms, taken next, show none of *)
(* them connected.  The code makes four exceptions.  The room did not      *)
(* answer in time.  Its mailbox was full, which OnSessionClose takes no    *)
(* notice of: such a connection keeps its seat.  The index did not have    *)
(* the seat, because a join was not entered into it yet or a leave that    *)
(* failed had been taken out.  Or a request served later seated the closed *)
(* connection again.                                                       *)
ShutdownWaitsForRooms ==
    shutdown.at = "over" =>
        \A s \in shutdown.all \cap bound :
            stage[s] \in {"gave_up", "turned_away", "no_room"} \/ s \in returned

(* A connection that is closed disappears with both its goroutines, none of *)
(* them left behind on an empty queue, a dead socket or the end of Close,  *)
(* and without waiting for a call to time out.  So does one whose queue was *)
(* full when a message came: its client does not go on with a hole in what *)
(* it saw, but is dropped and comes back to a full state.  (Lost and gone   *)
(* are for good.)                                                          *)
LostIsGone == []<>(\A s \in Session : s \in missed \/ IsClosed(s) => Gone(s))

(* The room always gets back to its mailbox.  It sends to connections that *)
(* are being closed, and the closing waits for the room; were it to close a *)
(* slow client itself, it would wait for itself.                           *)
RoomKeepsServing == []<>(loop.at = "idle" /\ mailbox = <<>>)
=============================================================================
