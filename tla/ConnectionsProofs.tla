-------------------------- MODULE ConnectionsProofs --------------------------
(***************************************************************************)
(* Proofs about Connections for every set of connections and every size of *)
(* the buffers: the registry of the session manager, and what CloseAll has *)
(* waited for.                                                             *)
(***************************************************************************)
EXTENDS Connections, TLAPS

(* Who may have posted a command: a goroutine of the connection, the one   *)
(* run of its Close, or nobody who still waits.                            *)
Callers == {"reader", "opener", "closer", "nobody"}

(* What the mailbox holds.                                                 *)
Command == [kind : Kinds, from : Session, by : Callers]

(* The room while it serves a command and sends what came of it.           *)
Serving == [at : {"serving"}, kind : Kinds, from : Session, by : Callers,
            seated : SUBSET Session, to : SUBSET Session]

(* Where the handler that opens a connection is, where its reader is, and  *)
(* where CloseAll is.                                                      *)
Openers == {"new", "registered", "hello", "opened", "asking", "closing", "ended"}
Readers == {"off", "reading", "handling", "asking", "refused", "closing"}
Shutdowns == [at : {"off", "next", "over"} \cup Session, left : SUBSET Session, all : SUBSET Session]

(* The type of every variable.  TypeOK says less of the records in the     *)
(* mailbox and of the loop than a proof needs: that they are commands,     *)
(* with connections in them.                                               *)
Types ==
    /\ opener \in [Session -> Openers]
    /\ reader \in [Session -> Readers]
    /\ writer \in [Session -> {"off", "idle", "writing", "closing", "ended"}]
    /\ stage \in [Session -> Stages]
    /\ asked \in SUBSET Session /\ up \in SUBSET Session /\ registered \in SUBSET Session
    /\ missed \in SUBSET Session /\ bound \in SUBSET Session
    /\ playing \in BOOLEAN /\ index \in SUBSET Session /\ returned \in SUBSET Session
    /\ queue \in [Session -> 0 .. SendBuffer] /\ requests \in 0 .. MaxRequests
    /\ mailbox \in Seq(Command) /\ Len(mailbox) <= MailboxSize
    /\ loop = Idle \/ loop \in Serving
    /\ shutdown \in Shutdowns

(* Connections that a handler has opened, or that were there at the start. *)
Opened == {s \in Session : opener[s] # "new"}

(* A connection that nobody has opened has no goroutine, and nothing knows *)
(* of it: no command, no seat, no snapshot of the registry.                *)
OnlyOpened ==
    /\ \A s \in Session :
          opener[s] = "new" => reader[s] = "off" /\ writer[s] = "off" /\ stage[s] = "open"
    /\ asked \subseteq Opened /\ bound \subseteq Opened /\ registered \subseteq Opened
    /\ \A i \in DOMAIN mailbox : mailbox[i].from \in Opened
    /\ loop.at = "serving" => loop.from \in Opened /\ loop.to \subseteq Opened
    /\ shutdown.left \subseteq Opened /\ (shutdown.at \in Session => shutdown.at \in Opened)

(* A disconnect is posted by the run of Close, which posts nothing else.   *)
OnlyCloseHangsUp ==
    /\ \A i \in DOMAIN mailbox : mailbox[i].kind = "disconnect" <=> mailbox[i].by = "closer"
    /\ loop.kind = "disconnect" <=> loop.by = "closer"

(* A connection has no seat while its disconnect is being served, nor when *)
(* it has been, unless the room seated it afterwards.                      *)
SeatIsGone ==
    /\ loop.kind = "disconnect" => loop.from \notin bound
    /\ \A s \in bound : stage[s] = "done" => s \in returned

(* What CloseAll found is still to be closed, is the one being closed, or  *)
(* is closed; nothing is left when it is over.                             *)
ClosedInTurn ==
    /\ \A s \in shutdown.all : s \in shutdown.left \/ shutdown.at = s \/ Over(s)
    /\ shutdown.at = "over" => shutdown.left = {}

-----------------------------------------------------------------------------
(* Send keeps the queue within the buffer, and at most asks for the close  *)
(* of its own connection.                                                  *)
LEMMA SendFacts ==
    ASSUME Types, NEW s \in Session, Send(s)
    PROVE  /\ queue' \in [Session -> 0 .. SendBuffer]
           /\ asked' \in {asked, asked \cup {s}} /\ missed' \in {missed, missed \cup {s}}
BY ConnectionsAssumption DEF Send, Enqueue, SendsNothing, Overflow, Types

(* A command is posted behind the others, which stay where they are.       *)
LEMMA PostFacts ==
    ASSUME Types, NEW s \in Session, NEW kind \in Kinds, NEW by \in Callers,
           Accepts, Post(kind, s, by)
    PROVE  /\ mailbox' \in Seq(Command) /\ Len(mailbox') <= MailboxSize
           /\ DOMAIN mailbox = 1 .. Len(mailbox) /\ Len(mailbox) \in Nat
           /\ DOMAIN mailbox' = 1 .. Len(mailbox) + 1
           /\ \A i \in DOMAIN mailbox : mailbox'[i] = mailbox[i]
           /\ mailbox'[Len(mailbox) + 1] = [kind |-> kind, from |-> s, by |-> by]
<1> DEFINE c == [kind |-> kind, from |-> s, by |-> by]
<1>1. c \in Command /\ mailbox' = Append(mailbox, c) /\ mailbox \in Seq(Command)
      /\ Len(mailbox) < MailboxSize
  BY DEF Command, Post, Types, Accepts
<1> HIDE DEF c
<1>2. /\ mailbox' \in Seq(Command) /\ Len(mailbox') <= MailboxSize
      /\ DOMAIN mailbox = 1 .. Len(mailbox) /\ Len(mailbox) \in Nat
      /\ DOMAIN mailbox' = 1 .. Len(mailbox) + 1
      /\ \A i \in DOMAIN mailbox : mailbox'[i] = mailbox[i]
      /\ mailbox'[Len(mailbox) + 1] = c
  BY <1>1, ConnectionsAssumption
<1>3. QED BY <1>2 DEF c

(* A caller that gives up leaves every command where it is; only its own   *)
(* name is taken off, and never the one of a Close.                        *)
LEMMA LeavesFacts ==
    ASSUME Types, NEW s \in Session, NEW by \in {"reader", "opener"}, Leaves(s, by)
    PROVE  /\ mailbox' \in Seq(Command)
           /\ DOMAIN mailbox' = DOMAIN mailbox /\ Len(mailbox') = Len(mailbox)
           /\ \A i \in DOMAIN mailbox :
                 /\ mailbox'[i].kind = mailbox[i].kind /\ mailbox'[i].from = mailbox[i].from
                 /\ mailbox'[i].by = "closer" <=> mailbox[i].by = "closer"
           /\ loop'.at = loop.at /\ loop'.kind = loop.kind
           /\ loop'.from = loop.from /\ loop'.to = loop.to
           /\ loop'.seated = loop.seated
           /\ loop'.by = "closer" <=> loop.by = "closer"
           /\ loop' = Idle \/ loop' \in Serving
<1> DEFINE Left(c) == IF AskedBy(c, s, by) THEN [c EXCEPT !.by = "nobody"] ELSE c
<1>1. \A c \in Command : /\ Left(c) \in Command /\ Left(c).kind = c.kind /\ Left(c).from = c.from
                         /\ Left(c).by = "closer" <=> c.by = "closer"
  <2> SUFFICES ASSUME NEW c \in Command
               PROVE  /\ Left(c) \in Command /\ Left(c).kind = c.kind /\ Left(c).from = c.from
                      /\ Left(c).by = "closer" <=> c.by = "closer"
    OBVIOUS
  <2>1. CASE AskedBy(c, s, by)
    <3>1. Left(c) = [c EXCEPT !.by = "nobody"] /\ c.by = by
      BY <2>1 DEF AskedBy
    <3> HIDE DEF Left
    <3> QED BY <3>1 DEF Command, Callers
  <2>2. CASE ~AskedBy(c, s, by)
    BY <2>2
  <2> QED BY <2>1, <2>2
<1>2. mailbox' = [i \in DOMAIN mailbox |-> Left(mailbox[i])] /\ loop' = Left(loop)
  BY DEF Leaves, AskedBy
<1>3. mailbox \in Seq(Command)
  BY DEF Types
<1>4. /\ loop'.at = loop.at /\ loop'.kind = loop.kind /\ loop'.from = loop.from /\ loop'.to = loop.to
      /\ loop'.seated = loop.seated
      /\ loop'.by = "closer" <=> loop.by = "closer"
      /\ loop' = Idle \/ loop' \in Serving
  <2>1. CASE loop = Idle
    <3>1. Left(Idle) = Idle
      BY ConnectionsAssumption DEF Idle, AskedBy
    <3> QED BY <1>2, <2>1, <3>1
  <2>2. CASE loop \in Serving
    <3>1. CASE AskedBy(loop, s, by)
      <4>1. loop' = [loop EXCEPT !.by = "nobody"] /\ loop.by = by
        BY <1>2, <3>1 DEF AskedBy
      <4> HIDE DEF Left
      <4> QED BY <2>2, <4>1 DEF Serving, Callers
    <3>2. CASE ~AskedBy(loop, s, by)
      BY <1>2, <2>2, <3>2
    <3> QED BY <3>1, <3>2
  <2> QED BY <2>1, <2>2 DEF Types
<1> HIDE DEF Left
<1>5. mailbox' \in Seq(Command) /\ DOMAIN mailbox' = DOMAIN mailbox /\ Len(mailbox') = Len(mailbox)
  BY <1>1, <1>2, <1>3
<1>6. \A i \in DOMAIN mailbox : mailbox[i] \in Command /\ mailbox'[i] = Left(mailbox[i])
  BY <1>2, <1>3
<1>7. QED BY <1>1, <1>4, <1>5, <1>6

(* The room takes the first command and moves the others up.               *)
LEMMA ServeFacts ==
    ASSUME Types, Serve
    PROVE  /\ DOMAIN mailbox = 1 .. Len(mailbox) /\ Len(mailbox) \in Nat /\ 1 \in DOMAIN mailbox
           /\ mailbox[1] \in Command /\ loop.at = "idle"
           /\ mailbox' \in Seq(Command) /\ Len(mailbox') = Len(mailbox) - 1
           /\ DOMAIN mailbox' = 1 .. Len(mailbox) - 1
           /\ \A i \in DOMAIN mailbox' : mailbox'[i] = mailbox[i + 1]
           /\ bound' \subseteq bound \cup {mailbox[1].from}
           /\ mailbox[1].kind = "disconnect" => bound' = bound \ {mailbox[1].from}
           /\ playing' \in BOOLEAN /\ index' \subseteq index
           /\ returned' = (returned \cap bound') \cup {s \in bound' \ bound : stage[s] = "done"}
           /\ \E to \in SUBSET (bound \cup {mailbox[1].from}) :
                 loop' = [at |-> "serving", kind |-> mailbox[1].kind, from |-> mailbox[1].from,
                          by |-> mailbox[1].by, seated |-> bound' \ bound, to |-> to]
<1>1. /\ mailbox \in Seq(Command) /\ mailbox # <<>>
      /\ mailbox' = Tail(mailbox) /\ Head(mailbox) = mailbox[1]
  BY DEF Serve, Types
<1>2. /\ DOMAIN mailbox = 1 .. Len(mailbox) /\ Len(mailbox) \in Nat /\ 1 \in DOMAIN mailbox
      /\ mailbox' \in Seq(Command) /\ Len(mailbox') = Len(mailbox) - 1
      /\ DOMAIN mailbox' = 1 .. Len(mailbox) - 1
      /\ \A i \in DOMAIN mailbox' : mailbox'[i] = mailbox[i + 1]
  BY <1>1
<1>3. /\ bound' \subseteq bound \cup {mailbox[1].from} /\ loop.at = "idle"
      /\ mailbox[1].kind = "disconnect" => bound' = bound \ {mailbox[1].from}
      /\ playing' \in BOOLEAN
  BY <1>1 DEF Serve, Types, GivesUpSeat, MayTake, MayKick, MayStart
<1>4. /\ index' \subseteq index
      /\ returned' = (returned \cap bound') \cup {s \in bound' \ bound : stage[s] = "done"}
  BY <1>1 DEF Serve
<1>5. PICK to \in Told(mailbox[1]) :
         loop' = [at |-> "serving", kind |-> mailbox[1].kind, from |-> mailbox[1].from,
                  by |-> mailbox[1].by, seated |-> bound' \ bound, to |-> to]
  BY <1>1 DEF Serve
<1>6. to \subseteq bound \cup bound' \cup {mailbox[1].from}
  BY DEF Told
<1>7. to \in SUBSET (bound \cup {mailbox[1].from})
  BY <1>3, <1>6
<1>8. mailbox[1] \in Command
  BY <1>1, <1>2
<1>9. QED BY <1>1, <1>2, <1>3, <1>4, <1>5, <1>7, <1>8

(* An answer reaches at most the goroutine that asked; to the run of a     *)
(* Close it is the end of it.                                              *)
LEMMA AnswerFacts ==
    ASSUME Types, Answer
    PROVE  /\ loop \in Serving /\ loop' = Idle /\ mailbox' = mailbox
           /\ \/ reader' = reader
              \/ \E at \in {"reading", "refused"} : reader' = [reader EXCEPT ![loop.from] = at]
           /\ \/ opener' = opener
              \/ opener[loop.from] = "asking" /\ opener' = [opener EXCEPT ![loop.from] = "ended"]
           /\ index' \in SUBSET Session
           /\ \/ stage' = stage
              \/ /\ loop.by = "closer" /\ stage[loop.from] = "waiting"
                 /\ stage' = [stage EXCEPT ![loop.from] = "done"]
<1>1. loop \in Serving /\ loop' = Idle /\ mailbox' = mailbox
  BY DEF Answer, Types, Idle
<1>2. \/ reader' = reader
      \/ \E at \in {"reading", "refused"} : reader' = [reader EXCEPT ![loop.from] = at]
  BY DEF Answer, Answered, AfterCall
<1>3. \/ opener' = opener
      \/ opener[loop.from] = "asking" /\ opener' = [opener EXCEPT ![loop.from] = "ended"]
  <2>1. "opener" # "reader"
    OBVIOUS
  <2> QED BY <2>1 DEF Answer, Answered
<1>4. index' \in SUBSET Session
  <2>1. index' \in {index, index \cup loop.seated, index \ {loop.from}}
    BY DEF Answer, Forgets
  <2> QED BY <1>1, <2>1 DEF Types, Serving
<1>5. QED BY <1>1, <1>2, <1>3, <1>4 DEF Answer

(* The type invariant of the runs follows.                                 *)
LEMMA TypesShown == Types => TypeOK
<1> SUFFICES ASSUME Types PROVE TypeOK
  OBVIOUS
<1>1. \A i \in DOMAIN mailbox : mailbox[i] \in Command
  BY DEF Types
<1>2. ASSUME NEW c \in Commands
      PROVE  /\ c.kind \in Kinds /\ c.from \in Session \cup {NoSession}
             /\ c.by \in {"reader", "opener", "closer", "nobody"}
  <2>1. CASE c \in Command
    BY <2>1 DEF Command, Callers
  <2>2. CASE c = Idle
    BY <2>2 DEF Idle, Kinds
  <2>3. CASE c \in Serving
    BY <2>3 DEF Serving, Callers
  <2> QED BY <1>1, <2>1, <2>2, <2>3 DEF Types, Commands
<1>3. QED BY <1>2 DEF Types, TypeOK, Openers, Readers, Shutdowns

(* What goroutines do keeps the types.                                     *)
LEMMA RunTypes ==
    ASSUME Types, NEW s \in Session, Runs(s)
    PROVE  Types'
<1> USE DEF Types, Openers, Readers, Shutdowns, Stages, Ends,
            threads, session, output, room, seats, Goes, Becomes
<1>1. CASE CloseBegins(s) \/ Unlist(s)
  BY <1>1 DEF CloseBegins, Unlist
<1>2. CASE Hook(s)
  <2>1. mailbox' \in Seq(Command) /\ Len(mailbox') <= MailboxSize
    BY <1>2, PostFacts DEF Hook, Callers, Kinds
  <2> HIDE DEF Types
  <2> QED BY <1>2, <2>1 DEF Hook, Types
<1>3. CASE Hello(s) \/ Reply(s)
  <2>1. /\ queue' \in [Session -> 0 .. SendBuffer]
        /\ asked' \in {asked, asked \cup {s}} /\ missed' \in {missed, missed \cup {s}}
    BY <1>3, SendFacts DEF Hello, Reply
  <2>2. opener' \in [Session -> Openers]
    <3>1. UNCHANGED opener \/ \E at \in {"closing", "opened"} : opener' = [opener EXCEPT ![s] = at]
      BY <1>3 DEF Hello, Reply
    <3> QED BY <3>1
  <2>3. reader' \in [Session -> Readers]
    <3>1. UNCHANGED reader \/ reader' = [reader EXCEPT ![s] = "reading"]
      BY <1>3 DEF Hello, Reply
    <3> QED BY <3>1
  <2>4. UNCHANGED <<writer, stage, up, registered, requests, room, shutdown>>
    BY <1>3 DEF Hello, Reply
  <2> QED BY <2>1, <2>2, <2>3, <2>4
<1>4. CASE Rebind(s)
  <2>1. mailbox' \in Seq(Command) /\ Len(mailbox') <= MailboxSize
    BY <1>4, PostFacts DEF Rebind, Callers, Kinds
  <2>2. requests' \in 0 .. MaxRequests
    BY <1>4, ConnectionsAssumption DEF Rebind
  <2>3. opener' \in [Session -> Openers]
    <3>1. \E at \in {"asking", "ended"} : opener' = [opener EXCEPT ![s] = at]
      BY <1>4 DEF Rebind
    <3>2. opener \in [Session -> Openers]
      OBVIOUS
    <3> HIDE DEF Types
    <3> QED BY <3>1, <3>2
  <2>4. UNCHANGED <<reader, writer, session, output, loop, seats, shutdown>>
    BY <1>4 DEF Rebind
  <2> QED BY <2>1, <2>2, <2>3, <2>4
<1>5. CASE Ask(s)
  <2>1. mailbox' \in Seq(Command) /\ Len(mailbox') <= MailboxSize
    <3>1. UNCHANGED mailbox \/ \E kind \in Kinds : Accepts /\ Post(kind, s, "reader")
      BY <1>5 DEF Ask, Kinds
    <3>2. "reader" \in Callers
      BY DEF Callers
    <3> QED BY <3>1, <3>2, PostFacts
  <2>2. index' \in SUBSET Session
    BY <1>5 DEF Ask, Forgets
  <2>3. reader' \in [Session -> Readers]
    <3>1. \E at \in {"asking", "reading", "refused"} : reader' = [reader EXCEPT ![s] = at]
      BY <1>5 DEF Ask, AfterCall
    <3>2. reader \in [Session -> Readers]
      OBVIOUS
    <3> HIDE DEF Types
    <3> QED BY <3>1, <3>2
  <2>4. UNCHANGED <<opener, writer, session, output, requests, loop, bound, playing, returned, shutdown>>
    BY <1>5 DEF Ask
  <2> QED BY <2>1, <2>2, <2>3, <2>4
<1>6. CASE TakeMessage(s) \/ WriterStops(s) \/ Written(s) \/ WriteFails(s)
  <2>1. queue' \in [Session -> 0 .. SendBuffer]
    <3>1. queue' = queue \/ (queue[s] > 0 /\ queue' = [queue EXCEPT ![s] = @ - 1])
      BY <1>6 DEF TakeMessage, WriterStops, Written, WriteFails
    <3>2. queue \in [Session -> 0 .. SendBuffer] /\ SendBuffer \in Nat
      BY ConnectionsAssumption
    <3> HIDE DEF Types
    <3> QED BY <3>1, <3>2
  <2>2. writer' \in [Session -> {"off", "idle", "writing", "closing", "ended"}] /\ up' \in SUBSET Session
    BY <1>6 DEF TakeMessage, WriterStops, Written, WriteFails
  <2>3. UNCHANGED <<opener, reader, asked, stage, registered, missed, requests, room, shutdown>>
    BY <1>6 DEF TakeMessage, WriterStops, Written, WriteFails
  <2> QED BY <2>1, <2>2, <2>3
<1>7. CASE Broadcast(s)
  <2>1. loop \in Serving
    BY <1>7 DEF Broadcast, Idle
  <2>2. loop' \in Serving
    BY <1>7, <2>1 DEF Broadcast, Sent, Serving
  <2>3. /\ queue' \in [Session -> 0 .. SendBuffer]
        /\ asked' \in SUBSET Session /\ missed' \in SUBSET Session
    <3>1. Send(s)
      BY <1>7 DEF Broadcast
    <3>2. /\ queue' \in [Session -> 0 .. SendBuffer]
          /\ asked' \in {asked, asked \cup {s}} /\ missed' \in {missed, missed \cup {s}}
      BY <3>1, SendFacts
    <3> QED BY <3>2
  <2>4. UNCHANGED <<threads, stage, up, registered, requests, mailbox, seats, shutdown>>
    BY <1>7 DEF Broadcast
  <2> QED BY <2>2, <2>3, <2>4
<1>8. CASE CloseNext(s)
  <2>1. shutdown' \in Shutdowns
    <3>1. shutdown \in Shutdowns
      OBVIOUS
    <3>2. shutdown' = [shutdown EXCEPT !.at = s, !.left = @ \ {s}]
      BY <1>8 DEF CloseNext
    <3> HIDE DEF Types
    <3> QED BY <3>1, <3>2
  <2>2. UNCHANGED <<threads, session, output, requests, room>>
    BY <1>8 DEF CloseNext
  <2> QED BY <2>1, <2>2
<1>9. CASE StartPumps(s)
  BY <1>9 DEF StartPumps
<1>10. QED
  BY <1>1, <1>2, <1>3, <1>4, <1>5, <1>6, <1>7, <1>8, <1>9 DEF Runs, Closing

(* What clients and slow rooms do keeps the types.                         *)
LEMMA HappenTypes ==
    ASSUME Types, NEW s \in Session, Happens(s)
    PROVE  Types'
<1> USE DEF Types, Openers, Readers, threads, session, output, room, seats, Goes, Becomes, Stages, Ends
<1>1. CASE New(s)
  BY <1>1 DEF New
<1>2. CASE Read(s) \/ ReadFails(s) \/ HookGivesUp(s)
  <2>1. requests' \in 0 .. MaxRequests
    BY <1>2, ConnectionsAssumption DEF Read, ReadFails, HookGivesUp
  <2>2. /\ reader' \in [Session -> Readers]
        /\ stage' \in [Session -> Stages]
    BY <1>2 DEF Read, ReadFails, HookGivesUp
  <2>3. UNCHANGED <<opener, writer, asked, up, registered, output, room, shutdown>>
    BY <1>2 DEF Read, ReadFails, HookGivesUp
  <2> QED BY <2>1, <2>2, <2>3
<1>3. CASE GivesUp(s)
  <2>1. mailbox' \in Seq(Command) /\ Len(mailbox') <= MailboxSize /\ (loop' = Idle \/ loop' \in Serving)
    BY <1>3, LeavesFacts DEF GivesUp
  <2>2. index' \in SUBSET Session
    BY <1>3 DEF GivesUp, Forgets
  <2>3. reader' \in [Session -> Readers]
    <3>1. UNCHANGED reader \/ \E at \in {"reading", "refused"} : reader' = [reader EXCEPT ![s] = at]
      BY <1>3 DEF GivesUp, AfterCall
    <3> QED BY <3>1
  <2> QED BY <1>3, <2>1, <2>2, <2>3 DEF GivesUp
<1>4. QED BY <1>1, <1>2, <1>3 DEF Happens

(* The room and CloseAll keep the types.                                   *)
LEMMA RoomTypes ==
    ASSUME Types, Serve \/ Answer \/ ShutdownBegins \/ ShutdownEnds
    PROVE  Types'
<1>1. CASE Serve
  <2>1. mailbox' \in Seq(Command) /\ Len(mailbox') <= MailboxSize
    BY <1>1, ServeFacts, ConnectionsAssumption DEF Types
  <2>2. loop' \in Serving /\ bound' \in SUBSET Session
    BY <1>1, ServeFacts DEF Types, Serving, Command
  <2>3. playing' \in BOOLEAN /\ index' \in SUBSET Session /\ returned' \in SUBSET Session
    BY <1>1, <2>2, ServeFacts DEF Types
  <2> QED BY <1>1, <2>1, <2>2, <2>3 DEF Serve, Types, threads, session, output
<1>2. CASE Answer
  <2>1. reader' \in [Session -> Readers]
    BY <1>2, AnswerFacts DEF Types, Readers
  <2>2. opener' \in [Session -> Openers]
    <3>1. opener \in [Session -> Openers]
      BY DEF Types
    <3>2. opener' = opener \/ opener' = [opener EXCEPT ![loop.from] = "ended"]
      BY <1>2, AnswerFacts
    <3> QED BY <3>1, <3>2 DEF Openers
  <2>3. stage' \in [Session -> Stages]
    <3>1. stage \in [Session -> Stages] /\ "done" \in Stages
      BY DEF Types, Stages, Ends
    <3>2. stage' = stage \/ stage' = [stage EXCEPT ![loop.from] = "done"]
      BY <1>2, AnswerFacts
    <3> QED BY <3>1, <3>2
  <2>4. index' \in SUBSET Session
    BY <1>2, AnswerFacts
  <2> QED BY <1>2, <2>1, <2>2, <2>3, <2>4 DEF Answer, Types, output
<1>3. CASE ShutdownBegins \/ ShutdownEnds
  <2>1. shutdown' \in Shutdowns
    <3>1. /\ shutdown \in Shutdowns
          /\ registered \in SUBSET Session
      BY DEF Types
    <3>2. \/ shutdown' = [at |-> "next", left |-> registered, all |-> registered]
          \/ shutdown' = [shutdown EXCEPT !.at = "over"]
      BY <1>3 DEF ShutdownBegins, ShutdownEnds
    <3> QED BY <3>1, <3>2 DEF Shutdowns
  <2>2. UNCHANGED <<threads, session, output, requests, room>>
    BY <1>3 DEF ShutdownBegins, ShutdownEnds
  <2> QED BY <2>1, <2>2 DEF Types, threads, session, output, room, seats
<1>4. QED BY <1>1, <1>2, <1>3

(* The types hold at the start.                                            *)
LEMMA InitTypes == Init => Types
<1> SUFFICES ASSUME Init PROVE Types
  OBVIOUS
<1>1. up \in SUBSET Session /\ playing \in BOOLEAN /\ index \in SUBSET Session
  BY ConnectionsAssumption DEF Init
<1>2. <<>> \in Seq(Command) /\ Len(<<>>) = 0
  OBVIOUS
<1>3. QED
  BY <1>1, <1>2, ConnectionsAssumption DEF Init, Types, Openers, Readers, Shutdowns, Stages, Ends

-----------------------------------------------------------------------------
(* Once a connection is opened it stays so: no identifier is used again.   *)
LEMMA StillOpened ==
    ASSUME Types, [Next]_vars, NEW s \in Session, opener[s] # "new"
    PROVE  opener'[s] # "new"
<1>1. CASE Answer
  BY <1>1, AnswerFacts DEF Types, Serving
<1>2. ASSUME NEW t \in Session, StartPumps(t) \/ Hello(t) PROVE opener'[s] # "new"
  <2>1. \E at \in {"hello", "closing", "opened"} : opener' = [opener EXCEPT ![t] = at]
    BY <1>2 DEF StartPumps, Hello, Goes
  <2> QED BY <2>1 DEF Types
<1>3. ASSUME NEW t \in Session, New(t) \/ Rebind(t) \/ GivesUp(t) PROVE opener'[s] # "new"
  BY <1>3 DEF New, Rebind, GivesUp, Goes, Types
<1>4. \/ UNCHANGED opener \/ Answer
      \/ \E t \in Session : StartPumps(t) \/ Hello(t) \/ New(t) \/ Rebind(t) \/ GivesUp(t)
  BY DEF Next, Runs, Happens, Closing, CloseBegins, Unlist, Hook, Reply, Ask, TakeMessage, WriterStops,
         Written, WriteFails, Broadcast, CloseNext, Read, ReadFails, HookGivesUp, Serve,
         ShutdownBegins, ShutdownEnds, threads, vars
<1>5. QED BY <1>1, <1>2, <1>3, <1>4

(* Except for New, only a connection that has been opened takes a step.    *)
LEMMA ActsOnOpened ==
    ASSUME Types, OnlyOpened, NEW s \in Session, Runs(s) \/ Happens(s), ~New(s)
    PROVE  opener[s] # "new"
<1> SUFFICES ASSUME opener[s] = "new" PROVE FALSE
  OBVIOUS
<1>1. /\ reader[s] = "off" /\ writer[s] = "off" /\ stage[s] = "open" /\ s \notin asked
      /\ shutdown.at # s /\ s \notin shutdown.left /\ (loop.at = "serving" => s \notin loop.to)
  BY DEF OnlyOpened, Opened
<1>2. CASE Runs(s)
  BY <1>1, <1>2 DEF Runs, Closing, CloseBegins, ClosedBy, Unlist, Hook, Becomes, StartPumps, Hello,
     Rebind, Reply, Ask, TakeMessage, WriterStops, Written, WriteFails, Broadcast, CloseNext
<1>3. CASE Happens(s)
  BY <1>1, <1>3 DEF Happens, Read, ReadFails, HookGivesUp, GivesUp, Becomes
<1>4. QED BY <1>2, <1>3

(* A step of one connection touches no other, and adds to the sets of the  *)
(* session manager at most itself.                                         *)
LEMMA FrameOfRun ==
    ASSUME Types, NEW s \in Session, Runs(s) \/ Happens(s)
    PROVE  /\ \A t \in Session : t # s => /\ opener'[t] = opener[t] /\ reader'[t] = reader[t]
                                          /\ writer'[t] = writer[t] /\ stage'[t] = stage[t]
           /\ asked' \subseteq asked \cup {s} /\ registered' \subseteq registered \cup {s}
           /\ UNCHANGED <<bound, returned>> /\ shutdown'.left \subseteq shutdown.left
           /\ shutdown'.at \in {shutdown.at, s}
<1> USE DEF Types, Openers, Readers, Shutdowns, threads, session, output, room, seats, Goes, Becomes
<1>1. CASE Closing(s)
  BY <1>1 DEF Closing, CloseBegins, Unlist, Hook
<1>2. CASE Hello(s)
  <2>1. \E at \in {"closing", "opened"} : opener' = [opener EXCEPT ![s] = at]
    BY <1>2 DEF Hello
  <2> QED BY <1>2, <2>1, SendFacts DEF Hello
<1>3. CASE Reply(s) \/ Broadcast(s)
  BY <1>3, SendFacts DEF Reply, Broadcast
<1>4. CASE Rebind(s) \/ Ask(s)
  BY <1>4 DEF Rebind, Ask
<1>5. CASE TakeMessage(s) \/ WriterStops(s) \/ Written(s) \/ WriteFails(s)
  BY <1>5 DEF TakeMessage, WriterStops, Written, WriteFails
<1>6. CASE CloseNext(s)
  <2>1. shutdown' = [shutdown EXCEPT !.at = s, !.left = @ \ {s}]
    BY <1>6 DEF CloseNext
  <2> QED BY <1>6, <2>1 DEF CloseNext
<1>7. CASE New(s)
  BY <1>7 DEF New
<1>8. CASE Read(s) \/ ReadFails(s) \/ HookGivesUp(s) \/ GivesUp(s)
  BY <1>8 DEF Read, ReadFails, HookGivesUp, GivesUp
<1>9. CASE StartPumps(s)
  BY <1>9 DEF StartPumps
<1>10. QED
  BY <1>1, <1>2, <1>3, <1>4, <1>5, <1>6, <1>7, <1>8, <1>9 DEF Runs, Happens

(* What a step of a connection may do to the room: nothing, post a         *)
(* command, take the name off one, or have one more message sent.          *)
LEMMA MailOfRun ==
    ASSUME Types, NEW s \in Session, Runs(s) \/ Happens(s)
    PROVE  \/ UNCHANGED <<mailbox, loop>>
           \/ /\ Hook(s) /\ Becomes(s, "unlisted", "waiting") /\ Accepts
              /\ Post("disconnect", s, "closer") /\ loop' = loop
           \/ /\ \E kind \in Kinds \ {"disconnect"}, by \in {"reader", "opener"} :
                    Accepts /\ Post(kind, s, by)
              /\ loop' = loop /\ stage' = stage
           \/ (\E by \in {"reader", "opener"} : Leaves(s, by)) /\ stage' = stage
           \/ /\ mailbox' = mailbox /\ loop.at = "serving" /\ stage' = stage
              /\ loop' = [loop EXCEPT !.to = @ \ {s}]
<1> USE DEF threads, session, output, room, seats
<1>1. CASE Hook(s)
  BY <1>1 DEF Hook
<1>2. CASE Ask(s) \/ Rebind(s)
  BY <1>2 DEF Ask, Rebind, Kinds
<1>3. CASE GivesUp(s)
  BY <1>3 DEF GivesUp
<1>4. CASE Broadcast(s)
  BY <1>4 DEF Broadcast, Sent
<1>5. CASE Runs(s) /\ ~Hook(s) /\ ~Ask(s) /\ ~Rebind(s) /\ ~Broadcast(s)
  BY <1>5 DEF Runs, Closing, CloseBegins, Unlist, StartPumps, Hello, Reply, TakeMessage, WriterStops, Written,
         WriteFails, CloseNext
<1>6. CASE Happens(s) /\ ~GivesUp(s)
  BY <1>6 DEF Happens, New, Read, ReadFails, HookGivesUp
<1>7. QED BY <1>1, <1>2, <1>3, <1>4, <1>5, <1>6

(* The steps of the connections reach only what is opened.                 *)
LEMMA OpenedByRun ==
    ASSUME Types, Types', OnlyOpened, NEW s \in Session, Runs(s) \/ Happens(s)
    PROVE  OnlyOpened'
<1>0. Opened \subseteq Opened' /\ s \in Opened'
  <2>1. [Next]_vars
    BY DEF Next
  <2>2. Opened \subseteq Opened'
    BY <2>1, StillOpened DEF Opened
  <2>3. CASE New(s)
    BY <2>2, <2>3 DEF Opened, New, Goes, Types
  <2>4. CASE ~New(s)
    BY <2>2, <2>4, ActsOnOpened DEF Opened
  <2> QED BY <2>2, <2>3, <2>4
<1>1. \A t \in Session :
         opener'[t] = "new" => reader'[t] = "off" /\ writer'[t] = "off" /\ stage'[t] = "open"
  BY <1>0, FrameOfRun DEF OnlyOpened, Opened
<1>2. asked' \subseteq Opened' /\ bound' \subseteq Opened' /\ registered' \subseteq Opened'
  BY <1>0, FrameOfRun DEF OnlyOpened
<1>3. shutdown'.left \subseteq Opened' /\ (shutdown'.at \in Session => shutdown'.at \in Opened')
  BY <1>0, FrameOfRun, ConnectionsAssumption DEF OnlyOpened
<1>4. \A i \in DOMAIN mailbox' : mailbox'[i].from \in Opened'
  <2>1. CASE \E kind \in Kinds, by \in Callers : Accepts /\ Post(kind, s, by)
    <3>1. PICK kind \in Kinds, by \in Callers : Accepts /\ Post(kind, s, by)
      BY <2>1
    <3>2. /\ DOMAIN mailbox = 1 .. Len(mailbox) /\ Len(mailbox) \in Nat
          /\ DOMAIN mailbox' = 1 .. Len(mailbox) + 1
          /\ \A i \in DOMAIN mailbox : mailbox'[i] = mailbox[i]
          /\ mailbox'[Len(mailbox) + 1] = [kind |-> kind, from |-> s, by |-> by]
      BY <3>1, PostFacts
    <3>3. \A i \in DOMAIN mailbox' : i \in DOMAIN mailbox \/ i = Len(mailbox) + 1
      BY <3>2
    <3> QED BY <1>0, <3>2, <3>3 DEF OnlyOpened
  <2>2. CASE \E by \in {"reader", "opener"} : Leaves(s, by)
    BY <1>0, <2>2, LeavesFacts DEF OnlyOpened
  <2>3. CASE UNCHANGED mailbox
    BY <1>0, <2>3 DEF OnlyOpened
  <2> QED BY <2>1, <2>2, <2>3, MailOfRun DEF Callers, Kinds
<1>5. loop'.at = "serving" => loop'.from \in Opened' /\ loop'.to \subseteq Opened'
  <2>1. CASE loop' = loop
    BY <1>0, <2>1 DEF OnlyOpened
  <2>2. CASE \E by \in {"reader", "opener"} : Leaves(s, by)
    BY <1>0, <2>2, LeavesFacts DEF OnlyOpened
  <2>3. CASE loop.at = "serving" /\ loop' = [loop EXCEPT !.to = @ \ {s}]
    <3>1. loop \in Serving
      BY <2>3 DEF Types, Idle
    <3>2. loop'.from = loop.from /\ loop'.to \subseteq loop.to
      BY <2>3, <3>1 DEF Serving
    <3> QED BY <1>0, <2>3, <3>2 DEF OnlyOpened
  <2> QED BY <2>1, <2>2, <2>3, MailOfRun
<1>6. QED BY <1>1, <1>2, <1>3, <1>4, <1>5 DEF OnlyOpened

(* So do the room and CloseAll.                                            *)
LEMMA OpenedByRoom ==
    ASSUME Types, Types', OnlyOpened, Serve \/ Answer \/ ShutdownBegins \/ ShutdownEnds
    PROVE  OnlyOpened'
<1> USE DEF OnlyOpened, threads, session, output, room, seats
<1>0. Opened \subseteq Opened'
  BY StillOpened DEF Opened, Next
<1>1. CASE Serve
  <2>1. mailbox[1].from \in Opened /\ bound' \subseteq Opened /\ UNCHANGED <<threads, session, shutdown>>
    BY <1>1, ServeFacts DEF Serve
  <2>2. \A i \in DOMAIN mailbox' : mailbox'[i].from \in Opened
    BY <1>1, ServeFacts
  <2>3. loop'.from \in Opened /\ loop'.to \subseteq Opened
    BY <1>1, <2>1, ServeFacts
  <2> QED BY <2>1, <2>2, <2>3 DEF Opened
<1>2. CASE Answer
  <2>1. /\ loop.from \in Opened /\ loop'.at = "idle"
        /\ UNCHANGED <<writer, asked, up, registered, mailbox, bound, shutdown>>
    BY <1>2 DEF Answer, Idle
  <2>2. \A t \in Session :
           t # loop.from => opener'[t] = opener[t] /\ reader'[t] = reader[t] /\ stage'[t] = stage[t]
    <3>1. /\ opener \in [Session -> Openers]
          /\ reader \in [Session -> Readers]
          /\ stage \in [Session -> Stages]
      BY DEF Types
    <3>2. /\ \E at \in {"reading", "refused"} :
                reader' = reader \/ reader' = [reader EXCEPT ![loop.from] = at]
          /\ \E at \in {"ended"} : opener' = opener \/ opener' = [opener EXCEPT ![loop.from] = at]
          /\ \E at \in {"done"} : stage' = stage \/ stage' = [stage EXCEPT ![loop.from] = at]
      BY <1>2, AnswerFacts
    <3> HIDE DEF Types
    <3> QED BY <3>1, <3>2
  <2>3. opener'[loop.from] # "new"
    BY <1>0, <2>1 DEF Opened
  <2> QED BY <1>0, <2>1, <2>2, <2>3 DEF Opened
<1>3. CASE ShutdownBegins \/ ShutdownEnds
  <2>1. /\ UNCHANGED <<threads, session, room>>
        /\ shutdown'.left \subseteq Opened /\ shutdown'.at \in {"next", "over"}
    <3>1. shutdown \in Shutdowns
      BY DEF Types
    <3>2. \/ shutdown' = [at |-> "next", left |-> registered, all |-> registered]
          \/ shutdown' = [shutdown EXCEPT !.at = "over"]
      BY <1>3 DEF ShutdownBegins, ShutdownEnds
    <3>3. UNCHANGED <<threads, session, room>>
      BY <1>3 DEF ShutdownBegins, ShutdownEnds
    <3> QED BY <3>1, <3>2, <3>3 DEF Shutdowns
  <2> QED BY <2>1, ConnectionsAssumption DEF Opened
<1>4. QED BY <1>1, <1>2, <1>3

(* So does the start.                                                      *)
LEMMA InitOpened == Init => OnlyOpened
BY ConnectionsAssumption DEF Init, OnlyOpened, Opened, Idle

-----------------------------------------------------------------------------
(* Every step keeps the registry true: New lists a connection before its   *)
(* goroutines run, and only Unlist, in the one run of Close, takes it off. *)
LEMMA RegistryKept ==
    ASSUME Types, Types', OnlyOpened, RegistryIsTrue, [Next]_vars
    PROVE  RegistryIsTrue'
<1> USE DEF RegistryIsTrue, threads, session, output, room, seats
<1>1. ASSUME NEW s \in Session, Runs(s) \/ Happens(s) PROVE RegistryIsTrue'
  <2>1. CASE New(s)
    BY <2>1 DEF New, Goes, OnlyOpened, Types
  <2>2. CASE ~New(s)
    <3>1. opener[s] # "new" /\ opener'[s] # "new"
      BY <1>1, <2>2, ActsOnOpened, StillOpened DEF Next
    <3>2. \A t \in Session : t # s => opener'[t] = opener[t] /\ stage'[t] = stage[t]
      BY <1>1, FrameOfRun
    <3>3. CASE Unlist(s)
      BY <3>1, <3>2, <3>3 DEF Unlist, Becomes, Types
    <3>4. CASE CloseBegins(s)
      BY <3>1, <3>2, <3>4 DEF CloseBegins, Becomes, Types
    <3>5. CASE Hook(s) \/ HookGivesUp(s)
      BY <3>1, <3>2, <3>5 DEF Hook, HookGivesUp, Becomes, Types
    <3>6. CASE ~Unlist(s) /\ ~CloseBegins(s) /\ ~Hook(s) /\ ~HookGivesUp(s)
      <4>1. UNCHANGED <<stage, registered>>
        BY <1>1, <2>2, <3>6 DEF Runs, Happens, Closing, StartPumps, Hello, Rebind, Reply, Ask,
           TakeMessage, WriterStops, Written, WriteFails, Broadcast, CloseNext, Read, ReadFails, GivesUp
      <4> QED BY <3>1, <3>2, <4>1
    <3> QED BY <3>3, <3>4, <3>5, <3>6
  <2> QED BY <2>1, <2>2
<1>2. CASE Answer
  <2>1. /\ UNCHANGED registered
        /\ \A s \in Session : \/ stage'[s] = stage[s]
                              \/ stage[s] = "waiting" /\ stage'[s] = "done"
    BY <1>2 DEF Answer, Types
  <2>2. \A s \in Session : opener[s] = "new" => opener'[s] = "new"
    <3>1. \/ opener' = opener
          \/ opener[loop.from] = "asking" /\ opener' = [opener EXCEPT ![loop.from] = "ended"]
      BY <1>2, AnswerFacts
    <3>2. opener \in [Session -> Openers]
      BY DEF Types
    <3> QED BY <3>1, <3>2
  <2>3. \A s \in Session : opener[s] # "new" => opener'[s] # "new"
    BY StillOpened
  <2> QED BY <2>1, <2>2, <2>3
<1>3. CASE Serve \/ ShutdownBegins \/ ShutdownEnds \/ UNCHANGED vars
  BY <1>3 DEF Serve, ShutdownBegins, ShutdownEnds, vars
<1>4. QED BY <1>1, <1>2, <1>3 DEF Next

-----------------------------------------------------------------------------
(* Only the room ends the wait of Close for it, and an end of Close stays. *)
LEMMA StageOfRun ==
    ASSUME Types, NEW s \in Session, Runs(s) \/ Happens(s), NEW t \in Session
    PROVE  /\ stage'[t] = "done" => stage[t] = "done"
           /\ Over(t) => Over(t)'
<1>1. CASE Closing(s) \/ HookGivesUp(s)
  BY <1>1 DEF Closing, CloseBegins, Unlist, Hook, HookGivesUp, Becomes, Over, Ends, Types
<1>2. CASE ~(Closing(s) \/ HookGivesUp(s))
  <2>1. UNCHANGED stage
    BY <1>2 DEF Runs, Happens, StartPumps, Hello, Rebind, Reply, Ask, TakeMessage, WriterStops, Written,
       WriteFails, Broadcast, CloseNext, New, Read, ReadFails, GivesUp, session
  <2> QED BY <2>1 DEF Over
<1>3. QED BY <1>1, <1>2

(* No step of a connection turns another command into a disconnect.        *)
LEMMA HangsUpByRun ==
    ASSUME Types, OnlyCloseHangsUp, NEW s \in Session, Runs(s) \/ Happens(s)
    PROVE  OnlyCloseHangsUp'
<1> USE DEF OnlyCloseHangsUp
<1>1. CASE UNCHANGED <<mailbox, loop>>
  BY <1>1
<1>2. CASE /\ \E kind \in Kinds, by \in Callers :
                 Accepts /\ Post(kind, s, by) /\ (kind = "disconnect" <=> by = "closer")
           /\ loop' = loop
  <2>1. PICK kind \in Kinds, by \in Callers :
           Accepts /\ Post(kind, s, by) /\ (kind = "disconnect" <=> by = "closer")
    BY <1>2
  <2>2. /\ DOMAIN mailbox = 1 .. Len(mailbox) /\ Len(mailbox) \in Nat
        /\ DOMAIN mailbox' = 1 .. Len(mailbox) + 1
        /\ \A i \in DOMAIN mailbox : mailbox'[i] = mailbox[i]
        /\ mailbox'[Len(mailbox) + 1] = [kind |-> kind, from |-> s, by |-> by]
    BY <2>1, PostFacts
  <2>3. \A i \in DOMAIN mailbox' : i \in DOMAIN mailbox \/ i = Len(mailbox) + 1
    BY <2>2
  <2> QED BY <1>2, <2>1, <2>2, <2>3
<1>3. CASE \E by \in {"reader", "opener"} : Leaves(s, by)
  BY <1>3, LeavesFacts
<1>4. CASE mailbox' = mailbox /\ loop.at = "serving" /\ loop' = [loop EXCEPT !.to = @ \ {s}]
  <2>1. loop \in Serving
    BY <1>4 DEF Types, Idle
  <2> QED BY <1>4, <2>1 DEF Serving
<1>5. QED BY <1>1, <1>2, <1>3, <1>4, MailOfRun DEF Callers, Kinds

(* What the room serves it takes from the mailbox as it is.                *)
LEMMA HangsUpByRoom ==
    ASSUME Types, OnlyCloseHangsUp, Serve \/ Answer \/ ShutdownBegins \/ ShutdownEnds \/ UNCHANGED vars
    PROVE  OnlyCloseHangsUp'
<1> USE DEF OnlyCloseHangsUp
<1>1. CASE Serve
  <2>1. loop'.kind = mailbox[1].kind /\ loop'.by = mailbox[1].by /\ 1 \in DOMAIN mailbox
    BY <1>1, ServeFacts
  <2>2. \A i \in DOMAIN mailbox' : i + 1 \in DOMAIN mailbox /\ mailbox'[i] = mailbox[i + 1]
    BY <1>1, ServeFacts
  <2> QED BY <2>1, <2>2
<1>2. CASE Answer
  BY <1>2, AnswerFacts DEF Idle
<1>3. CASE ShutdownBegins \/ ShutdownEnds \/ UNCHANGED vars
  BY <1>3 DEF ShutdownBegins, ShutdownEnds, vars, room
<1>4. QED BY <1>1, <1>2, <1>3

(* A connection changes no seat, and Close is not done by a step of its own *)
(* goroutines: only the room's answer says that the disconnect was served. *)
LEMMA GoneByRun ==
    ASSUME Types, SeatIsGone, NEW s \in Session, Runs(s) \/ Happens(s)
    PROVE  SeatIsGone'
<1>1. UNCHANGED <<bound, returned>> /\ \A t \in Session : stage'[t] = "done" => stage[t] = "done"
  BY FrameOfRun, StageOfRun
<1>2. loop'.kind = loop.kind /\ loop'.from = loop.from
  <2>1. CASE loop' = loop
    BY <2>1
  <2>2. CASE \E by \in {"reader", "opener"} : Leaves(s, by)
    BY <2>2, LeavesFacts
  <2>3. CASE loop.at = "serving" /\ loop' = [loop EXCEPT !.to = @ \ {s}]
    <3>1. loop \in Serving
      BY <2>3 DEF Types, Idle
    <3> QED BY <2>3, <3>1 DEF Serving
  <2> QED BY <2>1, <2>2, <2>3, MailOfRun
<1>3. QED BY <1>1, <1>2 DEF SeatIsGone, Types

(* The room takes the seat when it serves the disconnect and seats nobody  *)
(* until it has answered.                                                  *)
LEMMA GoneByRoom ==
    ASSUME Types, OnlyCloseHangsUp, SeatIsGone,
           Serve \/ Answer \/ ShutdownBegins \/ ShutdownEnds \/ UNCHANGED vars
    PROVE  SeatIsGone'
<1> USE DEF SeatIsGone
<1>1. CASE Serve
  <2>1. /\ loop'.kind = mailbox[1].kind /\ loop'.from = mailbox[1].from
        /\ mailbox[1].kind = "disconnect" => bound' = bound \ {mailbox[1].from}
        /\ returned' = (returned \cap bound') \cup {s \in bound' \ bound : stage[s] = "done"}
    BY <1>1, ServeFacts
  <2>2. UNCHANGED stage
    BY <1>1 DEF Serve, session
  <2> QED BY <2>1, <2>2
<1>2. CASE Answer
  <2>1. /\ UNCHANGED <<bound, returned>> /\ loop'.kind # "disconnect"
        /\ \A s \in Session : stage'[s] = stage[s] \/ (loop.by = "closer" /\ s = loop.from)
    BY <1>2 DEF Answer, Types, Idle
  <2> QED BY <2>1 DEF OnlyCloseHangsUp, Types
<1>3. CASE ShutdownBegins \/ ShutdownEnds \/ UNCHANGED vars
  BY <1>3 DEF ShutdownBegins, ShutdownEnds, vars, room, seats, session
<1>4. QED BY <1>1, <1>2, <1>3

(* CloseAll goes from one connection to the next only when Close of the    *)
(* first has returned.                                                     *)
LEMMA InTurnKept ==
    ASSUME Types, ClosedInTurn, [Next]_vars
    PROVE  ClosedInTurn'
<1>1. ASSUME NEW s \in Session, Runs(s) \/ Happens(s) PROVE ClosedInTurn'
  <2>0. \A t \in Session : Over(t) => Over(t)'
    BY <1>1, StageOfRun
  <2>1. CASE CloseNext(s)
    <3>1. shutdown'.at = s /\ shutdown'.left = shutdown.left \ {s} /\ shutdown'.all = shutdown.all
      BY <2>1 DEF CloseNext, Types, Shutdowns
    <3>2. shutdown.at = "next" \/ \E t \in Session : shutdown.at = t /\ Over(t)
      BY <2>1 DEF CloseNext, NextIsDue, CloseReturns
    <3> QED BY <2>0, <3>1, <3>2, ConnectionsAssumption DEF ClosedInTurn, Types, Shutdowns
  <2>2. CASE ~CloseNext(s)
    <3>1. UNCHANGED shutdown
      BY <1>1, <2>2 DEF Runs, Happens, Closing, CloseBegins, Unlist, Hook, StartPumps, Hello, Rebind, Reply,
         Ask, TakeMessage, WriterStops, Written, WriteFails, Broadcast, New, Read, ReadFails, HookGivesUp,
         GivesUp
    <3> QED BY <2>0, <3>1 DEF ClosedInTurn, Types, Shutdowns
  <2> QED BY <2>1, <2>2
<1>2. CASE Serve \/ UNCHANGED vars
  BY <1>2 DEF Serve, vars, session, ClosedInTurn, Over
<1>3. CASE Answer
  <2>1. UNCHANGED shutdown /\ \A t \in Session : Over(t) => Over(t)'
    BY <1>3 DEF Answer, Types, Over, Ends
  <2> QED BY <2>1 DEF ClosedInTurn, Types, Shutdowns
<1>4. CASE ShutdownBegins
  BY <1>4 DEF ShutdownBegins, ClosedInTurn
<1>5. CASE ShutdownEnds
  <2>1. /\ shutdown'.at = "over" /\ shutdown'.left = {} /\ shutdown'.all = shutdown.all
        /\ shutdown.left = {} /\ UNCHANGED stage
    BY <1>5 DEF ShutdownEnds, Types, Shutdowns, session
  <2>2. shutdown.at = "next" \/ \E t \in Session : shutdown.at = t /\ Over(t)
    BY <1>5 DEF ShutdownEnds, NextIsDue, CloseReturns
  <2> QED BY <2>1, <2>2, ConnectionsAssumption DEF ClosedInTurn, Types, Shutdowns, Over
<1>6. QED BY <1>1, <1>2, <1>3, <1>4, <1>5 DEF Next

(* What is true of every state: all of the above.                          *)
Invariants == /\ Types /\ OnlyOpened /\ RegistryIsTrue
              /\ OnlyCloseHangsUp /\ SeatIsGone /\ ClosedInTurn

(* The inductive invariant.  RegistryIsTrue is inductive beside            *)
(* OnlyOpened; SeatIsGone, which needs OnlyCloseHangsUp, and ClosedInTurn  *)
(* are what ShutdownWaitsForRooms rests on.                                *)
THEOREM ConnectionsInvariant == Spec => []Invariants
<1>1. Init => Invariants
  <2> SUFFICES ASSUME Init PROVE Invariants
    OBVIOUS
  <2>1. RegistryIsTrue
    BY InitTypes DEF Init, RegistryIsTrue, Types
  <2>2. OnlyCloseHangsUp /\ SeatIsGone
    BY ConnectionsAssumption DEF Init, OnlyCloseHangsUp, SeatIsGone, Idle
  <2>3. ClosedInTurn
    BY DEF Init, ClosedInTurn
  <2> QED BY <2>1, <2>2, <2>3, InitTypes, InitOpened DEF Invariants
<1>2. Invariants /\ [Next]_vars => Invariants'
  <2> SUFFICES ASSUME Types, OnlyOpened, RegistryIsTrue, OnlyCloseHangsUp, SeatIsGone, ClosedInTurn,
                      [Next]_vars
               PROVE  Invariants'
    BY DEF Invariants
  <2>1. Types'
    <3>1. CASE UNCHANGED vars
      BY <3>1 DEF vars, threads, session, output, room, seats, Types
    <3> QED BY <3>1, RunTypes, HappenTypes, RoomTypes DEF Next
  <2>2. OnlyOpened'
    <3>1. CASE UNCHANGED vars
      BY <3>1 DEF vars, threads, session, output, room, seats, OnlyOpened, Opened
    <3> QED BY <2>1, <3>1, OpenedByRun, OpenedByRoom DEF Next
  <2>3. RegistryIsTrue'
    BY <2>1, RegistryKept
  <2>4. OnlyCloseHangsUp' /\ SeatIsGone'
    BY HangsUpByRun, HangsUpByRoom, GoneByRun, GoneByRoom DEF Next
  <2> QED BY <2>1, <2>2, <2>3, <2>4, InTurnKept DEF Invariants
<1>3. QED BY <1>1, <1>2, PTL DEF Spec

(* Every variable keeps to its type; no queue and no mailbox is ever       *)
(* larger than its buffer, whatever the sizes.                             *)
THEOREM ConnectionsTyped == Spec => []TypeOK
<1>1. Invariants => TypeOK
  BY TypesShown DEF Invariants
<1>2. QED BY <1>1, ConnectionsInvariant, PTL

(* The session manager lists a connection exactly from its registration    *)
(* until Close has hung it up (Manager and Session.Close), for any number  *)
(* of connections and any interleaving of their goroutines.                *)
THEOREM RegistryStaysTrue == Spec => []RegistryIsTrue
<1>1. Invariants => RegistryIsTrue
  BY DEF Invariants
<1>2. QED BY <1>1, ConnectionsInvariant, PTL

(* When CloseAll returns, no connection it found has a seat, for any number *)
(* of connections, any sizes and any interleaving: a second caller of Close *)
(* waits for the first, and the first for the room.  The exceptions are the *)
(* four of the property: the room did not answer in time, its mailbox was  *)
(* full, the index did not have the seat, or the room seated the closed    *)
(* connection again.                                                       *)
THEOREM ShutdownWaited == Spec => []ShutdownWaitsForRooms
<1>1. Invariants => ShutdownWaitsForRooms
  <2> SUFFICES ASSUME Types, SeatIsGone, ClosedInTurn, shutdown.at = "over",
                      NEW s \in shutdown.all \cap bound
               PROVE  stage[s] \in {"gave_up", "turned_away", "no_room"} \/ s \in returned
    BY DEF Invariants, ShutdownWaitsForRooms
  <2>1. s \in Session /\ s # "over"
    BY ConnectionsAssumption DEF Types
  <2>2. Over(s)
    BY <2>1 DEF ClosedInTurn
  <2> QED BY <2>2 DEF Over, Ends, SeatIsGone
<1>2. QED BY <1>1, ConnectionsInvariant, PTL
=============================================================================
