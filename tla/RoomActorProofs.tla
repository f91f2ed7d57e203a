--------------------------- MODULE RoomActorProofs ---------------------------
(***************************************************************************)
(* Proofs about RoomActor for every set of players and connections and a   *)
(* mailbox of any size.  Sound holds always: the seats, the mailbox, and   *)
(* that there is at most one event of the turn and of the countdown, the   *)
(* right one.  Counting adds that there is at least one, which needs a     *)
(* mailbox that does not fill up.                                          *)
(***************************************************************************)
EXTENDS RoomActor, FiniteSetTheorems, SequenceTheorems, TLAPS

(* The seats and the round agree: a room that runs has members, its owner  *)
(* among them; a running round has a member in turn and enough members;    *)
(* nobody is managed or has abandoned before a round; and who has no seat  *)
(* left no connection and no strike behind.                                *)
SeatsFit ==
    /\ loop = "running" => members # <<>> /\ owner \in Members
    /\ Len(members) <= MaxPlayers
    /\ phase = "playing" => Len(members) >= MinPlayers /\ turnOf \in Members
    /\ phase = "waiting" => autoPlay = {} /\ abandoned = {}
    /\ \A p \in Player \ Members : session[p] = NoSession /\ strikes[p] = 0

(* What the mailbox holds: only events of timers get outdated, the stop is *)
(* the last command and came with closing, a loop that is not running      *)
(* refuses every command, and an ended one has left none.                  *)
MailFits ==
    /\ \A i \in DOMAIN mailbox : mailbox[i].live \/ mailbox[i].kind \in TurnEvents \cup EmptyEvent
    /\ \A i \in DOMAIN mailbox : mailbox[i].kind = "stop" => closing /\ i = Len(mailbox)
    /\ loop # "running" => closing
    /\ loop = "ended" => mailbox = <<>>

(* Taking one seat out of the list leaves the others, each once.           *)
LEMMA RemoveFacts ==
    ASSUME NEW seq \in Seq(Player), IsInjective(seq), NEW k \in DOMAIN seq
    PROVE  LET rest == RemoveAt(seq, k)
           IN  /\ rest \in Seq(Player) /\ IsInjective(rest)
               /\ Len(rest) = Len(seq) - 1
               /\ ToSet(rest) = ToSet(seq) \ {seq[k]}
<1> DEFINE n == Len(seq)
           u == SubSeq(seq, 1, k - 1)
           v == SubSeq(seq, k + 1, n)
           rest == u \o v
<1>1. n \in Nat /\ k \in 1 .. n /\ DOMAIN seq = 1 .. n /\ (\A i \in 1 .. n : seq[i] \in Player)
      /\ n \in Int /\ k - 1 \in Int /\ k + 1 \in Int /\ 1 \in Int
  OBVIOUS
<1>2. u \in Seq(Player) /\ Len(u) = k - 1 /\ \A i \in 1 .. k - 1 : u[i] = seq[i]
  <2>1. \A i \in 1 .. k - 1 : seq[i] \in Player
    BY <1>1
  <2>2. /\ u \in Seq(Player) /\ Len(u) = IF 1 <= k - 1 THEN k - 1 - 1 + 1 ELSE 0
        /\ \A i \in 1 .. k - 1 - 1 + 1 : u[i] = seq[1 + i - 1]
    BY ONLY <1>1, <2>1, SubSeqProperties
  <2> HIDE DEF u
  <2> QED BY <1>1, <2>2
<1>3. v \in Seq(Player) /\ Len(v) = n - k /\ \A i \in 1 .. n - k : v[i] = seq[i + k]
  <2>1. \A i \in k + 1 .. n : seq[i] \in Player
    BY <1>1
  <2>2. /\ v \in Seq(Player) /\ Len(v) = IF k + 1 <= n THEN n - (k + 1) + 1 ELSE 0
        /\ \A i \in 1 .. n - (k + 1) + 1 : v[i] = seq[k + 1 + i - 1]
    BY ONLY <1>1, <2>1, SubSeqProperties
  <2> HIDE DEF v, n
  <2>3. Len(v) = n - k
    BY <1>1, <2>2
  <2>4. ASSUME NEW i \in 1 .. n - k PROVE v[i] = seq[i + k]
    <3>1. i \in 1 .. n - (k + 1) + 1 /\ k + 1 + i - 1 = i + k
      BY <1>1
    <3> QED BY <2>2, <3>1
  <2> QED BY <2>2, <2>3, <2>4
<1> HIDE DEF u, v
<1>4. /\ rest \in Seq(Player) /\ Len(rest) = n - 1
      /\ \A i \in 1 .. n - 1 : rest[i] = IF i < k THEN seq[i] ELSE seq[i + 1]
  <2>1. /\ rest \in Seq(Player) /\ Len(rest) = Len(u) + Len(v)
        /\ \A i \in 1 .. Len(u) + Len(v) : rest[i] = IF i <= Len(u) THEN u[i] ELSE v[i - Len(u)]
    BY <1>2, <1>3, ConcatProperties
  <2> HIDE DEF rest, n
  <2>2. Len(u) + Len(v) = n - 1
    BY <1>1, <1>2, <1>3
  <2>3. ASSUME NEW i \in 1 .. n - 1 PROVE rest[i] = IF i < k THEN seq[i] ELSE seq[i + 1]
    <3>1. CASE i < k
      BY <1>1, <1>2, <2>1, <2>2, <3>1
    <3>2. CASE ~(i < k)
      <4>1. i - (k - 1) \in 1 .. n - k /\ i - (k - 1) + k = i + 1 /\ ~(i <= k - 1)
        BY <1>1, <3>2
      <4>2. rest[i] = v[i - (k - 1)]
        BY <1>1, <1>2, <2>1, <2>2, <4>1
      <4> QED BY <1>3, <3>2, <4>1, <4>2
    <3> QED BY <3>1, <3>2
  <2> QED BY <2>1, <2>2, <2>3
<1> HIDE DEF rest, n
<1>5. \A i, j \in 1 .. n : seq[i] = seq[j] => i = j
  BY <1>1 DEF IsInjective
<1>6. DOMAIN rest = 1 .. n - 1
  BY <1>1, <1>4
<1>7. IsInjective(rest)
  <2>1. ASSUME NEW i \in 1 .. n - 1, NEW j \in 1 .. n - 1, rest[i] = rest[j] PROVE i = j
    <3> DEFINE x == IF i < k THEN i ELSE i + 1
               y == IF j < k THEN j ELSE j + 1
    <3>1. x \in 1 .. n /\ y \in 1 .. n /\ rest[i] = seq[x] /\ rest[j] = seq[y]
      BY <1>1, <1>4
    <3>2. x = y
      <4> HIDE DEF x, y
      <4> QED BY <1>5, <2>1, <3>1
    <3> QED BY <1>1, <3>2
  <2> QED BY <1>6, <2>1 DEF IsInjective
<1>8. ToSet(rest) = ToSet(seq) \ {seq[k]}
  <2>1. ASSUME NEW q \in ToSet(rest) PROVE q \in ToSet(seq) \ {seq[k]}
    <3>1. PICK i \in 1 .. n - 1 : q = rest[i]
      BY <1>6, <2>1 DEF ToSet
    <3> DEFINE x == IF i < k THEN i ELSE i + 1
    <3>2. x \in 1 .. n /\ x # k /\ q = seq[x]
      BY <1>1, <1>4, <3>1
    <3> HIDE DEF x
    <3> QED BY <1>1, <1>5, <3>2 DEF ToSet
  <2>2. ASSUME NEW q \in ToSet(seq) \ {seq[k]} PROVE q \in ToSet(rest)
    <3>1. PICK i \in 1 .. n : q = seq[i] /\ i # k
      BY <1>1, <2>2 DEF ToSet
    <3>2. CASE i < k
      <4>1. i \in 1 .. n - 1 /\ rest[i] = seq[i]
        BY <1>1, <1>4, <3>2
      <4> QED BY <1>6, <3>1, <4>1 DEF ToSet
    <3>3. CASE i > k
      <4>1. i - 1 \in 1 .. n - 1 /\ rest[i - 1] = seq[i]
        BY <1>1, <1>4, <3>1, <3>3
      <4> QED BY <1>6, <3>1, <4>1 DEF ToSet
    <3> QED BY <1>1, <3>1, <3>2, <3>3
  <2> QED BY <2>1, <2>2
<1>9. RemoveAt(seq, k) = rest
  BY DEF RemoveAt, rest, u, v, n
<1>10. QED BY <1>4, <1>7, <1>8, <1>9 DEF n

(* What serving does: the rest of the mailbox moves up, the events of the  *)
(* cancelled timers outdated and everything else as it was.                *)
LEMMA ServeFacts ==
    ASSUME TypeOK, mailbox # <<>>, NEW outdated, Serve(outdated)
    PROVE  /\ mailbox' \in Seq(Command) /\ Len(mailbox') = Len(mailbox) - 1
           /\ DOMAIN mailbox' = 1 .. Len(mailbox) - 1 /\ DOMAIN mailbox = 1 .. Len(mailbox)
           /\ Len(mailbox) \in Nat \ {0} /\ Head(mailbox) = mailbox[1] /\ mailbox[1] \in Command
           /\ \A i \in DOMAIN mailbox' :
                 /\ i + 1 \in DOMAIN mailbox /\ mailbox[i + 1] \in Command
                 /\ mailbox'[i].kind = mailbox[i + 1].kind /\ mailbox'[i].from = mailbox[i + 1].from
                 /\ mailbox'[i].live <=> mailbox[i + 1].live /\ mailbox[i + 1].kind \notin outdated
<1> DEFINE n == Len(mailbox)
           Aged(c) == [c EXCEPT !.live = @ /\ c.kind \notin outdated]
<1>1. /\ mailbox \in Seq(Command) /\ n \in Nat \ {0} /\ DOMAIN mailbox = 1 .. n
      /\ Head(mailbox) = mailbox[1] /\ \A i \in 1 .. n : mailbox[i] \in Command
  BY DEF TypeOK
<1>2. \A c \in Command : /\ Aged(c) \in Command
                         /\ Aged(c).kind = c.kind /\ Aged(c).from = c.from
                         /\ Aged(c).live <=> (c.live /\ c.kind \notin outdated)
  BY DEF Command
<1>3. mailbox' = [i \in 1 .. n - 1 |-> Aged(mailbox[i + 1])]
  BY DEF Serve
<1> HIDE DEF Aged, n
<1>4. \A i \in 1 .. n - 1 : i + 1 \in 1 .. n
  BY <1>1
<1>5. mailbox' \in Seq(Command) /\ Len(mailbox') = n - 1 /\ DOMAIN mailbox' = 1 .. n - 1
  BY <1>1, <1>2, <1>3, <1>4
<1> QED BY <1>1, <1>2, <1>3, <1>4, <1>5 DEF n

(* What posting does: one live command at the end, the others as they      *)
(* were.                                                                   *)
LEMMA PostFacts ==
    ASSUME TypeOK, Accepts, RoomAssumption,
           NEW kind \in Requests \cup TurnEvents \cup EmptyEvent \cup Control,
           NEW s \in Session \cup {NoSession}, Post(kind, s)
    PROVE  /\ mailbox' \in Seq(Command) /\ Len(mailbox') = Len(mailbox) + 1 /\ Len(mailbox') <= MailboxSize
           /\ DOMAIN mailbox' = 1 .. Len(mailbox) + 1 /\ DOMAIN mailbox = 1 .. Len(mailbox)
           /\ Len(mailbox) \in Nat
           /\ \A i \in DOMAIN mailbox : mailbox'[i] = mailbox[i]
           /\ mailbox'[Len(mailbox) + 1] = [kind |-> kind, from |-> s, live |-> TRUE]
<1>1. mailbox \in Seq(Command) /\ [kind |-> kind, from |-> s, live |-> TRUE] \in Command
  BY DEF TypeOK, Command
<1>2. Len(mailbox) < MailboxSize /\ MailboxSize \in Nat
  BY DEF Accepts, RoomAssumption
<1> QED BY <1>1, <1>2 DEF Post

(* The members of the room are players.                                    *)
LEMMA MembersArePlayers ==
    ASSUME TypeOK
    PROVE  Members \subseteq Player
BY DEF TypeOK, Members, ToSet

(* What removeMember does: one seat less, an owner with a seat while there *)
(* is one, and either the room is over or the countdown is looked after.   *)
LEMMA RemoveMemberFacts ==
    ASSUME TypeOK, NEW p \in Members, RemoveMember(p)
    PROVE  /\ members' \in Seq(Player) /\ IsInjective(members')
           /\ Len(members) \in Nat \ {0} /\ Len(members') = Len(members) - 1
           /\ Members' = Members \ {p}
           /\ owner' \in Player /\ ready' \subseteq Members'
           /\ members' # <<>> /\ owner \in Members => owner' \in Members'
           /\ session' = [session EXCEPT ![p] = NoSession]
           /\ strikes' = [strikes EXCEPT ![p] = 0]
           /\ autoPlay' = autoPlay \ {p} /\ abandoned' = abandoned \ {p} /\ game' = game
           /\ \/ members' = <<>> /\ BeginDestroy
              \/ members' # <<>> /\ ScheduleEmpty /\ Serve({}) /\ UNCHANGED <<turnTimer, closing, loop>>
<1> DEFINE k == SeatOf(p)
           rest == RemoveAt(members, k)
<1>1. k \in DOMAIN members /\ members[k] = p
  BY DEF SeatOf, Members, ToSet
<1>2. members \in Seq(Player) /\ IsInjective(members) /\ Len(members) \in Nat
  BY DEF TypeOK
<1>3. members' = rest
  BY DEF RemoveMember
<1>4. /\ rest \in Seq(Player) /\ IsInjective(rest) /\ Len(rest) = Len(members) - 1
      /\ ToSet(rest) = Members \ {p}
  BY <1>1, <1>2, RemoveFacts DEF Members
<1> HIDE DEF rest, k
<1>5. Members' = Members \ {p} /\ Members \subseteq Player
  <2>1. Members' = Members \ {p}
    BY <1>3, <1>4 DEF Members
  <2> QED BY <2>1, MembersArePlayers
<1>6. rest # <<>> => rest[1] \in Members'
  BY <1>3, <1>4, <1>5 DEF Members, ToSet
<1>7. Len(members) # 0
  BY <1>1, <1>2
<1> DEFINE heir == IF p = owner /\ rest # <<>> THEN rest[1] ELSE owner
<1>8. /\ owner' = heir
      /\ ready' = IF heir # owner THEN (ready \ {p}) \cup {heir} ELSE ready \ {p}
      /\ session' = [session EXCEPT ![p] = NoSession]
      /\ strikes' = [strikes EXCEPT ![p] = 0]
      /\ autoPlay' = autoPlay \ {p} /\ abandoned' = abandoned \ {p} /\ game' = game
      /\ IF rest = <<>> THEN BeginDestroy
         ELSE ScheduleEmpty /\ Serve({}) /\ UNCHANGED <<turnTimer, closing, loop>>
  BY DEF RemoveMember, rest, k
<1>9. owner' \in Player /\ ready' \subseteq Members'
  BY <1>5, <1>6, <1>8 DEF TypeOK
<1>10. members' # <<>> /\ owner \in Members => owner' \in Members'
  BY <1>3, <1>5, <1>6, <1>8
<1> QED BY <1>2, <1>3, <1>4, <1>5, <1>7, <1>8, <1>9, <1>10

-----------------------------------------------------------------------------
(* A command comes into the mailbox; only the stop closes the room.        *)
Posts(kind, s) ==
    Accepts /\ Post(kind, s) /\ loop' = loop /\ closing' = IF kind = "stop" THEN TRUE ELSE closing

(* The loop serves the first command, outdating some events; the room goes *)
(* on, is taken down, or ends with the stop.                               *)
Handles(outdated) ==
    /\ loop = "running" /\ mailbox # <<>> /\ Serve(outdated)
    /\ \/ Head(mailbox).kind # "stop" /\ loop' = loop /\ closing' = closing
       \/ Head(mailbox).kind # "stop" /\ loop' = "draining" /\ closing'
       \/ Head(mailbox).kind = "stop" /\ loop' = "ended" /\ closing' = closing

(* Every kind of command.                                                  *)
Kinds == Requests \cup TurnEvents \cup EmptyEvent \cup Control

(* The events of the two timers.                                           *)
Events == TurnEvents \cup EmptyEvent

(* A handler that looks after the turn serves its command, outdating at    *)
(* least what it was told to.                                              *)
LEMMA RescheduleFacts ==
    ASSUME TypeOK, NEW p, NEW out \in SUBSET Events, RescheduleIfDue(p, out)
    PROVE  \E outdated \in SUBSET Events : out \subseteq outdated /\ Serve(outdated)
<1>1. CASE phase = "playing" /\ p = turnOf
  BY <1>1 DEF RescheduleIfDue, Events
<1>2. CASE ~(phase = "playing" /\ p = turnOf)
  BY <1>2 DEF RescheduleIfDue
<1> QED BY <1>1, <1>2

(* Every handler serves exactly one command.                               *)
LEMMA HandleCases ==
    ASSUME TypeOK, MailFits, Serves, ~Drain
    PROVE  \E outdated \in SUBSET Events : Handles(outdated)
<1> DEFINE Goal == \E outdated \in SUBSET Events : Handles(outdated)
<1> USE DEF timers
<1>0. {} \in SUBSET Events /\ EmptyEvent \in SUBSET Events /\ TurnEvents \in SUBSET Events
      /\ TurnEvents \cup EmptyEvent \in SUBSET Events
  BY DEF Events
<1>1. ASSUME NEW p \in Members, loop = "running", mailbox # <<>>, Head(mailbox).kind # "stop", RemoveMember(p)
      PROVE  Goal
  BY <1>0, <1>1, RemoveMemberFacts DEF BeginDestroy, Handles
<1>2. ASSUME NEW p, loop = "running", mailbox # <<>>, Head(mailbox).kind # "stop", KeepSeat(p) PROVE Goal
  BY <1>0, <1>2, RescheduleFacts DEF KeepSeat, Handles
<1>3. ASSUME NEW s \in Session, Disconnect(s) \/ Leave(s) PROVE Goal
  BY <1>1, <1>2, <1>3 DEF Disconnect, Leave, Bound, From, Current
<1>4. ASSUME NEW s \in Session, Kick(s) PROVE Goal
  BY <1>1, <1>4 DEF Kick, From, Current
<1>5. ASSUME NEW s \in Session, Join(s) \/ Ready(s) \/ Start(s) \/ Act(s) PROVE Goal
  BY <1>0, <1>5 DEF Join, Ready, Start, Act, MoveOn, From, Current, Handles
<1>6. ASSUME NEW s \in Session, Reconnect(s) PROVE Goal
  BY <1>0, <1>6, RescheduleFacts DEF Reconnect, From, Current, Handles
<1>7. ASSUME NEW kind \in TurnEvents, AutomatedTurn(kind) PROVE Goal
  BY <1>0, <1>7 DEF AutomatedTurn, MoveOn, Current, Handles, TurnEvents
<1>8. ASSUME CollectEmptyRoom \/ FirstSnapshot \/ Stop PROVE Goal
  BY <1>0, <1>8 DEF CollectEmptyRoom, BeginDestroy, FirstSnapshot, Stop, Current, Handles
<1>9. ASSUME Refuse PROVE Goal
  <2>1. mailbox # <<>> /\ loop = "running" /\ Refused(Head(mailbox)) /\ Serve({}) /\ UNCHANGED <<closing, loop>>
    BY <1>9 DEF Refuse
  <2>2. Head(mailbox) = mailbox[1] /\ 1 \in DOMAIN mailbox
    BY <1>0, <2>1, ServeFacts
  <2>3. Head(mailbox).kind # "stop"
    BY <2>1, <2>2 DEF Refused, MailFits, TurnEvents, EmptyEvent
  <2> QED BY <1>0, <2>1, <2>3 DEF Handles
<1> HIDE DEF Goal
<1>10. Goal
  BY <1>3, <1>4, <1>5, <1>6, <1>7, <1>8, <1>9 DEF Serves
<1>11. QED BY <1>10 DEF Goal

(* What a step does to the mailbox and to the life of the room: it posts a *)
(* command, serves one, empties the mailbox of a room taken down, or does  *)
(* neither.                                                                *)
LEMMA MailCases ==
    ASSUME TypeOK, MailFits, Next, RoomAssumption
    PROVE  \/ \E kind \in Kinds, s \in Session \cup {NoSession} : Posts(kind, s)
           \/ UNCHANGED <<mailbox, closing, loop>>
           \/ \E outdated \in SUBSET Events : Handles(outdated)
           \/ Drain
<1> DEFINE Goal == \/ \E kind \in Kinds, s \in Session \cup {NoSession} : Posts(kind, s)
                   \/ UNCHANGED <<mailbox, closing, loop>>
                   \/ \E outdated \in SUBSET Events : Handles(outdated)
                   \/ Drain
<1>1. ASSUME NEW s \in Session, NEW kind \in Requests, Request(s, kind) PROVE Goal
  <2>1. kind # "stop" /\ kind \in Kinds
    BY DEF Requests, Kinds
  <2> QED BY <1>1, <2>1 DEF Request, Posts
<1>2. ASSUME Shutdown PROVE Goal
  BY <1>2 DEF Shutdown, Posts, Kinds, Control
<1>3. ASSUME TurnTimerFires \/ EmptyTimerFires PROVE Goal
  <2>1. PICK kind \in TurnEvents \cup EmptyEvent : PostOrLose(kind) /\ UNCHANGED <<closing, loop>>
    BY <1>3 DEF TurnTimerFires, EmptyTimerFires, EmptyEvent, TypeOK
  <2>2. kind # "stop" /\ kind \in Kinds
    BY DEF TurnEvents, EmptyEvent, Kinds
  <2> QED BY <2>1, <2>2 DEF PostOrLose, Posts
<1>4. ASSUME Serves PROVE Goal
  BY <1>4, HandleCases
<1>5. ASSUME Gone PROVE Goal
  BY <1>5 DEF Gone, vars
<1> HIDE DEF Goal
<1>6. Goal
  BY <1>1, <1>2, <1>3, <1>4, <1>5 DEF Next
<1>7. QED BY <1>6 DEF Goal

(* A step keeps what is said of the mailbox. The stop is the last command  *)
(* because nothing is accepted after it.                                   *)
LEMMA MailKept ==
    ASSUME RoomAssumption, TypeOK, MailFits, Next
    PROVE  /\ mailbox' \in Seq(Command) /\ Len(mailbox') <= MailboxSize
           /\ closing' \in BOOLEAN /\ loop' \in {"running", "draining", "ended"}
           /\ loop' = "running" => loop = "running"
           /\ MailFits'
<1> DEFINE Goal == /\ mailbox' \in Seq(Command) /\ Len(mailbox') <= MailboxSize
                   /\ closing' \in BOOLEAN /\ loop' \in {"running", "draining", "ended"}
                   /\ loop' = "running" => loop = "running"
                   /\ MailFits'
<1>0. /\ mailbox \in Seq(Command) /\ Len(mailbox) <= MailboxSize /\ MailboxSize \in Nat
      /\ closing \in BOOLEAN /\ loop \in {"running", "draining", "ended"}
  BY DEF TypeOK, RoomAssumption
<1>1. ASSUME NEW kind \in Kinds, NEW s \in Session \cup {NoSession}, Posts(kind, s) PROVE Goal
  <2>1. /\ mailbox' \in Seq(Command) /\ Len(mailbox') = Len(mailbox) + 1 /\ Len(mailbox') <= MailboxSize
        /\ DOMAIN mailbox' = 1 .. Len(mailbox) + 1 /\ DOMAIN mailbox = 1 .. Len(mailbox)
        /\ \A i \in DOMAIN mailbox : mailbox'[i] = mailbox[i]
        /\ mailbox'[Len(mailbox) + 1] = [kind |-> kind, from |-> s, live |-> TRUE]
        /\ Len(mailbox) \in Nat
    BY <1>1, PostFacts DEF Posts, Kinds
  <2>2. ~closing /\ loop = "running" /\ loop' = loop /\ closing' \in BOOLEAN /\ (kind = "stop" => closing')
    BY <1>0, <1>1 DEF Posts, Accepts, MailFits
  <2>3. MailFits'
    <3>1. /\ mailbox'[Len(mailbox) + 1].live /\ mailbox'[Len(mailbox) + 1].kind = kind
          /\ \A i \in DOMAIN mailbox' : i \in DOMAIN mailbox \/ i = Len(mailbox) + 1
      BY <2>1
    <3>2. \A i \in DOMAIN mailbox' : mailbox'[i].live \/ mailbox'[i].kind \in TurnEvents \cup EmptyEvent
      BY <2>1, <3>1 DEF MailFits
    <3>3. \A i \in DOMAIN mailbox : mailbox[i].kind # "stop"
      BY <2>2 DEF MailFits
    <3>4. \A i \in DOMAIN mailbox' : mailbox'[i].kind = "stop" => closing' /\ i = Len(mailbox')
      BY <2>1, <2>2, <3>1, <3>3
    <3> QED BY <2>2, <3>2, <3>4 DEF MailFits
  <2> QED BY <2>1, <2>2, <2>3
<1>2. ASSUME UNCHANGED <<mailbox, closing, loop>> PROVE Goal
  BY <1>0, <1>2 DEF MailFits
<1>3. ASSUME NEW outdated \in SUBSET Events, Handles(outdated) PROVE Goal
  <2>1. /\ mailbox' \in Seq(Command) /\ Len(mailbox') = Len(mailbox) - 1
        /\ DOMAIN mailbox' = 1 .. Len(mailbox) - 1 /\ DOMAIN mailbox = 1 .. Len(mailbox)
        /\ Len(mailbox) \in Nat \ {0} /\ Head(mailbox) = mailbox[1]
        /\ \A i \in DOMAIN mailbox' :
              /\ i + 1 \in DOMAIN mailbox
              /\ mailbox'[i].kind = mailbox[i + 1].kind
              /\ mailbox'[i].live <=> mailbox[i + 1].live /\ mailbox[i + 1].kind \notin outdated
    BY <1>3, ServeFacts DEF Handles
  <2>2. /\ closing' \in BOOLEAN /\ (closing => closing')
        /\ loop' \in {"running", "draining", "ended"} /\ (loop' = "ended" => Head(mailbox).kind = "stop")
        /\ loop' # "running" => closing'
    <3>1. Head(mailbox).kind = "stop" => closing
      BY <2>1 DEF MailFits
    <3>2. closing' \in BOOLEAN /\ (closing => closing')
      <4>1. closing' = closing \/ closing' = TRUE
        BY <1>3 DEF Handles
      <4> QED BY <1>0, <4>1
    <3> QED BY <1>0, <1>3, <3>1, <3>2 DEF Handles
  <2>3. loop' = "ended" => mailbox' = <<>>
    <3>1. Head(mailbox).kind = "stop" => Len(mailbox) = 1
      BY <2>1 DEF MailFits
    <3> QED BY <2>1, <2>2, <3>1
  <2>4. MailFits'
    <3>1. \A i \in DOMAIN mailbox' : mailbox'[i].live \/ mailbox'[i].kind \in TurnEvents \cup EmptyEvent
      BY <2>1 DEF MailFits, Events
    <3>2. \A i \in DOMAIN mailbox' : mailbox'[i].kind = "stop" => closing' /\ i = Len(mailbox')
      BY <2>1, <2>2 DEF MailFits
    <3> QED BY <2>2, <2>3, <3>1, <3>2 DEF MailFits
  <2> QED BY <1>0, <1>3, <2>1, <2>2, <2>4 DEF Handles
<1>4. ASSUME Drain PROVE Goal
  BY <1>0, <1>4 DEF Drain, MailFits
<1> HIDE DEF Goal
<1>5. Goal
  BY <1>1, <1>2, <1>3, <1>4, MailCases
<1>6. QED BY <1>5 DEF Goal

-----------------------------------------------------------------------------
(* The part of the types that is about seats and the round.                *)
SeatTypes ==
    /\ members \in Seq(Player) /\ IsInjective(members)
    /\ owner \in Player
    /\ phase \in {"waiting", "playing", "settled"}
    /\ turnOf \in Player \cup {NoPlayer}
    /\ session \in [Player -> Session \cup {NoSession}]
    /\ ready \subseteq Members /\ autoPlay \subseteq Members /\ abandoned \subseteq Members
    /\ strikes \in [Player -> Nat]

(* What a join does: one seat more, for somebody without one.              *)
LEMMA JoinFacts ==
    ASSUME RoomAssumption, TypeOK, NEW s \in Session, Join(s)
    PROVE  /\ members' \in Seq(Player) /\ IsInjective(members')
           /\ Len(members') = Len(members) + 1 /\ Len(members) \in Nat
           /\ Members' = Members \cup {PlayerOf[s]} /\ PlayerOf[s] \in Player \ Members
<1> DEFINE p == PlayerOf[s]
           n == Len(members)
<1>1. /\ p \in Player /\ p \notin Members /\ members' = Append(members, p)
      /\ members \in Seq(Player) /\ IsInjective(members) /\ n \in Nat /\ DOMAIN members = 1 .. n
  BY DEF Join, CanJoin, RoomAssumption, TypeOK
<1>2. /\ members' \in Seq(Player) /\ Len(members') = n + 1 /\ DOMAIN members' = 1 .. n + 1
      /\ (\A i \in 1 .. n : members'[i] = members[i]) /\ members'[n + 1] = p
  BY <1>1
<1>3. \A i \in 1 .. n : members[i] # p
  BY <1>1 DEF Members, ToSet
<1>4. \A i, j \in 1 .. n : members[i] = members[j] => i = j
  BY <1>1 DEF IsInjective
<1> HIDE DEF n, p
<1>5. IsInjective(members')
  <2>1. \A i, j \in 1 .. n + 1 : members'[i] = members'[j] => i = j
    BY <1>1, <1>2, <1>3, <1>4
  <2> QED BY <1>2, <2>1 DEF IsInjective
<1>6. Members' = Members \cup {p}
  <2>1. \A q : q \in Members' <=> \E i \in 1 .. n + 1 : q = members'[i]
    BY <1>2 DEF Members, ToSet
  <2>2. \A q : q \in Members <=> \E i \in 1 .. n : q = members[i]
    BY <1>1 DEF Members, ToSet
  <2>3. \A i \in 1 .. n + 1 : i \in 1 .. n \/ i = n + 1
    BY <1>1
  <2>4. n + 1 \in 1 .. n + 1 /\ 1 .. n \subseteq 1 .. n + 1
    BY <1>1
  <2>5. ASSUME NEW q \in Members' PROVE q \in Members \cup {p}
    BY <1>2, <2>1, <2>2, <2>3
  <2>6. ASSUME NEW q \in Members \cup {p} PROVE q \in Members'
    BY <1>2, <2>1, <2>2, <2>4
  <2> QED BY <2>5, <2>6
<1> QED BY <1>1, <1>2, <1>5, <1>6 DEF n, p

(* A step keeps what is said of the seats. Only before and after a round   *)
(* do seats go, with the last of them the room.                            *)
LEMMA SeatsKept ==
    ASSUME RoomAssumption, TypeOK, MailFits, SeatsFit, Next
    PROVE  SeatTypes' /\ SeatsFit'
<1> DEFINE Goal == SeatTypes' /\ SeatsFit'
<1> USE DEF seats, game
<1>0. SeatTypes /\ Members \subseteq Player /\ (loop' = "running" => loop = "running") /\ Len(members) \in Nat
  BY MailKept, MembersArePlayers DEF TypeOK, SeatTypes
<1>1. ASSUME UNCHANGED <<seats, game>> PROVE Goal
  BY <1>0, <1>1 DEF SeatTypes, SeatsFit, Members
<1>2. ASSUME NEW p \in Members, phase = "playing", KeepSeat(p),
             abandoned' \subseteq Members
      PROVE  Goal
  <2>1. /\ session' = [session EXCEPT ![p] = NoSession] /\ autoPlay' = autoPlay \cup {p}
        /\ UNCHANGED <<members, owner, ready, strikes, phase, turnOf>>
    BY <1>2 DEF KeepSeat
  <2>2. Members' = Members
    BY <2>1 DEF Members
  <2>3. SeatTypes'
    BY <1>0, <1>2, <2>1, <2>2 DEF SeatTypes
  <2>4. SeatsFit'
    BY <1>0, <1>2, <2>1, <2>2 DEF SeatsFit, SeatTypes
  <2> QED BY <2>3, <2>4
<1>3. ASSUME NEW p \in Members, phase # "playing", loop = "running", RemoveMember(p) PROVE Goal
  <2>1. /\ members' \in Seq(Player) /\ IsInjective(members')
        /\ Len(members') = Len(members) - 1
        /\ Members' = Members \ {p}
        /\ owner' \in Player /\ ready' \subseteq Members'
        /\ members' # <<>> /\ owner \in Members => owner' \in Members'
        /\ session' = [session EXCEPT ![p] = NoSession]
        /\ strikes' = [strikes EXCEPT ![p] = 0]
        /\ autoPlay' = autoPlay \ {p} /\ abandoned' = abandoned \ {p} /\ phase' = phase /\ turnOf' = turnOf
        /\ members' = <<>> => loop' = "draining"
    BY <1>3, RemoveMemberFacts DEF BeginDestroy
  <2>2. SeatTypes'
    <3>1. session' \in [Player -> Session \cup {NoSession}] /\ strikes' \in [Player -> Nat]
      BY <1>0, <1>3, <2>1 DEF SeatTypes
    <3> QED BY <1>0, <2>1, <3>1 DEF SeatTypes
  <2>3. loop' = "running" => members' # <<>> /\ owner' \in Members'
    BY <1>3, <2>1 DEF SeatsFit
  <2>4. Len(members') <= MaxPlayers /\ phase' # "playing"
    BY <1>0, <1>3, <2>1 DEF SeatsFit, RoomAssumption
  <2>5. phase' = "waiting" => autoPlay' = {} /\ abandoned' = {}
    BY <2>1 DEF SeatsFit
  <2>6. \A q \in Player \ Members' : session'[q] = NoSession /\ strikes'[q] = 0
    BY <1>0, <1>3, <2>1 DEF SeatsFit, SeatTypes
  <2> QED BY <2>2, <2>3, <2>4, <2>5, <2>6 DEF SeatsFit
<1>4. ASSUME NEW s \in Session, Disconnect(s) PROVE Goal
  <2>1. PlayerOf[s] \in Members /\ loop = "running"
    BY <1>4 DEF Disconnect, Bound, From, Current
  <2> QED BY <1>0, <1>2, <1>3, <1>4, <2>1 DEF Disconnect, SeatTypes
<1>5. ASSUME NEW s \in Session, Leave(s) PROVE Goal
  <2>1. PlayerOf[s] \in Members /\ loop = "running"
    BY <1>5 DEF Leave, Bound, From, Current
  <2> QED BY <1>0, <1>2, <1>3, <1>5, <2>1 DEF Leave, SeatTypes
<1>6. ASSUME NEW s \in Session, Kick(s) PROVE Goal
  <2>1. loop = "running" /\ phase = "waiting" /\ \E p \in Members : RemoveMember(p)
    BY <1>6 DEF Kick, Commands, From, Current
  <2> QED BY <1>3, <2>1
<1>7. ASSUME NEW s \in Session, Join(s) PROVE Goal
  <2> DEFINE p == PlayerOf[s]
  <2>1. /\ members' \in Seq(Player) /\ IsInjective(members')
        /\ Len(members') = Len(members) + 1
        /\ Members' = Members \cup {p} /\ p \in Player \ Members
    BY <1>7, JoinFacts
  <2>2. /\ session' = [session EXCEPT ![p] = s] /\ phase = "waiting" /\ Len(members) < MaxPlayers
        /\ UNCHANGED <<owner, ready, autoPlay, abandoned, strikes, phase, turnOf>>
    BY <1>7 DEF Join, CanJoin
  <2> HIDE DEF p
  <2>3. SeatTypes'
    BY <1>0, <2>1, <2>2 DEF SeatTypes
  <2>4. loop' = "running" => members' # <<>> /\ owner' \in Members'
    BY <1>0, <2>1, <2>2 DEF SeatsFit
  <2>5. Len(members') <= MaxPlayers /\ phase' = "waiting" /\ autoPlay' = {} /\ abandoned' = {}
    BY <1>0, <2>1, <2>2 DEF SeatsFit, RoomAssumption
  <2>6. \A q \in Player \ Members' : session'[q] = NoSession /\ strikes'[q] = 0
    BY <1>0, <2>1, <2>2 DEF SeatsFit, SeatTypes
  <2> QED BY <2>3, <2>4, <2>5, <2>6 DEF SeatsFit
<1>8. ASSUME NEW s \in Session, Reconnect(s) PROVE Goal
  <2> DEFINE p == PlayerOf[s]
  <2>1. /\ p \in Members /\ session' = [session EXCEPT ![p] = s]
        /\ autoPlay' = autoPlay \ {p} /\ strikes' = [strikes EXCEPT ![p] = 0]
        /\ UNCHANGED <<members, owner, ready, abandoned, phase, turnOf>>
    BY <1>8 DEF Reconnect, CanReconnect
  <2>2. Members' = Members
    BY <2>1 DEF Members
  <2>3. SeatTypes'
    BY <1>0, <2>1, <2>2 DEF SeatTypes
  <2>4. SeatsFit'
    BY <1>0, <2>1, <2>2 DEF SeatsFit, SeatTypes
  <2> QED BY <2>3, <2>4
<1>9. ASSUME NEW s \in Session, Ready(s) PROVE Goal
  <2>1. /\ ready' \subseteq ready \cup {PlayerOf[s]} /\ PlayerOf[s] \in Members
        /\ UNCHANGED <<members, owner, session, autoPlay, abandoned, strikes, phase, turnOf>>
    BY <1>9 DEF Ready, Bound
  <2>2. Members' = Members
    BY <2>1 DEF Members
  <2> QED BY <1>0, <2>1, <2>2 DEF SeatTypes, SeatsFit
<1>10. ASSUME NEW s \in Session, Start(s) PROVE Goal
  <2>1. /\ phase' = "playing" /\ turnOf' \in Members /\ Len(members) >= MinPlayers
        /\ UNCHANGED <<members, owner, session, ready, autoPlay, abandoned, strikes>>
    BY <1>10 DEF Start, CanStart, Members
  <2>2. Members' = Members
    BY <2>1 DEF Members
  <2> QED BY <1>0, <2>1, <2>2 DEF SeatTypes, SeatsFit
<1>11. ASSUME phase = "playing", MoveOn, autoPlay' \subseteq Members, strikes' \in [Player -> Nat],
              \A p \in Player \ Members : strikes'[p] = strikes[p],
              UNCHANGED <<members, owner, session, ready, abandoned>>
       PROVE  Goal
  <2>1. Members' = Members
    BY <1>11 DEF Members
  <2>2. \/ phase' = "playing" /\ turnOf' \in Members
        \/ phase' = "settled" /\ turnOf' = NoPlayer
    BY <1>11 DEF MoveOn, Members
  <2> QED BY <1>0, <1>11, <2>1, <2>2 DEF SeatTypes, SeatsFit
<1>12. ASSUME NEW s \in Session, Act(s) PROVE Goal
  <2>1. turnOf \in Members
    BY <1>12 DEF Act, CanAct, SeatsFit
  <2>2. strikes' = [strikes EXCEPT ![turnOf] = 0] /\ autoPlay' \subseteq autoPlay
    BY <1>12 DEF Act
  <2>3. strikes' \in [Player -> Nat] /\ \A p \in Player \ Members : strikes'[p] = strikes[p]
    BY <1>0, <2>1, <2>2 DEF SeatTypes
  <2> QED BY <1>0, <1>11, <1>12, <2>2, <2>3 DEF Act, CanAct, SeatTypes
<1>13. ASSUME NEW kind \in TurnEvents, AutomatedTurn(kind) PROVE Goal
  <2>1. turnOf \in Members /\ phase = "playing"
    BY <1>13 DEF AutomatedTurn, SeatsFit
  <2>2. /\ strikes' = [strikes EXCEPT ![turnOf] = strikes[turnOf] + 1] \/ strikes' = strikes
        /\ autoPlay' \subseteq autoPlay \cup {turnOf}
    BY <1>13 DEF AutomatedTurn
  <2>3. strikes' \in [Player -> Nat] /\ \A p \in Player \ Members : strikes'[p] = strikes[p]
    BY <1>0, <2>1, <2>2 DEF SeatTypes
  <2>4. autoPlay' \subseteq Members
    BY <1>0, <2>1, <2>2 DEF SeatTypes
  <2> QED BY <1>11, <1>13, <2>1, <2>3, <2>4 DEF AutomatedTurn
<1>14. ASSUME Serves PROVE Goal
  <2> HIDE DEF Goal
  <2>1. ASSUME CollectEmptyRoom \/ FirstSnapshot \/ Stop \/ Refuse \/ Drain PROVE Goal
    BY <1>1, <2>1 DEF CollectEmptyRoom, FirstSnapshot, Stop, Refuse, Drain
  <2> QED BY <1>4, <1>5, <1>6, <1>7, <1>8, <1>9, <1>10, <1>12, <1>13, <1>14, <2>1 DEF Serves
<1>15. ASSUME ~Serves PROVE Goal
  <2> HIDE DEF Goal
  <2> QED BY <1>1, <1>15 DEF Next, Request, Shutdown, TurnTimerFires, EmptyTimerFires, Gone, vars
<1> HIDE DEF Goal
<1>16. Goal
  BY <1>14, <1>15
<1>17. QED BY <1>16 DEF Goal

-----------------------------------------------------------------------------
(* A step that leaves the live events of these kinds alone: nothing        *)
(* happens to the mailbox, another command comes, or another one is        *)
(* served.                                                                 *)
Passes(kinds) ==
    \/ UNCHANGED mailbox
    \/ \E kind \in Kinds \ kinds, s \in Session \cup {NoSession} : Accepts /\ Post(kind, s)
    \/ \E outdated \in SUBSET (Events \ kinds) :
          /\ mailbox # <<>> /\ Serve(outdated)
          /\ ~(Head(mailbox).live /\ Head(mailbox).kind \in kinds)

(* Such a step neither loses nor adds nor doubles a live event of these    *)
(* kinds.                                                                  *)
LEMMA PassesFacts ==
    ASSUME RoomAssumption, TypeOK, NEW kinds, Passes(kinds)
    PROVE  /\ LiveQueued(kinds)' = {} <=> LiveQueued(kinds) = {}
           /\ \A i \in LiveQueued(kinds)' : \E j \in LiveQueued(kinds) : mailbox'[i].kind = mailbox[j].kind
           /\ (\A i, j \in LiveQueued(kinds) : i = j) => (\A i, j \in LiveQueued(kinds)' : i = j)
<1> DEFINE Goal == /\ LiveQueued(kinds)' = {} <=> LiveQueued(kinds) = {}
                   /\ \A i \in LiveQueued(kinds)' : \E j \in LiveQueued(kinds) : mailbox'[i].kind = mailbox[j].kind
                   /\ (\A i, j \in LiveQueued(kinds) : i = j) => (\A i, j \in LiveQueued(kinds)' : i = j)
<1>0. /\ \A i : i \in LiveQueued(kinds) <=> i \in DOMAIN mailbox /\ mailbox[i].kind \in kinds /\ mailbox[i].live
      /\ \A i : i \in LiveQueued(kinds)' <=> i \in DOMAIN mailbox' /\ mailbox'[i].kind \in kinds /\ mailbox'[i].live
  BY DEF LiveQueued, Queued
<1>1. ASSUME UNCHANGED mailbox PROVE Goal
  BY <1>0, <1>1
<1>2. ASSUME NEW kind \in Kinds \ kinds, NEW s \in Session \cup {NoSession}, Accepts, Post(kind, s) PROVE Goal
  <2>1. /\ DOMAIN mailbox' = 1 .. Len(mailbox) + 1 /\ DOMAIN mailbox = 1 .. Len(mailbox)
        /\ \A i \in DOMAIN mailbox : mailbox'[i] = mailbox[i]
        /\ mailbox'[Len(mailbox) + 1].kind = kind
        /\ Len(mailbox) \in Nat
    <3>1. kind \in Requests \cup TurnEvents \cup EmptyEvent \cup Control
      BY DEF Kinds
    <3>2. [kind |-> kind, from |-> s, live |-> TRUE].kind = kind
      OBVIOUS
    <3>3. /\ DOMAIN mailbox' = 1 .. Len(mailbox) + 1 /\ DOMAIN mailbox = 1 .. Len(mailbox)
          /\ \A i \in DOMAIN mailbox : mailbox'[i] = mailbox[i]
          /\ mailbox'[Len(mailbox) + 1] = [kind |-> kind, from |-> s, live |-> TRUE]
          /\ Len(mailbox) \in Nat
      BY <1>2, <3>1, PostFacts
    <3> QED BY <3>2, <3>3
  <2>2. \A i : i \in LiveQueued(kinds)' <=> i \in LiveQueued(kinds)
    BY <1>0, <2>1
  <2>3. \A i \in LiveQueued(kinds) : mailbox'[i] = mailbox[i]
    BY <1>0, <2>1
  <2> QED BY <2>2, <2>3
<1>3. ASSUME NEW outdated \in SUBSET (Events \ kinds), mailbox # <<>>, Serve(outdated),
             ~(Head(mailbox).live /\ Head(mailbox).kind \in kinds)
      PROVE  Goal
  <2>1. /\ DOMAIN mailbox' = 1 .. Len(mailbox) - 1 /\ DOMAIN mailbox = 1 .. Len(mailbox)
        /\ Len(mailbox) \in Nat \ {0} /\ Head(mailbox) = mailbox[1]
        /\ \A i \in DOMAIN mailbox' :
              /\ i + 1 \in DOMAIN mailbox
              /\ mailbox'[i].kind = mailbox[i + 1].kind
              /\ mailbox'[i].live <=> mailbox[i + 1].live /\ mailbox[i + 1].kind \notin outdated
    BY <1>3, ServeFacts
  <2>2. ASSUME NEW i \in LiveQueued(kinds)'
        PROVE  i \in Int /\ i + 1 \in LiveQueued(kinds) /\ mailbox'[i].kind = mailbox[i + 1].kind
    BY <1>0, <2>1, <2>2
  <2>3. ASSUME NEW i \in LiveQueued(kinds)
        PROVE  i - 1 \in LiveQueued(kinds)'
    <3>1. i \in 1 .. Len(mailbox) /\ i # 1 /\ mailbox[i].kind \in kinds /\ mailbox[i].live
      BY <1>0, <1>3, <2>1, <2>3
    <3>2. i - 1 \in DOMAIN mailbox' /\ i - 1 + 1 = i
      BY <2>1, <3>1
    <3>3. mailbox'[i - 1].kind \in kinds /\ mailbox'[i - 1].live
      BY <1>3, <2>1, <3>1, <3>2
    <3> QED BY <1>0, <3>2, <3>3
  <2>4. LiveQueued(kinds)' = {} <=> LiveQueued(kinds) = {}
    BY <2>2, <2>3
  <2>5. (\A i, j \in LiveQueued(kinds) : i = j) => (\A i, j \in LiveQueued(kinds)' : i = j)
    <3> SUFFICES ASSUME \A i, j \in LiveQueued(kinds) : i = j,
                        NEW i \in LiveQueued(kinds)', NEW j \in LiveQueued(kinds)'
                 PROVE  i = j
      OBVIOUS
    <3>1. i + 1 = j + 1 /\ i \in Int /\ j \in Int
      BY <2>2
    <3> QED BY <3>1
  <2> QED BY <2>2, <2>4, <2>5
<1> HIDE DEF Goal
<1>4. Goal
  BY <1>1, <1>2, <1>3 DEF Passes
<1>5. QED BY <1>4 DEF Goal

(* Cancelling a timer leaves none of its events live.                      *)
LEMMA Outdated ==
    ASSUME TypeOK, mailbox # <<>>, NEW outdated, Serve(outdated), NEW kinds \in SUBSET outdated
    PROVE  LiveQueued(kinds)' = {}
BY ServeFacts DEF LiveQueued, Queued

(* The event the player in turn calls for.                                 *)
Due == IF Managed(turnOf) THEN "auto_play" ELSE "turn_timeout"

(* The safe half of OneEventPerTurn, which holds whatever becomes of the   *)
(* mailbox: an armed turn timer and a live turn event are those of the     *)
(* player in turn of a running round, and there is at most one of both.    *)
TurnFits ==
    /\ turnTimer # "off" => phase = "playing" /\ turnTimer = Due /\ LiveQueued(TurnEvents) = {}
    /\ \A i \in LiveQueued(TurnEvents) : phase = "playing" /\ mailbox[i].kind = Due
    /\ \A i, j \in LiveQueued(TurnEvents) : i = j

(* The step arms the turn timer anew for the state it leaves, or disarms   *)
(* it.                                                                     *)
TurnReset ==
    /\ LiveQueued(TurnEvents)' = {}
    /\ turnTimer' # "off" => phase' = "playing" /\ turnTimer' = Due'
    /\ phase' = "playing" /\ ~closing' => turnTimer' # "off"

(* The step leaves the turn, its timer and its live events alone.          *)
TurnKept ==
    /\ turnTimer' = turnTimer /\ phase' = phase /\ (phase = "playing" => Due' = Due)
    /\ Passes(TurnEvents)

(* scheduleTurnTimer arms the timer for the state the handler leaves.      *)
LEMMA Scheduled ==
    ASSUME TypeOK, mailbox # <<>>, NEW outdated, Serve(outdated), TurnEvents \subseteq outdated, ScheduleTurn
    PROVE  TurnReset
<1>1. LiveQueued(TurnEvents)' = {}
  BY Outdated
<1>2. turnTimer' = IF phase' # "playing" THEN "off" ELSE Due'
  BY DEF ScheduleTurn, Due
<1>3. Due' # "off"
  BY DEF Due
<1> QED BY <1>1, <1>2, <1>3 DEF TurnReset

(* A change of somebody's connection arms the timer anew when it is that   *)
(* player's turn, and otherwise changes nothing about the turn.            *)
LEMMA Rescheduled ==
    ASSUME TypeOK, mailbox # <<>>, NEW p, NEW out \in SUBSET EmptyEvent, RescheduleIfDue(p, out),
           Head(mailbox).kind \notin TurnEvents, phase' = phase,
           phase = "playing" /\ p # turnOf => Due' = Due
    PROVE  TurnReset \/ TurnKept
<1>1. CASE phase = "playing" /\ p = turnOf
  BY <1>1, Scheduled DEF RescheduleIfDue
<1>2. CASE ~(phase = "playing" /\ p = turnOf)
  <2>1. turnTimer' = turnTimer /\ Serve(out) /\ out \in SUBSET (Events \ TurnEvents)
    BY <1>2 DEF RescheduleIfDue, Events, TurnEvents, EmptyEvent
  <2> QED BY <1>2, <2>1 DEF TurnKept, Passes
<1> QED BY <1>1, <1>2

(* What a step does about the turn: a reset, nothing, or the firing of the *)
(* timer. An event of the turn with the current token is never refused,    *)
(* the round being on.                                                     *)
LEMMA TurnCases ==
    ASSUME RoomAssumption, TypeOK, MailFits, SeatsFit, TurnFits, Next
    PROVE  TurnReset \/ TurnKept \/ TurnTimerFires
<1> DEFINE Goal == TurnReset \/ TurnKept \/ TurnTimerFires
<1> USE DEF seats, game, timers
<1>0. {} \in SUBSET EmptyEvent /\ {} \in SUBSET (Events \ TurnEvents) /\ EmptyEvent \in SUBSET (Events \ TurnEvents)
      /\ (phase = "playing" => turnOf \in Members /\ turnOf \in Player)
      /\ session \in [Player -> Session \cup {NoSession}]
  BY MembersArePlayers DEF Events, TurnEvents, EmptyEvent, SeatsFit, TypeOK
<1>1. ASSUME UNCHANGED <<seats, game, turnTimer>>, Passes(TurnEvents) PROVE Goal
  BY <1>1 DEF TurnKept, Due, Managed
<1>2. ASSUME NEW s \in Session, NEW kind \in Requests, Request(s, kind) PROVE Goal
  <2>1. kind \in Kinds \ TurnEvents
    BY DEF Kinds, Requests, TurnEvents
  <2> QED BY <1>1, <1>2, <2>1 DEF Request, Passes
<1>3. ASSUME Shutdown PROVE Goal
  <2>1. "stop" \in Kinds \ TurnEvents
    BY DEF Kinds, Control, TurnEvents
  <2> QED BY <1>1, <1>3, <2>1 DEF Shutdown, Passes
<1>4. ASSUME EmptyTimerFires PROVE Goal
  <2>1. "empty_timeout" \in Kinds \ TurnEvents
    BY DEF Kinds, EmptyEvent, TurnEvents
  <2> QED BY <1>1, <1>4, <2>1 DEF EmptyTimerFires, PostOrLose, Passes
<1>5. ASSUME Gone PROVE Goal
  BY <1>1, <1>5 DEF Gone, vars, Passes
<1>6. ASSUME NEW out \in SUBSET (Events \ TurnEvents), mailbox # <<>>, Serve(out), Head(mailbox).kind \notin TurnEvents,
             turnTimer' = turnTimer, phase' = phase, phase = "playing" => Due' = Due
      PROVE  Goal
  BY <1>6 DEF TurnKept, Passes
<1>7. ASSUME NEW p \in Members, phase # "playing", mailbox # <<>>, Head(mailbox).kind \notin TurnEvents, RemoveMember(p)
      PROVE  Goal
  <2>1. CASE BeginDestroy
    BY <1>7, <2>1, Outdated DEF BeginDestroy, TurnReset, Events
  <2>2. CASE ~BeginDestroy
    BY <1>0, <1>6, <1>7, <2>2, RemoveMemberFacts
  <2> QED BY <2>1, <2>2
<1>8. ASSUME NEW p \in Members, phase = "playing", mailbox # <<>>, Head(mailbox).kind \notin TurnEvents, KeepSeat(p)
      PROVE  Goal
  <2>1. /\ session' = [session EXCEPT ![p] = NoSession] /\ autoPlay' = autoPlay \cup {p}
        /\ phase' = phase /\ turnOf' = turnOf /\ RescheduleIfDue(p, {})
    BY <1>8 DEF KeepSeat
  <2>2. p # turnOf => Due' = Due
    BY <1>0, <1>8, <2>1 DEF Due, Managed
  <2> QED BY <1>0, <1>8, <2>1, <2>2, Rescheduled
<1>9. ASSUME NEW s \in Session, Disconnect(s) \/ Leave(s) PROVE Goal
  <2>1. mailbox # <<>> /\ Head(mailbox).kind \notin TurnEvents /\ PlayerOf[s] \in Members
    BY <1>9 DEF Disconnect, Leave, Bound, From, Current, TurnEvents
  <2> QED BY <1>7, <1>8, <1>9, <2>1 DEF Disconnect, Leave
<1>10. ASSUME NEW s \in Session, Kick(s) PROVE Goal
  <2>1. mailbox # <<>> /\ Head(mailbox).kind \notin TurnEvents /\ phase = "waiting" /\ \E p \in Members : RemoveMember(p)
    BY <1>10 DEF Kick, Commands, From, Current, TurnEvents
  <2> QED BY <1>7, <2>1
<1>11. ASSUME NEW s \in Session, Join(s) \/ Ready(s) PROVE Goal
  <2>1. mailbox # <<>> /\ Head(mailbox).kind \notin TurnEvents /\ phase = "waiting" /\ phase' = phase
        /\ turnTimer' = turnTimer /\ (Serve({}) \/ Serve(EmptyEvent))
    BY <1>11 DEF Join, CanJoin, Ready, From, Current, TurnEvents
  <2> QED BY <1>0, <1>6, <2>1
<1>12. ASSUME NEW s \in Session, Reconnect(s) PROVE Goal
  <2> DEFINE p == PlayerOf[s]
  <2>1. /\ mailbox # <<>> /\ Head(mailbox).kind \notin TurnEvents /\ p \in Members
        /\ session' = [session EXCEPT ![p] = s] /\ autoPlay' = autoPlay \ {p}
        /\ phase' = phase /\ turnOf' = turnOf /\ RescheduleIfDue(p, EmptyEvent)
    BY <1>12 DEF Reconnect, CanReconnect, From, Current, TurnEvents
  <2>2. phase = "playing" /\ p # turnOf => Due' = Due
    BY <1>0, <2>1 DEF Due, Managed
  <2> HIDE DEF p
  <2> QED BY <2>1, <2>2, Rescheduled
<1>13. ASSUME NEW s \in Session, Start(s) \/ Act(s) PROVE Goal
  <2>1. mailbox # <<>> /\ Serve(TurnEvents) /\ ScheduleTurn
    BY <1>13 DEF Start, Act, MoveOn, From, Current
  <2> QED BY <2>1, Scheduled
<1>14. ASSUME NEW kind \in TurnEvents, AutomatedTurn(kind) PROVE Goal
  <2>1. mailbox # <<>> /\ Serve(TurnEvents) /\ ScheduleTurn
    BY <1>14 DEF AutomatedTurn, MoveOn, Current
  <2> QED BY <2>1, Scheduled
<1>15. ASSUME CollectEmptyRoom PROVE Goal
  BY <1>15, Outdated DEF CollectEmptyRoom, BeginDestroy, Current, TurnReset
<1>16. ASSUME Stop PROVE Goal
  <2>1. /\ mailbox # <<>> /\ Head(mailbox).kind = "stop" /\ Serve(TurnEvents \cup EmptyEvent)
        /\ turnTimer' = "off" /\ closing' = closing
    BY <1>16 DEF Stop, Current
  <2>2. closing
    BY <2>1, ServeFacts DEF MailFits
  <2> QED BY <2>1, <2>2, Outdated DEF TurnReset
<1>17. ASSUME FirstSnapshot PROVE Goal
  BY <1>0, <1>6, <1>17 DEF FirstSnapshot, Current, TurnEvents, Due, Managed
<1>18. ASSUME Refuse PROVE Goal
  <2>1. mailbox # <<>> /\ Refused(Head(mailbox)) /\ Serve({}) /\ UNCHANGED <<seats, game, turnTimer>>
    BY <1>18 DEF Refuse
  <2>2. ~(Head(mailbox).live /\ Head(mailbox).kind \in TurnEvents)
    <3> SUFFICES ASSUME Head(mailbox).live, Head(mailbox).kind \in TurnEvents PROVE FALSE
      OBVIOUS
    <3>1. 1 \in LiveQueued(TurnEvents)
      BY <2>1, ServeFacts DEF LiveQueued, Queued
    <3>2. phase = "playing"
      BY <3>1 DEF TurnFits
    <3> QED BY <2>1, <3>2 DEF Refused, TurnEvents
  <2> QED BY <1>0, <1>1, <2>1, <2>2 DEF Passes
<1>19. ASSUME Drain PROVE Goal
  <2>1. mailbox' = <<>> /\ loop = "draining" /\ UNCHANGED <<seats, game, timers, closing>>
    BY <1>19 DEF Drain
  <2>2. closing
    BY <2>1 DEF MailFits
  <2>3. LiveQueued(TurnEvents)' = {}
    BY <2>1 DEF LiveQueued, Queued
  <2>4. Due' = Due
    BY <2>1 DEF Due, Managed
  <2> QED BY <2>1, <2>2, <2>3, <2>4 DEF TurnReset, TurnFits
<1>20. ASSUME Serves PROVE Goal
  <2> HIDE DEF Goal
  <2> QED BY <1>9, <1>10, <1>11, <1>12, <1>13, <1>14, <1>15, <1>16, <1>17, <1>18, <1>19, <1>20 DEF Serves
<1>21. ASSUME TurnTimerFires PROVE Goal
  BY <1>21
<1> HIDE DEF Goal
<1>22. Goal
  BY <1>2, <1>3, <1>4, <1>5, <1>20, <1>21 DEF Next
<1>23. QED BY <1>22 DEF Goal

(* A timer that fires adds its event as the only live one, unless the      *)
(* mailbox refuses it.                                                     *)
LEMMA FiredEvent ==
    ASSUME RoomAssumption, TypeOK, NEW kind \in Events, NEW kinds \in SUBSET Events, kind \in kinds, PostOrLose(kind),
           LiveQueued(kinds) = {}
    PROVE  /\ \A i \in LiveQueued(kinds)' : i = Len(mailbox) + 1 /\ mailbox'[i].kind = kind
           /\ Accepts => LiveQueued(kinds)' # {}
<1>0. /\ \A i : i \in LiveQueued(kinds) <=> i \in DOMAIN mailbox /\ mailbox[i].kind \in kinds /\ mailbox[i].live
      /\ \A i : i \in LiveQueued(kinds)' <=> i \in DOMAIN mailbox' /\ mailbox'[i].kind \in kinds /\ mailbox'[i].live
  BY DEF LiveQueued, Queued
<1>1. CASE ~Accepts
  <2>1. mailbox' = mailbox
    BY <1>1 DEF PostOrLose
  <2>2. LiveQueued(kinds)' = {}
    BY <1>0, <2>1
  <2> QED BY <1>1, <2>2
<1>2. CASE Accepts
  <2>1. Post(kind, NoSession) /\ kind \in Requests \cup TurnEvents \cup EmptyEvent \cup Control
    BY <1>2 DEF PostOrLose, Events
  <2>2. /\ DOMAIN mailbox' = 1 .. Len(mailbox) + 1 /\ DOMAIN mailbox = 1 .. Len(mailbox) /\ Len(mailbox) \in Nat
        /\ \A i \in DOMAIN mailbox : mailbox'[i] = mailbox[i]
        /\ mailbox'[Len(mailbox) + 1] = [kind |-> kind, from |-> NoSession, live |-> TRUE]
    BY <1>2, <2>1, PostFacts
  <2>3. mailbox'[Len(mailbox) + 1].kind = kind /\ mailbox'[Len(mailbox) + 1].live
    BY <2>2
  <2>4. \A i \in LiveQueued(kinds)' : i = Len(mailbox) + 1
    <3> SUFFICES ASSUME NEW i \in LiveQueued(kinds)', i # Len(mailbox) + 1 PROVE FALSE
      OBVIOUS
    <3>1. i \in DOMAIN mailbox
      BY <1>0, <2>2
    <3> QED BY <1>0, <2>2, <3>1
  <2>5. Len(mailbox) + 1 \in LiveQueued(kinds)'
    BY <1>0, <2>2, <2>3
  <2> QED BY <2>3, <2>4, <2>5
<1> QED BY <1>1, <1>2

(* A step keeps TurnFits, and with it the type of the turn timer.          *)
LEMMA TurnFitsKept ==
    ASSUME RoomAssumption, TypeOK, MailFits, SeatsFit, TurnFits, Next
    PROVE  TurnFits' /\ turnTimer' \in {"off"} \cup TurnEvents
<1>1. ASSUME TurnReset PROVE TurnFits'
  BY <1>1 DEF TurnReset, TurnFits
<1>2. ASSUME TurnKept PROVE TurnFits'
  <2>1. /\ LiveQueued(TurnEvents)' = {} <=> LiveQueued(TurnEvents) = {}
        /\ \A i \in LiveQueued(TurnEvents)' : \E j \in LiveQueued(TurnEvents) : mailbox'[i].kind = mailbox[j].kind
        /\ \A i, j \in LiveQueued(TurnEvents)' : i = j
    BY <1>2, PassesFacts DEF TurnKept, TurnFits
  <2>2. turnTimer' = turnTimer /\ phase' = phase /\ (phase = "playing" => Due' = Due)
    BY <1>2 DEF TurnKept
  <2>3. turnTimer' # "off" => phase' = "playing" /\ turnTimer' = Due' /\ LiveQueued(TurnEvents)' = {}
    BY <2>1, <2>2 DEF TurnFits
  <2>4. \A i \in LiveQueued(TurnEvents)' : phase' = "playing" /\ mailbox'[i].kind = Due'
    BY <2>1, <2>2 DEF TurnFits
  <2> QED BY <2>1, <2>3, <2>4 DEF TurnFits
<1>3. ASSUME TurnTimerFires PROVE TurnFits'
  <2>1. /\ turnTimer # "off" /\ PostOrLose(turnTimer) /\ turnTimer' = "off"
        /\ UNCHANGED <<seats, game>>
    BY <1>3 DEF TurnTimerFires
  <2>2. phase = "playing" /\ turnTimer = Due /\ LiveQueued(TurnEvents) = {}
    BY <2>1 DEF TurnFits
  <2>3. turnTimer \in TurnEvents /\ turnTimer \in Events /\ TurnEvents \in SUBSET Events
    BY <2>1 DEF TypeOK, Events
  <2>4. \A i \in LiveQueued(TurnEvents)' : i = Len(mailbox) + 1 /\ mailbox'[i].kind = turnTimer
    BY <2>1, <2>2, <2>3, FiredEvent
  <2>5. Due' = Due /\ phase' = phase
    BY <2>1 DEF Due, Managed, seats, game
  <2> QED BY <2>1, <2>2, <2>4, <2>5 DEF TurnFits
<1>4. TurnFits'
  BY <1>1, <1>2, <1>3, TurnCases
<1>5. turnTimer' \in {"off"} \cup TurnEvents
  <2>1. Due' \in TurnEvents
    BY DEF Due, TurnEvents
  <2> QED BY <1>4, <2>1 DEF TurnFits
<1> QED BY <1>4, <1>5

(* A room that closes does not open again.                                 *)
LEMMA ClosingStays ==
    ASSUME RoomAssumption, TypeOK, MailFits, Next
    PROVE  closing => closing'
BY MailCases DEF Posts, Handles, Drain, TypeOK

(* The mailbox has room for another command. In a full one submit loses    *)
(* the event of a timer, and with it the turn or the countdown: what is    *)
(* said under HasRoom is not true without it. TLC breaks OneEventPerTurn   *)
(* and EmptyRoomCountsDown with a mailbox of one to three commands and two *)
(* requests at a time; on the instance of the run, one request and a       *)
(* mailbox of eight, HasRoom always holds.                                 *)
HasRoom == Len(mailbox) < MailboxSize

(* A running round has an event to come: a timer or a live event.          *)
Armed == ~closing /\ phase = "playing" => turnTimer # "off" \/ LiveQueued(TurnEvents) # {}

(* While the mailbox has room, a step keeps Armed.                         *)
LEMMA ArmedKept ==
    ASSUME RoomAssumption, TypeOK, MailFits, SeatsFit, TurnFits, HasRoom, Armed, Next
    PROVE  Armed'
<1>1. closing => closing'
  BY ClosingStays
<1>2. ASSUME TurnReset PROVE Armed'
  BY <1>2 DEF TurnReset, Armed
<1>3. ASSUME TurnKept PROVE Armed'
  <2>1. LiveQueued(TurnEvents)' = {} <=> LiveQueued(TurnEvents) = {}
    BY <1>3, PassesFacts DEF TurnKept
  <2> QED BY <1>1, <1>3, <2>1 DEF TurnKept, Armed
<1>4. ASSUME TurnTimerFires PROVE Armed'
  <2>1. turnTimer # "off" /\ PostOrLose(turnTimer) /\ closing' = closing
    BY <1>4 DEF TurnTimerFires
  <2>2. LiveQueued(TurnEvents) = {}
    BY <2>1 DEF TurnFits
  <2>3. turnTimer \in TurnEvents /\ turnTimer \in Events /\ TurnEvents \in SUBSET Events
    BY <2>1 DEF TypeOK, Events
  <2>4. Accepts => LiveQueued(TurnEvents)' # {}
    BY <2>1, <2>2, <2>3, FiredEvent
  <2> QED BY <2>1, <2>4 DEF Armed, Accepts, HasRoom
<1> QED BY <1>2, <1>3, <1>4, TurnCases

-----------------------------------------------------------------------------
(* How management and strikes go together: a member with a connection that *)
(* is managed has all its strikes, and one that is not managed has not.    *)
StrikesFit ==
    \A p \in Members : /\ strikes[p] <= StrikeLimit
                       /\ p \in autoPlay /\ session[p] # NoSession => strikes[p] = StrikeLimit
                       /\ p \notin autoPlay => strikes[p] < StrikeLimit

(* A step keeps StrikesFit. A time-out is counted for the player in turn   *)
(* only while that player is not managed, since the event would be the     *)
(* managed one otherwise (TurnFits); so no count passes the limit.         *)
LEMMA StrikesKept ==
    ASSUME RoomAssumption, TypeOK, SeatsFit, TurnFits, StrikesFit, Next
    PROVE  StrikesFit'
<1> USE DEF seats, game
<1>0. /\ Members \subseteq Player /\ StrikeLimit \in Nat \ {0}
      /\ session \in [Player -> Session \cup {NoSession}] /\ strikes \in [Player -> Nat]
      /\ autoPlay \subseteq Members
  BY MembersArePlayers DEF RoomAssumption, TypeOK
<1>1. ASSUME UNCHANGED <<members, session, strikes, autoPlay>> PROVE StrikesFit'
  <2>1. Members' = Members
    BY <1>1 DEF Members
  <2> QED BY <1>1, <2>1 DEF StrikesFit
<1>2. ASSUME NEW p \in Members, RemoveMember(p) PROVE StrikesFit'
  <2>1. /\ Members' = Members \ {p} /\ session' = [session EXCEPT ![p] = NoSession]
        /\ strikes' = [strikes EXCEPT ![p] = 0] /\ autoPlay' = autoPlay \ {p}
    BY <1>2, RemoveMemberFacts
  <2> QED BY <1>0, <2>1 DEF StrikesFit
<1>3. ASSUME NEW p \in Members, KeepSeat(p) PROVE StrikesFit'
  <2>1. /\ members' = members /\ session' = [session EXCEPT ![p] = NoSession]
        /\ strikes' = strikes /\ autoPlay' = autoPlay \cup {p}
    BY <1>3 DEF KeepSeat
  <2>2. Members' = Members
    BY <2>1 DEF Members
  <2> QED BY <1>0, <2>1, <2>2 DEF StrikesFit
<1>4. ASSUME NEW s \in Session, Disconnect(s) \/ Leave(s) \/ Kick(s) PROVE StrikesFit'
  BY <1>2, <1>3, <1>4 DEF Disconnect, Leave, Kick, Bound
<1>5. ASSUME NEW s \in Session, Join(s) PROVE StrikesFit'
  <2>1. /\ Members' = Members \cup {PlayerOf[s]} /\ PlayerOf[s] \in Player \ Members
        /\ session' = [session EXCEPT ![PlayerOf[s]] = s] /\ strikes' = strikes /\ autoPlay' = autoPlay
    BY <1>5, JoinFacts DEF Join
  <2>2. strikes[PlayerOf[s]] = 0 /\ PlayerOf[s] \notin autoPlay
    BY <1>0, <2>1 DEF SeatsFit
  <2> QED BY <1>0, <2>1, <2>2 DEF StrikesFit
<1>6. ASSUME NEW s \in Session, Reconnect(s) PROVE StrikesFit'
  <2>1. /\ members' = members /\ session' = [session EXCEPT ![PlayerOf[s]] = s]
        /\ strikes' = [strikes EXCEPT ![PlayerOf[s]] = 0] /\ autoPlay' = autoPlay \ {PlayerOf[s]}
    BY <1>6 DEF Reconnect
  <2>2. Members' = Members
    BY <2>1 DEF Members
  <2> QED BY <1>0, <2>1, <2>2 DEF StrikesFit
<1>7. ASSUME NEW s \in Session, Act(s) PROVE StrikesFit'
  <2>1. /\ members' = members /\ session' = session
        /\ strikes' = [strikes EXCEPT ![turnOf] = 0] /\ autoPlay' = autoPlay \ {turnOf}
    BY <1>7 DEF Act
  <2>2. Members' = Members
    BY <2>1 DEF Members
  <2> QED BY <1>0, <2>1, <2>2 DEF StrikesFit
<1>8. ASSUME NEW kind \in TurnEvents, AutomatedTurn(kind) PROVE StrikesFit'
  <2>1. /\ members' = members /\ session' = session /\ phase = "playing"
        /\ strikes' = IF kind = "turn_timeout" THEN [strikes EXCEPT ![turnOf] = @ + 1] ELSE strikes
        /\ autoPlay' = IF kind = "turn_timeout" /\ strikes'[turnOf] >= StrikeLimit
                       THEN autoPlay \cup {turnOf} ELSE autoPlay
    BY <1>8 DEF AutomatedTurn
  <2>2. Members' = Members /\ turnOf \in Members
    BY <2>1 DEF Members, SeatsFit
  <2>3. CASE kind # "turn_timeout"
    BY <1>1, <2>1, <2>3
  <2>4. CASE kind = "turn_timeout"
    <3>1. 1 \in LiveQueued(TurnEvents) /\ mailbox[1].kind = kind
      <4>1. mailbox # <<>> /\ Head(mailbox).kind = kind /\ Head(mailbox).live
        BY <1>8 DEF AutomatedTurn, Current
      <4>2. 1 \in DOMAIN mailbox /\ Head(mailbox) = mailbox[1]
        BY <4>1 DEF TypeOK
      <4> QED BY <4>1, <4>2 DEF LiveQueued, Queued
    <3>2. Due = "turn_timeout"
      BY <2>4, <3>1 DEF TurnFits
    <3>3. turnOf \notin autoPlay
      BY <3>2 DEF Due, Managed
    <3>4. strikes[turnOf] < StrikeLimit /\ strikes[turnOf] \in Nat
      BY <1>0, <2>2, <3>3 DEF StrikesFit
    <3>5. strikes' = [strikes EXCEPT ![turnOf] = strikes[turnOf] + 1]
      BY <2>1, <2>4
    <3>6. strikes'[turnOf] = strikes[turnOf] + 1 /\ \A q \in Members \ {turnOf} : strikes'[q] = strikes[q]
      BY <1>0, <2>2, <3>5
    <3>7. turnOf \in autoPlay' <=> strikes'[turnOf] >= StrikeLimit
      BY <2>1, <2>4, <3>3
    <3>8. \A q \in Members \ {turnOf} : q \in autoPlay' <=> q \in autoPlay
      BY <2>1
    <3>9. ASSUME NEW q \in Members
          PROVE  /\ strikes'[q] <= StrikeLimit
                 /\ q \in autoPlay' /\ session'[q] # NoSession => strikes'[q] = StrikeLimit
                 /\ q \notin autoPlay' => strikes'[q] < StrikeLimit
      <4>1. CASE q = turnOf
        BY <1>0, <3>4, <3>6, <3>7, <4>1
      <4>2. CASE q # turnOf
        BY <2>1, <3>6, <3>8, <4>2 DEF StrikesFit
      <4> QED BY <4>1, <4>2
    <3> QED BY <2>2, <3>9 DEF StrikesFit
  <2> QED BY <2>3, <2>4
<1>9. ASSUME Serves PROVE StrikesFit'
  <2>1. ASSUME \/ CollectEmptyRoom \/ FirstSnapshot \/ Stop \/ Refuse \/ Drain
               \/ \E s \in Session : Ready(s) \/ Start(s)
        PROVE  StrikesFit'
    BY <1>1, <2>1 DEF CollectEmptyRoom, FirstSnapshot, Stop, Refuse, Drain, Ready, Start
  <2> QED BY <1>4, <1>5, <1>6, <1>7, <1>8, <1>9, <2>1 DEF Serves
<1>10. ASSUME ~Serves PROVE StrikesFit'
  BY <1>1, <1>10 DEF Next, Request, Shutdown, TurnTimerFires, EmptyTimerFires, Gone, vars
<1> QED BY <1>9, <1>10

-----------------------------------------------------------------------------
(* The countdown and its event belong to a room without a connection, and  *)
(* the event to a countdown that ran out.                                  *)
EmptyFits ==
    /\ emptyTimer \in {"off", "running", "fired"}
    /\ emptyTimer # "off" => ~HasConnected
    /\ \A i \in LiveQueued(EmptyEvent) : emptyTimer = "fired"

(* The first command of the room is still to be served, if it was.         *)
SnapshotStays == Queued({"snapshot"})' = {} => Queued({"snapshot"}) = {}

(* The step cancels the countdown: somebody is there, or the room closes.  *)
EmptyReset ==
    /\ emptyTimer' = "off" /\ LiveQueued(EmptyEvent)' = {}
    /\ closing' \/ HasConnected'

(* The step leaves the countdown and who is connected alone.               *)
EmptyKept ==
    /\ emptyTimer' = emptyTimer /\ (HasConnected' <=> HasConnected)
    /\ Passes(EmptyEvent) /\ SnapshotStays

(* The step starts the countdown if nobody is left, and connects nobody.   *)
EmptyScheduled ==
    /\ ScheduleEmpty /\ (HasConnected' => HasConnected)
    /\ Passes(EmptyEvent)

(* The step empties the mailbox of a room taken down.                      *)
EmptyGone ==
    /\ emptyTimer' = emptyTimer /\ (HasConnected' <=> HasConnected)
    /\ closing' /\ LiveQueued(EmptyEvent)' = {}

(* Posting does not take the first command away.                           *)
LEMMA SnapshotPosted ==
    ASSUME RoomAssumption, TypeOK, NEW kind \in Kinds, NEW s \in Session \cup {NoSession}, Accepts, Post(kind, s)
    PROVE  SnapshotStays
<1>1. kind \in Requests \cup TurnEvents \cup EmptyEvent \cup Control
  BY DEF Kinds
<1>2. /\ DOMAIN mailbox' = 1 .. Len(mailbox) + 1 /\ DOMAIN mailbox = 1 .. Len(mailbox) /\ Len(mailbox) \in Nat
      /\ \A i \in DOMAIN mailbox : mailbox'[i] = mailbox[i]
  BY <1>1, PostFacts
<1>3. DOMAIN mailbox \subseteq DOMAIN mailbox'
  BY <1>2
<1> QED BY <1>2, <1>3 DEF SnapshotStays, Queued

(* Nor does serving another one.                                           *)
LEMMA SnapshotServed ==
    ASSUME TypeOK, mailbox # <<>>, NEW outdated, Serve(outdated), Head(mailbox).kind # "snapshot"
    PROVE  SnapshotStays
<1>1. /\ DOMAIN mailbox' = 1 .. Len(mailbox) - 1 /\ DOMAIN mailbox = 1 .. Len(mailbox)
      /\ Len(mailbox) \in Nat \ {0} /\ Head(mailbox) = mailbox[1]
      /\ \A i \in DOMAIN mailbox' : mailbox'[i].kind = mailbox[i + 1].kind
  BY ServeFacts
<1>2. ASSUME NEW i \in Queued({"snapshot"}) PROVE i - 1 \in Queued({"snapshot"})'
  <2>1. i \in 1 .. Len(mailbox) /\ i # 1 /\ mailbox[i].kind = "snapshot"
    BY <1>1, <1>2 DEF Queued
  <2>2. i - 1 \in DOMAIN mailbox' /\ i - 1 + 1 = i
    BY <1>1, <2>1
  <2>3. mailbox'[i - 1].kind = "snapshot"
    BY <1>1, <2>1, <2>2
  <2> QED BY <2>2, <2>3 DEF Queued
<1> QED BY <1>2 DEF SnapshotStays

(* What a step does about the countdown: cancels it, leaves it alone,      *)
(* starts it if nobody is left, drops it with the mailbox, or lets it run  *)
(* out. An event of the countdown with the current token is never refused, *)
(* nobody being connected.                                                 *)
LEMMA EmptyCases ==
    ASSUME RoomAssumption, TypeOK, MailFits, EmptyFits, Next
    PROVE  EmptyReset \/ EmptyKept \/ EmptyScheduled \/ EmptyGone \/ EmptyTimerFires
<1> DEFINE Goal == EmptyReset \/ EmptyKept \/ EmptyScheduled \/ EmptyGone \/ EmptyTimerFires
<1> USE DEF seats, game, timers
<1>0. /\ {} \in SUBSET (Events \ EmptyEvent) /\ TurnEvents \in SUBSET (Events \ EmptyEvent)
      /\ session \in [Player -> Session \cup {NoSession}] /\ Members \subseteq Player
      /\ PlayerOf \in [Session -> Player] /\ NoSession \notin Session
  BY MembersArePlayers DEF Events, TurnEvents, EmptyEvent, TypeOK, RoomAssumption
<1>1. ASSUME UNCHANGED <<members, session>> PROVE HasConnected' <=> HasConnected
  BY <1>1 DEF HasConnected, Members
<1>2. ASSUME UNCHANGED <<members, session, emptyTimer>>, mailbox # <<>>,
             NEW out \in SUBSET (Events \ EmptyEvent), Serve(out),
             Head(mailbox).kind \notin EmptyEvent \cup {"snapshot"}
      PROVE  Goal
  BY <1>1, <1>2, SnapshotServed DEF EmptyKept, Passes
<1>3. ASSUME UNCHANGED <<members, session, emptyTimer>>, NEW kind \in Kinds \ EmptyEvent,
             NEW s \in Session \cup {NoSession}, Accepts, Post(kind, s)
      PROVE  Goal
  BY <1>1, <1>3, SnapshotPosted DEF EmptyKept, Passes
<1>4. ASSUME UNCHANGED <<members, session, emptyTimer, mailbox>> PROVE Goal
  BY <1>1, <1>4 DEF EmptyKept, Passes, SnapshotStays, Queued
<1>5. ASSUME NEW s \in Session, NEW kind \in Requests, Request(s, kind) PROVE Goal
  <2>1. kind \in Kinds \ EmptyEvent
    BY DEF Kinds, Requests, EmptyEvent
  <2> QED BY <1>3, <1>5, <2>1 DEF Request
<1>6. ASSUME Shutdown PROVE Goal
  <2>1. "stop" \in Kinds \ EmptyEvent
    BY DEF Kinds, Control, EmptyEvent
  <2> QED BY <1>3, <1>6, <2>1 DEF Shutdown
<1>7. ASSUME TurnTimerFires PROVE Goal
  <2>1. turnTimer \in Kinds \ EmptyEvent /\ PostOrLose(turnTimer) /\ UNCHANGED <<members, session, emptyTimer>>
    BY <1>7 DEF TurnTimerFires, TypeOK, Kinds, TurnEvents, EmptyEvent
  <2>2. CASE Accepts
    BY <1>3, <2>1, <2>2 DEF PostOrLose
  <2>3. CASE ~Accepts
    BY <1>4, <2>1, <2>3 DEF PostOrLose
  <2> QED BY <2>2, <2>3
<1>8. ASSUME Gone PROVE Goal
  BY <1>4, <1>8 DEF Gone, vars
<1>9. ASSUME NEW out \in SUBSET (Events \ EmptyEvent), mailbox # <<>>, Serve(out), Head(mailbox).kind \notin EmptyEvent,
             ScheduleEmpty, HasConnected' => HasConnected
      PROVE  Goal
  BY <1>9 DEF EmptyScheduled, Passes
<1>10. ASSUME BeginDestroy, mailbox # <<>> PROVE Goal
  BY <1>10, Outdated DEF BeginDestroy, EmptyReset
<1>11. ASSUME NEW p \in Members, mailbox # <<>>, Head(mailbox).kind \notin EmptyEvent, RemoveMember(p) PROVE Goal
  <2>1. CASE BeginDestroy
    BY <1>10, <1>11, <2>1
  <2>2. CASE ~BeginDestroy
    <3>1. /\ Members' = Members \ {p} /\ session' = [session EXCEPT ![p] = NoSession]
          /\ ScheduleEmpty /\ Serve({})
      BY <1>11, <2>2, RemoveMemberFacts
    <3>2. HasConnected' => HasConnected
      BY <1>0, <3>1 DEF HasConnected
    <3> QED BY <1>0, <1>9, <1>11, <3>1, <3>2
  <2> QED BY <2>1, <2>2
<1>12. ASSUME NEW p \in Members, mailbox # <<>>, Head(mailbox).kind \notin EmptyEvent, KeepSeat(p) PROVE Goal
  <2>1. /\ members' = members /\ session' = [session EXCEPT ![p] = NoSession]
        /\ ScheduleEmpty /\ RescheduleIfDue(p, {})
    BY <1>12 DEF KeepSeat
  <2>2. HasConnected' => HasConnected
    BY <1>0, <2>1 DEF HasConnected, Members
  <2>3. Serve({}) \/ Serve(TurnEvents)
    BY <2>1 DEF RescheduleIfDue
  <2> QED BY <1>0, <1>9, <1>12, <2>1, <2>2, <2>3
<1>13. ASSUME NEW s \in Session, Disconnect(s) \/ Leave(s) PROVE Goal
  <2>1. mailbox # <<>> /\ Head(mailbox).kind \notin EmptyEvent /\ PlayerOf[s] \in Members
    BY <1>13 DEF Disconnect, Leave, Bound, From, Current, EmptyEvent
  <2> QED BY <1>11, <1>12, <1>13, <2>1 DEF Disconnect, Leave
<1>14. ASSUME NEW s \in Session, Kick(s) PROVE Goal
  <2>1. mailbox # <<>> /\ Head(mailbox).kind \notin EmptyEvent /\ \E p \in Members : RemoveMember(p)
    BY <1>14 DEF Kick, From, Current, EmptyEvent
  <2> QED BY <1>11, <2>1
<1>15. ASSUME mailbox # <<>>, NEW out, EmptyEvent \subseteq out, Serve(out), emptyTimer' = "off", closing' \/ HasConnected'
       PROVE  Goal
  BY <1>15, Outdated DEF EmptyReset
<1>16. ASSUME NEW s \in Session, Join(s) PROVE Goal
  <2>1. /\ mailbox # <<>> /\ Serve(EmptyEvent) /\ emptyTimer' = "off"
        /\ session' = [session EXCEPT ![PlayerOf[s]] = s] /\ PlayerOf[s] \in Members' /\ PlayerOf[s] \in Player
    BY <1>0, <1>16, JoinFacts DEF Join, From, Current
  <2>2. HasConnected'
    BY <1>0, <2>1 DEF HasConnected
  <2> QED BY <1>15, <2>1, <2>2
<1>17. ASSUME NEW s \in Session, Reconnect(s) PROVE Goal
  <2>1. /\ mailbox # <<>> /\ RescheduleIfDue(PlayerOf[s], EmptyEvent) /\ emptyTimer' = "off"
        /\ session' = [session EXCEPT ![PlayerOf[s]] = s] /\ members' = members
        /\ PlayerOf[s] \in Members /\ PlayerOf[s] \in Player
    BY <1>0, <1>17 DEF Reconnect, CanReconnect, From, Current
  <2>2. HasConnected'
    BY <1>0, <2>1 DEF HasConnected, Members
  <2>3. Serve(EmptyEvent) \/ Serve(TurnEvents \cup EmptyEvent)
    BY <2>1 DEF RescheduleIfDue
  <2> QED BY <1>15, <2>1, <2>2, <2>3
<1>18. ASSUME NEW s \in Session, Ready(s) PROVE Goal
  BY <1>0, <1>2, <1>18 DEF Ready, From, Current, EmptyEvent
<1>19. ASSUME NEW s \in Session, Start(s) \/ Act(s) PROVE Goal
  BY <1>0, <1>2, <1>19 DEF Start, Act, MoveOn, From, Current, EmptyEvent
<1>20. ASSUME NEW kind \in TurnEvents, AutomatedTurn(kind) PROVE Goal
  BY <1>0, <1>2, <1>20 DEF AutomatedTurn, MoveOn, Current, EmptyEvent, TurnEvents
<1>21. ASSUME CollectEmptyRoom PROVE Goal
  BY <1>10, <1>21 DEF CollectEmptyRoom, Current
<1>22. ASSUME Stop PROVE Goal
  <2>1. /\ mailbox # <<>> /\ Head(mailbox).kind = "stop" /\ Serve(TurnEvents \cup EmptyEvent)
        /\ emptyTimer' = "off" /\ closing' = closing
    BY <1>22 DEF Stop, Current
  <2>2. closing
    BY <2>1, ServeFacts DEF MailFits
  <2> QED BY <1>15, <2>1, <2>2
<1>23. ASSUME FirstSnapshot PROVE Goal
  <2>1. /\ mailbox # <<>> /\ Head(mailbox).kind \notin EmptyEvent /\ Serve({}) /\ ScheduleEmpty
        /\ UNCHANGED <<members, session>>
    BY <1>23 DEF FirstSnapshot, Current, EmptyEvent
  <2> QED BY <1>0, <1>1, <1>9, <2>1
<1>24. ASSUME Refuse PROVE Goal
  <2>1. mailbox # <<>> /\ Refused(Head(mailbox)) /\ Serve({}) /\ UNCHANGED <<members, session, emptyTimer>>
    BY <1>24 DEF Refuse
  <2>2. Head(mailbox) = mailbox[1] /\ 1 \in DOMAIN mailbox
    BY <2>1, ServeFacts
  <2>3. ~(Head(mailbox).live /\ Head(mailbox).kind \in EmptyEvent)
    <3> SUFFICES ASSUME Head(mailbox).live, Head(mailbox).kind \in EmptyEvent PROVE FALSE
      OBVIOUS
    <3>1. 1 \in LiveQueued(EmptyEvent)
      BY <2>2 DEF LiveQueued, Queued
    <3>2. ~HasConnected
      BY <3>1 DEF EmptyFits
    <3> QED BY <2>1, <3>2 DEF Refused, EmptyEvent, TurnEvents
  <2>4. Head(mailbox).kind # "snapshot"
    BY <2>1, <2>2 DEF Refused, MailFits, TurnEvents, EmptyEvent
  <2> QED BY <1>0, <1>1, <2>1, <2>3, <2>4, SnapshotServed DEF EmptyKept, Passes
<1>25. ASSUME Drain PROVE Goal
  <2>1. mailbox' = <<>> /\ loop = "draining" /\ UNCHANGED <<members, session, emptyTimer, closing>>
    BY <1>25 DEF Drain
  <2>2. LiveQueued(EmptyEvent)' = {}
    BY <2>1 DEF LiveQueued, Queued
  <2> QED BY <1>1, <2>1, <2>2 DEF EmptyGone, MailFits
<1>26. ASSUME Serves PROVE Goal
  <2> HIDE DEF Goal
  <2> QED BY <1>13, <1>14, <1>16, <1>17, <1>18, <1>19, <1>20, <1>21, <1>22, <1>23, <1>24, <1>25, <1>26 DEF Serves
<1>27. ASSUME EmptyTimerFires PROVE Goal
  BY <1>27
<1> HIDE DEF Goal
<1>28. Goal
  BY <1>5, <1>6, <1>7, <1>8, <1>26, <1>27 DEF Next
<1>29. QED BY <1>28 DEF Goal

(* A step keeps EmptyFits.                                                 *)
LEMMA EmptyFitsKept ==
    ASSUME RoomAssumption, TypeOK, MailFits, EmptyFits, Next
    PROVE  EmptyFits'
<1>1. ASSUME EmptyReset PROVE EmptyFits'
  BY <1>1 DEF EmptyReset, EmptyFits
<1>2. ASSUME EmptyKept PROVE EmptyFits'
  <2>1. \A i \in LiveQueued(EmptyEvent)' : \E j \in LiveQueued(EmptyEvent) : mailbox'[i].kind = mailbox[j].kind
    BY <1>2, PassesFacts DEF EmptyKept
  <2> QED BY <1>2, <2>1 DEF EmptyKept, EmptyFits
<1>3. ASSUME EmptyScheduled PROVE EmptyFits'
  <2>1. \A i \in LiveQueued(EmptyEvent)' : \E j \in LiveQueued(EmptyEvent) : mailbox'[i].kind = mailbox[j].kind
    BY <1>3, PassesFacts DEF EmptyScheduled
  <2>2. emptyTimer' = IF emptyTimer = "off" /\ ~HasConnected' THEN "running" ELSE emptyTimer
    BY <1>3 DEF EmptyScheduled, ScheduleEmpty
  <2>3. HasConnected' => HasConnected
    BY <1>3 DEF EmptyScheduled
  <2>4. emptyTimer' \in {"off", "running", "fired"} /\ (emptyTimer' # "off" => ~HasConnected')
    BY <2>2, <2>3 DEF EmptyFits
  <2>5. \A i \in LiveQueued(EmptyEvent)' : emptyTimer' = "fired"
    BY <2>1, <2>2 DEF EmptyFits
  <2> QED BY <2>4, <2>5 DEF EmptyFits
<1>4. ASSUME EmptyGone PROVE EmptyFits'
  BY <1>4 DEF EmptyGone, EmptyFits
<1>5. ASSUME EmptyTimerFires PROVE EmptyFits'
  <2>1. emptyTimer = "running" /\ emptyTimer' = "fired" /\ UNCHANGED <<members, session>>
    BY <1>5 DEF EmptyTimerFires, seats
  <2>2. HasConnected' <=> HasConnected
    BY <2>1 DEF HasConnected, Members
  <2> QED BY <2>1, <2>2 DEF EmptyFits
<1> QED BY <1>1, <1>2, <1>3, <1>4, <1>5, EmptyCases

(* The countdown is not forgotten: one that ran out has its event in the   *)
(* mailbox, and from the first command on a room without a connection has  *)
(* one.                                                                    *)
Collects ==
    /\ ~closing /\ emptyTimer = "fired" => LiveQueued(EmptyEvent) # {}
    /\ ~closing /\ Queued({"snapshot"}) = {} /\ ~HasConnected => emptyTimer # "off"

(* While the mailbox has room, a step keeps Collects.                      *)
LEMMA CollectsKept ==
    ASSUME RoomAssumption, TypeOK, MailFits, EmptyFits, HasRoom, Collects, Next
    PROVE  Collects'
<1>1. closing => closing'
  BY ClosingStays
<1>2. ASSUME EmptyReset PROVE Collects'
  BY <1>2 DEF EmptyReset, Collects
<1>3. ASSUME EmptyKept PROVE Collects'
  <2>1. LiveQueued(EmptyEvent)' = {} <=> LiveQueued(EmptyEvent) = {}
    BY <1>3, PassesFacts DEF EmptyKept
  <2>2. emptyTimer' = emptyTimer /\ (HasConnected' <=> HasConnected)
        /\ (Queued({"snapshot"})' = {} => Queued({"snapshot"}) = {})
    BY <1>3 DEF EmptyKept, SnapshotStays
  <2> QED BY <1>1, <2>1, <2>2 DEF Collects
<1>4. ASSUME EmptyScheduled PROVE Collects'
  <2>1. LiveQueued(EmptyEvent)' = {} <=> LiveQueued(EmptyEvent) = {}
    BY <1>4, PassesFacts DEF EmptyScheduled
  <2>2. emptyTimer' = IF emptyTimer = "off" /\ ~HasConnected' THEN "running" ELSE emptyTimer
    BY <1>4 DEF EmptyScheduled, ScheduleEmpty
  <2>3. ~HasConnected' => emptyTimer' # "off"
    BY <2>2
  <2>4. emptyTimer' = "fired" => emptyTimer = "fired"
    BY <2>2
  <2> QED BY <1>1, <2>1, <2>3, <2>4 DEF Collects
<1>5. ASSUME EmptyGone PROVE Collects'
  BY <1>5 DEF EmptyGone, Collects
<1>6. ASSUME EmptyTimerFires PROVE Collects'
  <2>1. emptyTimer = "running" /\ emptyTimer' = "fired" /\ PostOrLose("empty_timeout") /\ closing' = closing
    BY <1>6 DEF EmptyTimerFires
  <2>2. "empty_timeout" \in EmptyEvent /\ "empty_timeout" \in Events /\ EmptyEvent \in SUBSET Events
    BY DEF Events, EmptyEvent
  <2>3. LiveQueued(EmptyEvent) = {}
    BY <2>1 DEF EmptyFits
  <2>4. Accepts => LiveQueued(EmptyEvent)' # {}
    BY <2>1, <2>2, <2>3, FiredEvent
  <2> QED BY <2>1, <2>4 DEF Collects, Accepts, HasRoom
<1> QED BY <1>2, <1>3, <1>4, <1>5, <1>6, EmptyCases

-----------------------------------------------------------------------------
(* The inductive invariant of the room.                                    *)
Sound == TypeOK /\ SeatsFit /\ MailFits /\ TurnFits /\ StrikesFit /\ EmptyFits

(* The mailbox a room begins with.                                         *)
FirstMail == mailbox = <<[kind |-> "snapshot", from |-> NoSession, live |-> TRUE]>>

(* It holds the first command and no event.                                *)
LEMMA FirstMailFacts ==
    ASSUME FirstMail, RoomAssumption
    PROVE  /\ mailbox \in Seq(Command) /\ Len(mailbox) <= MailboxSize
           /\ DOMAIN mailbox = {1} /\ mailbox[1].live /\ mailbox[1].kind = "snapshot"
           /\ LiveQueued(TurnEvents) = {} /\ LiveQueued(EmptyEvent) = {} /\ Queued({"snapshot"}) # {}
<1>1. [kind |-> "snapshot", from |-> NoSession, live |-> TRUE] \in Command
  BY DEF Command, Control
<1>2. mailbox \in Seq(Command) /\ Len(mailbox) = 1 /\ DOMAIN mailbox = {1}
      /\ mailbox[1] = [kind |-> "snapshot", from |-> NoSession, live |-> TRUE]
  BY <1>1 DEF FirstMail
<1>3. mailbox[1].live /\ mailbox[1].kind = "snapshot"
  BY <1>2
<1>4. LiveQueued(TurnEvents) = {} /\ LiveQueued(EmptyEvent) = {}
  BY <1>2, <1>3 DEF LiveQueued, Queued, TurnEvents, EmptyEvent
<1>5. 1 \in Queued({"snapshot"})
  BY <1>2, <1>3 DEF Queued
<1>6. Len(mailbox) <= MailboxSize
  BY <1>2 DEF RoomAssumption
<1> QED BY <1>2, <1>3, <1>4, <1>5, <1>6

(* The seats of a room that was created or restored are sound.             *)
LEMMA FirstSeats ==
    ASSUME RoomAssumption, Created \/ Restored, loop = "running"
    PROVE  SeatTypes /\ SeatsFit /\ StrikesFit
<1>0. /\ MaxPlayers \in Nat /\ MaxPlayers >= 2 /\ StrikeLimit \in Nat \ {0}
      /\ PlayerOf \in [Session -> Player]
  BY DEF RoomAssumption
<1>1. ASSUME Created PROVE SeatTypes /\ SeatsFit /\ StrikesFit
  <2>1. PICK s \in Session :
          /\ Fresh
          /\ members = <<PlayerOf[s]>> /\ owner = PlayerOf[s] /\ ready = {owner}
          /\ session = [p \in Player |-> IF p = owner THEN s ELSE NoSession]
    BY <1>1 DEF Created
  <2>2. owner \in Player /\ members = <<owner>> /\ members \in Seq(Player) /\ DOMAIN members = {1}
        /\ Len(members) = 1 /\ members[1] = owner /\ members # <<>>
    BY <1>0, <2>1
  <2>3. Members = {owner} /\ IsInjective(members)
    BY <2>2 DEF Members, ToSet, IsInjective
  <2>4. /\ phase = "waiting" /\ turnOf = NoPlayer /\ autoPlay = {} /\ abandoned = {}
        /\ strikes = [p \in Player |-> 0]
    BY <2>1 DEF Fresh
  <2>5. SeatTypes
    BY <2>1, <2>2, <2>3, <2>4 DEF SeatTypes
  <2>6. SeatsFit
    BY <1>0, <2>1, <2>2, <2>3, <2>4 DEF SeatsFit
  <2>7. StrikesFit
    BY <1>0, <2>2, <2>3, <2>4 DEF StrikesFit
  <2> QED BY <2>5, <2>6, <2>7
<1>2. ASSUME Restored PROVE SeatTypes /\ SeatsFit /\ StrikesFit
  <2>1. /\ members \in SeqOf(Player, MaxPlayers) /\ members # <<>> /\ IsInjective(members)
        /\ owner \in Members /\ session = [p \in Player |-> NoSession] /\ ready \subseteq Members
    BY <1>2 DEF Restored
  <2>2. PICK n \in 0 .. MaxPlayers : members \in [1 .. n -> Player]
    BY <2>1 DEF SeqOf
  <2>3. members \in Seq(Player) /\ Len(members) = n /\ n <= MaxPlayers /\ n \in Nat
    BY <1>0, <2>2
  <2>4. Members \subseteq Player
    BY <2>2 DEF Members, ToSet
  <2>5. CASE Fresh
    <3>1. /\ phase = "waiting" /\ turnOf = NoPlayer /\ autoPlay = {} /\ abandoned = {}
          /\ strikes = [p \in Player |-> 0]
      BY <2>5 DEF Fresh
    <3>2. SeatTypes
      BY <2>1, <2>3, <2>4, <3>1 DEF SeatTypes
    <3>3. SeatsFit
      BY <2>1, <2>3, <3>1 DEF SeatsFit
    <3>4. StrikesFit
      BY <1>0, <2>4, <3>1 DEF StrikesFit
    <3> QED BY <3>2, <3>3, <3>4
  <2>6. CASE ~Fresh
    <3>1. /\ phase = "playing" /\ Len(members) >= MinPlayers
          /\ turnOf \in Members /\ autoPlay = Members /\ abandoned \in SUBSET Members
          /\ strikes \in [Player -> 0 .. StrikeLimit] /\ \A p \in Player \ Members : strikes[p] = 0
      BY <1>2, <2>6 DEF Restored
    <3>2. \A p \in Player : strikes[p] \in Nat /\ strikes[p] <= StrikeLimit
      BY <1>0, <3>1
    <3>3. strikes \in [Player -> Nat]
      BY <3>1, <3>2
    <3>4. SeatTypes
      BY <2>1, <2>3, <2>4, <3>1, <3>3 DEF SeatTypes
    <3>5. SeatsFit
      BY <2>1, <2>3, <3>1 DEF SeatsFit
    <3>6. StrikesFit
      BY <2>1, <2>4, <3>1, <3>2 DEF StrikesFit
    <3> QED BY <3>4, <3>5, <3>6
  <2> QED BY <2>5, <2>6
<1> QED BY <1>1, <1>2

(* A room begins sound, with its turn and its countdown looked after.      *)
LEMMA InitSound ==
    ASSUME RoomAssumption, Init
    PROVE  Sound /\ Armed /\ Collects
<1>1. FirstMail /\ emptyTimer = "off" /\ closing = FALSE /\ loop = "running" /\ (Created \/ Restored)
  BY DEF Init, FirstMail
<1>2. SeatTypes /\ SeatsFit /\ StrikesFit
  BY <1>1, FirstSeats
<1>3. /\ mailbox \in Seq(Command) /\ Len(mailbox) <= MailboxSize
      /\ DOMAIN mailbox = {1} /\ mailbox[1].live /\ mailbox[1].kind = "snapshot"
      /\ LiveQueued(TurnEvents) = {} /\ LiveQueued(EmptyEvent) = {} /\ Queued({"snapshot"}) # {}
  BY <1>1, FirstMailFacts
<1>4. \/ phase = "waiting" /\ turnTimer = "off"
      \/ phase = "playing" /\ turnTimer = "auto_play" /\ Due = "auto_play"
  <2>1. CASE Fresh
    BY <2>1 DEF Fresh
  <2>2. CASE ~Fresh
    <3>1. phase = "playing" /\ turnTimer = "auto_play" /\ turnOf \in autoPlay
      BY <1>1, <2>2 DEF Created, Restored
    <3> QED BY <3>1 DEF Due, Managed
  <2> QED BY <2>1, <2>2
<1>5. TypeOK
  BY <1>1, <1>2, <1>3, <1>4 DEF TypeOK, SeatTypes, TurnEvents
<1>6. MailFits
  BY <1>1, <1>3 DEF MailFits
<1>7. TurnFits /\ Armed
  BY <1>3, <1>4 DEF TurnFits, Armed
<1>8. EmptyFits /\ Collects
  BY <1>1, <1>3 DEF EmptyFits, Collects
<1> QED BY <1>2, <1>5, <1>6, <1>7, <1>8 DEF Sound

(* A step that changes nothing keeps everything.                           *)
LEMMA Stutters ==
    ASSUME UNCHANGED vars
    PROVE  /\ Sound => Sound'
           /\ (Armed => Armed') /\ (Collects => Collects')
<1>1. UNCHANGED <<members, owner, session, ready, autoPlay, abandoned, strikes, phase, turnOf,
                  turnTimer, emptyTimer, mailbox, closing, loop>>
  BY DEF vars, seats, game, timers
<1>2. /\ Members' = Members /\ (HasConnected' <=> HasConnected) /\ Due' = Due
      /\ Queued({"snapshot"})' = Queued({"snapshot"})
      /\ LiveQueued(TurnEvents)' = LiveQueued(TurnEvents) /\ LiveQueued(EmptyEvent)' = LiveQueued(EmptyEvent)
  BY <1>1 DEF Members, HasConnected, Due, Managed, LiveQueued, Queued
<1>3. Sound => Sound'
  <2> SUFFICES ASSUME Sound PROVE Sound'
    OBVIOUS
  <2>1. TypeOK' /\ SeatsFit'
    BY <1>1, <1>2 DEF Sound, TypeOK, SeatsFit
  <2>2. MailFits' /\ TurnFits'
    BY <1>1, <1>2 DEF Sound, MailFits, TurnFits
  <2>3. StrikesFit' /\ EmptyFits'
    BY <1>1, <1>2 DEF Sound, StrikesFit, EmptyFits
  <2> QED BY <2>1, <2>2, <2>3 DEF Sound
<1>4. (Armed => Armed') /\ (Collects => Collects')
  BY <1>1, <1>2 DEF Armed, Collects
<1> QED BY <1>3, <1>4

(* A step keeps the invariant.                                             *)
LEMMA SoundKept ==
    ASSUME RoomAssumption, Sound, Next
    PROVE  Sound'
<1>1. SeatTypes' /\ SeatsFit'
  BY SeatsKept DEF Sound
<1>2. /\ mailbox' \in Seq(Command) /\ Len(mailbox') <= MailboxSize
      /\ closing' \in BOOLEAN /\ loop' \in {"running", "draining", "ended"} /\ MailFits'
  BY MailKept DEF Sound
<1>3. TurnFits' /\ turnTimer' \in {"off"} \cup TurnEvents
  BY TurnFitsKept DEF Sound
<1>4. StrikesFit' /\ EmptyFits'
  BY StrikesKept, EmptyFitsKept DEF Sound
<1>5. TypeOK'
  BY <1>1, <1>2, <1>3, <1>4 DEF TypeOK, SeatTypes, EmptyFits
<1> QED BY <1>1, <1>2, <1>3, <1>4, <1>5 DEF Sound

-----------------------------------------------------------------------------
(* The inductive invariant holds, for every set of players and             *)
(* connections, any limit of seats and strikes, and a mailbox of any size. *)
THEOREM RoomIsSound == Spec => []Sound
<1>1. Init => Sound
  BY RoomAssumption, InitSound
<1>2. Sound /\ [Next]_vars => Sound'
  BY RoomAssumption, SoundKept, Stutters
<1> QED BY <1>1, <1>2, PTL DEF Spec

(* Every variable has its type; in particular nobody has two seats and the *)
(* mailbox never overflows (submit, room.go).                              *)
THEOREM RoomTyped == Spec => []TypeOK
<1>1. Sound => TypeOK
  BY DEF Sound
<1> QED BY <1>1, RoomIsSound, PTL

(* When the loop has ended no command is left behind: every caller that    *)
(* waits for an answer gets one (rejectPendingCommands).                   *)
THEOREM NobodyOrphaned == Spec => []NoOrphanCommand
<1>1. Sound => NoOrphanCommand
  BY DEF Sound, MailFits, NoOrphanCommand
<1> QED BY <1>1, RoomIsSound, PTL

(* At every moment a room that runs could be restored from its snapshot    *)
(* (validateRoomSnapshot), whatever joins, leaves, kicks and               *)
(* disconnections came before.                                             *)
THEOREM SnapshotsRestore == Spec => []RoomSnapshotRestores
<1>1. ASSUME Sound PROVE RoomSnapshotRestores
  <2>1. phase \in {"waiting", "playing", "settled"}
    BY <1>1 DEF Sound, TypeOK
  <2> QED BY <1>1, <2>1 DEF Sound, SeatsFit, RoomSnapshotRestores
<1> QED BY <1>1, RoomIsSound, PTL

(* A connected member is managed only after StrikeLimit time-outs in a     *)
(* row, and no count passes the limit (handleTurnTimeout).                 *)
THEOREM ManagedWithReason == Spec => []ManagedForAReason
<1>1. Sound => ManagedForAReason
  BY DEF Sound, StrikesFit, ManagedForAReason
<1> QED BY <1>1, RoomIsSound, PTL

(* No step changes the seats of a running round.                           *)
THEOREM RunningSeatsAreKept == Spec => SeatsAreKept
<1>1. ASSUME Sound, [Next]_vars PROVE [phase = "playing" => members' = members]_vars
  <2>1. ASSUME Next, phase = "playing" PROVE members' = members
    <3>1. ASSUME Serves PROVE members' = members
      BY <2>1, <3>1
         DEF Serves, Join, CanJoin, Reconnect, Disconnect, Leave, Kick, Commands, Ready, Start, Act,
             KeepSeat, AutomatedTurn, CollectEmptyRoom, FirstSnapshot, Stop, Refuse, Drain, seats
    <3>2. ASSUME ~Serves PROVE members' = members
      BY <2>1, <3>2 DEF Next, Request, Shutdown, TurnTimerFires, EmptyTimerFires, Gone, vars, seats
    <3> QED BY <3>1, <3>2
  <2> QED BY <1>1, <2>1
<1> QED BY <1>1, RoomIsSound, PTL DEF Spec, SeatsAreKept

(* Who can take a connection from a member, or the member from it.         *)
LEMMA UnbindCases ==
    ASSUME RoomAssumption, TypeOK, Next, NEW p \in Members, session[p] # NoSession, session'[p] # session[p]
    PROVE  \/ Head(mailbox).from = session[p]
           \/ Head(mailbox).kind = "kick" /\ Head(mailbox).from = session[owner]
           \/ Head(mailbox).kind = "reconnect" /\ session'[p] = Head(mailbox).from
<1> DEFINE Goal == \/ Head(mailbox).from = session[p]
                   \/ Head(mailbox).kind = "kick" /\ Head(mailbox).from = session[owner]
                   \/ Head(mailbox).kind = "reconnect" /\ session'[p] = Head(mailbox).from
<1>0. p \in Player /\ session \in [Player -> Session \cup {NoSession}]
  BY MembersArePlayers DEF TypeOK
<1>1. ASSUME session' = session PROVE Goal
  BY <1>1
<1>2. ASSUME NEW s \in Session, Disconnect(s) \/ Leave(s) PROVE Goal
  <2>1. session' = [session EXCEPT ![PlayerOf[s]] = NoSession] /\ session[PlayerOf[s]] = s /\ Head(mailbox).from = s
    BY <1>2 DEF Disconnect, Leave, KeepSeat, RemoveMember, Bound, From
  <2> QED BY <1>0, <2>1
<1>3. ASSUME NEW s \in Session, Kick(s) PROVE Goal
  BY <1>3 DEF Kick, Commands, Bound, From, Current
<1>4. ASSUME NEW s \in Session, Join(s) PROVE Goal
  BY <1>0, <1>4 DEF Join, CanJoin
<1>5. ASSUME NEW s \in Session, Reconnect(s) PROVE Goal
  <2>1. session' = [session EXCEPT ![PlayerOf[s]] = s] /\ Head(mailbox).kind = "reconnect" /\ Head(mailbox).from = s
    BY <1>5 DEF Reconnect, From, Current
  <2> QED BY <1>0, <2>1
<1>6. ASSUME Serves PROVE Goal
  <2>1. ASSUME \/ CollectEmptyRoom \/ FirstSnapshot \/ Stop \/ Refuse \/ Drain
               \/ \E s \in Session : Ready(s) \/ Start(s) \/ Act(s)
               \/ \E kind \in TurnEvents : AutomatedTurn(kind)
        PROVE  session' = session
    BY <2>1 DEF CollectEmptyRoom, FirstSnapshot, Stop, Refuse, Drain, Ready, Start, Act, AutomatedTurn, seats
  <2> HIDE DEF Goal
  <2> QED BY <1>1, <1>2, <1>3, <1>4, <1>5, <1>6, <2>1 DEF Serves
<1>7. ASSUME ~Serves PROVE Goal
  <2>1. session' = session
    BY <1>7 DEF Next, Request, Shutdown, TurnTimerFires, EmptyTimerFires, Gone, vars, seats
  <2> QED BY <1>1, <2>1
<1> HIDE DEF Goal
<1>8. Goal
  BY <1>6, <1>7
<1>9. QED BY <1>8 DEF Goal

(* A member loses its connection only by a command of that connection, by  *)
(* the owner's kick, or to a newer connection of the same player           *)
(* (handleDisconnect compares the sessions).                               *)
THEOREM ReplacedConnectionsAreHarmless == Spec => OnlyBoundSessionUnbinds
<1> DEFINE Step ==
      \A p \in Members :
          session[p] # NoSession /\ session'[p] # session[p] =>
             \/ Head(mailbox).from = session[p]
             \/ Head(mailbox).kind = "kick" /\ Head(mailbox).from = session[owner]
             \/ Head(mailbox).kind = "reconnect" /\ session'[p] = Head(mailbox).from
<1>1. Sound /\ [Next]_vars => [Step]_vars
  BY RoomAssumption, UnbindCases DEF Sound
<1>2. Spec => [][Step]_vars
  <2> HIDE DEF Step
  <2> QED BY <1>1, RoomIsSound, PTL DEF Spec
<1> QED BY <1>2 DEF OnlyBoundSessionUnbinds, Step

-----------------------------------------------------------------------------
(* The inductive invariant of a room whose mailbox does not fill up.       *)
Counting == Sound /\ Armed /\ Collects

(* As long as the mailbox has room no event is lost: a running round       *)
(* always has its event, and an empty room its countdown.                  *)
THEOREM RoomKeepsCounting == Spec /\ []HasRoom => []Counting
<1>1. Init => Counting
  BY RoomAssumption, InitSound DEF Counting
<1>2. Counting /\ HasRoom /\ [Next]_vars => Counting'
  <2>1. ASSUME Counting, HasRoom, Next PROVE Counting'
    BY <2>1, RoomAssumption, SoundKept, ArmedKept, CollectsKept DEF Counting, Sound
  <2>2. ASSUME Counting, UNCHANGED vars PROVE Counting'
    BY <2>2, Stutters DEF Counting
  <2> QED BY <2>1, <2>2
<1> QED BY <1>1, <1>2, PTL DEF Spec

(* TurnFits and Armed together are OneEventPerTurn.                        *)
LEMMA OneEvent ==
    ASSUME TypeOK, TurnFits, Armed
    PROVE  OneEventPerTurn
<1> SUFFICES ASSUME ~closing
             PROVE  IF phase # "playing" THEN turnTimer = "off" /\ LiveQueued(TurnEvents) = {}
                    ELSE LET kind  == IF Managed(turnOf) THEN "auto_play" ELSE "turn_timeout"
                             other == TurnEvents \ {kind}
                         IN  /\ turnTimer \notin other /\ LiveQueued(other) = {}
                             /\ Cardinality(LiveQueued({kind})) = IF turnTimer = kind THEN 0 ELSE 1
  BY DEF OneEventPerTurn
<1>1. ASSUME phase # "playing" PROVE turnTimer = "off" /\ LiveQueued(TurnEvents) = {}
  BY <1>1 DEF TurnFits
<1>2. ASSUME phase = "playing"
      PROVE  /\ turnTimer \notin TurnEvents \ {Due} /\ LiveQueued(TurnEvents \ {Due}) = {}
             /\ Cardinality(LiveQueued({Due})) = IF turnTimer = Due THEN 0 ELSE 1
  <2>1. Due \in TurnEvents /\ Due # "off"
    BY DEF Due, TurnEvents
  <2>2. turnTimer \in {"off", Due}
    BY DEF TurnFits
  <2>3. /\ \A i \in LiveQueued(TurnEvents) : mailbox[i].kind = Due
        /\ \A i, j \in LiveQueued(TurnEvents) : i = j
        /\ turnTimer = Due => LiveQueued(TurnEvents) = {}
        /\ turnTimer # Due => LiveQueued(TurnEvents) # {}
    BY <1>2, <2>1, <2>2 DEF TurnFits, Armed
  <2>4. LiveQueued(TurnEvents \ {Due}) = {} /\ LiveQueued({Due}) = LiveQueued(TurnEvents)
    BY <2>1, <2>3 DEF LiveQueued, Queued
  <2>5. ASSUME turnTimer = Due PROVE Cardinality(LiveQueued({Due})) = 0
    BY <2>3, <2>4, <2>5, FS_EmptySet
  <2>6. ASSUME turnTimer # Due PROVE Cardinality(LiveQueued({Due})) = 1
    <3>1. PICK i \in LiveQueued(TurnEvents) : LiveQueued(TurnEvents) = {i}
      BY <2>3, <2>6
    <3> QED BY <2>4, <3>1, FS_Singleton
  <2>7. turnTimer \notin TurnEvents \ {Due}
    BY <2>2 DEF TurnEvents
  <2>8. Cardinality(LiveQueued({Due})) = IF turnTimer = Due THEN 0 ELSE 1
    BY <2>5, <2>6
  <2> QED BY <2>4, <2>7, <2>8
<1> QED BY <1>1, <1>2 DEF Due

(* As long as the mailbox has room, a running round has exactly one event  *)
(* to come, the one its player in turn calls for (scheduleTurnTimer after  *)
(* every handler that touches the turn).                                   *)
THEOREM TurnsHaveOneEvent == Spec /\ []HasRoom => []OneEventPerTurn
<1>1. Counting => OneEventPerTurn
  BY OneEvent DEF Counting, Sound
<1> QED BY <1>1, RoomKeepsCounting, PTL

(* As long as the mailbox has room, a room counts down to its collection   *)
(* exactly while nobody is connected (scheduleEmptyRoomCheck,              *)
(* cancelEmptyRoomCheck).                                                  *)
THEOREM EmptyRoomsCountDown == Spec /\ []HasRoom => []EmptyRoomCountsDown
<1>1. ASSUME Counting PROVE EmptyRoomCountsDown
  <2> SUFFICES ASSUME ~closing, Queued({"snapshot"}) = {}
               PROVE  ~HasConnected <=> emptyTimer = "running" \/ LiveQueued(EmptyEvent) # {}
    BY DEF EmptyRoomCountsDown
  <2>1. EmptyFits /\ Collects
    BY <1>1 DEF Counting, Sound
  <2> QED BY <2>1 DEF EmptyFits, Collects
<1> QED BY <1>1, RoomKeepsCounting, PTL
==============================================================================
