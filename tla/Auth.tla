-------------------------------- MODULE Auth --------------------------------
(***************************************************************************)
(* Guest logins and tokens (src/internal/auth/auth.go) of a process that   *)
(* may die and be started again, on top of its id generator (IdGen).  A    *)
(* login draws a player id, stores the player in MySQL, stores the token   *)
(* in Redis, and only then puts it in the cache of the process and answers *)
(* the client.  Checking a token looks in the cache first, then in Redis.  *)
(*                                                                         *)
(* Logins and checks run beside each other, and a call of a store may fail *)
(* although it took effect.  The wall clock is the one of IdGen: it may be *)
(* set back.  Redis counts the life of a token by a clock of its own.      *)
(***************************************************************************)
EXTENDS IdGen

CONSTANTS
    Login,        \* attempts to log in; each has a random token of its own
    Check,        \* requests with a token that are served at the same time
    NoLogin,
    TTL,          \* life of a token
    MaxFailures   \* bound on the calls of the stores that fail

ASSUME AuthAssumption == NoLogin \notin Login /\ {TTL, MaxFailures} \subseteq Nat /\ TTL > 0

VARIABLES
    stage,     \* where each login is
    claim,     \* the player and expiry a login gives its token
    players,   \* MySQL: rows [id, of], of the login that stored it
    sessions,  \* Redis: what each token stands for
    cache,     \* memory: the same
    check,     \* what each request with a token does next
    failures,
    setBack    \* history: the wall clock was set back

authVars == <<stage, claim, players, sessions, cache, check, failures, setBack>>
allVars  == <<vars, authVars>>

Stages  == {"new", "waiting", "player", "session", "publish", "issued", "failed"}
NoClaim == [player |-> 0, expires |-> 0]
Claim   == [player : Nat, expires : Int]
Free    == [step |-> "free", token |-> NoLogin, claim |-> NoClaim]

Fails == failures < MaxFailures /\ failures' = failures + 1

At(l, s)    == stage[l] = s
Moves(l, s) == stage' = [stage EXCEPT ![l] = s]

-----------------------------------------------------------------------------
(* LoginGuestContext.                                                      *)

\* What the id generator answered: an id, no answer yet, or an error.
Drawn(l) ==
    IF Len(issued') > Len(issued)
    THEN /\ Moves(l, "player")
         /\ claim' = [claim EXCEPT ![l] = [player |-> issued'[Len(issued')],
                                           expires |-> clock + TTL]]
    ELSE /\ Moves(l, IF waiting' THEN "waiting" ELSE "failed")
         /\ UNCHANGED claim

DrawId(l) ==
    /\ At(l, "new") /\ Call /\ Drawn(l)
    /\ UNCHANGED <<players, sessions, cache, check, failures, setBack>>

\* The clock is behind the last id, or out of range.
DrawRefused(l) ==
    /\ At(l, "new") /\ ~waiting /\ (~InRange(clock) \/ clock < lastMillis)
    /\ Moves(l, "failed")
    /\ UNCHANGED <<vars, claim, players, sessions, cache, check, failures, setBack>>

\* The caller that waits for the next millisecond: a login, or else a room
\* that records a match.
DrawWaited ==
    /\ WaitEnds \/ WaitFails
    /\ IF \E l \in Login : At(l, "waiting")
       THEN \E l \in Login : At(l, "waiting") /\ Drawn(l)
       ELSE UNCHANGED <<stage, claim>>
    /\ UNCHANGED <<players, sessions, cache, check, failures, setBack>>

RoomDrawsId == Call /\ UNCHANGED authVars

\* CreatePlayer: the id is the primary key.
CreatePlayer_AnyId(l) ==
    /\ At(l, "player")
    /\ players' = players \cup {[id |-> claim[l].player, of |-> l]}
    /\ Moves(l, "session")
    /\ UNCHANGED <<vars, claim, sessions, cache, check, failures, setBack>>
CreatePlayer(l) ==
    /\ At(l, "player")
    /\ \A row \in players : row.id # claim[l].player
    /\ players' = players \cup {[id |-> claim[l].player, of |-> l]}
    /\ \/ Moves(l, "session") /\ UNCHANGED failures
       \/ Moves(l, "failed") /\ Fails
    /\ UNCHANGED <<vars, claim, sessions, cache, check, setBack>>

CreatePlayerFails(l) ==
    /\ At(l, "player")
    /\ \/ UNCHANGED failures /\ \E row \in players : row.id = claim[l].player
       \/ Fails
    /\ Moves(l, "failed")
    /\ UNCHANGED <<vars, claim, players, sessions, cache, check, setBack>>

\* SaveSession, with what is left of the life of the token.
SaveSession_Unchecked(l) ==
    /\ At(l, "session") /\ clock < claim[l].expires
    /\ \/ sessions' = [sessions EXCEPT ![l] = claim[l]] /\ UNCHANGED failures
       \/ Fails /\ UNCHANGED sessions
    /\ Moves(l, "publish")
    /\ UNCHANGED <<vars, claim, players, cache, check, setBack>>
SaveSession(l) ==
    /\ At(l, "session") /\ clock < claim[l].expires
    /\ sessions' = [sessions EXCEPT ![l] = claim[l]]
    /\ \/ Moves(l, "publish") /\ UNCHANGED failures
       \/ Moves(l, "failed") /\ Fails
    /\ UNCHANGED <<vars, claim, players, cache, check, setBack>>

SaveSessionFails(l) ==
    /\ At(l, "session")
    /\ \/ clock >= claim[l].expires /\ UNCHANGED failures
       \/ clock < claim[l].expires /\ Fails
    /\ Moves(l, "failed")
    /\ UNCHANGED <<vars, claim, players, sessions, cache, check, setBack>>

\* The client gets its token.
Publish(l) ==
    /\ At(l, "publish")
    /\ cache' = [cache EXCEPT ![l] = claim[l]]
    /\ Moves(l, "issued")
    /\ UNCHANGED <<vars, claim, players, sessions, check, failures, setBack>>

-----------------------------------------------------------------------------
(* AuthenticateContext: only clients that got their token have one.        *)

Then(c, step, l, record) == check' = [check EXCEPT ![c] = [step |-> step, token |-> l, claim |-> record]]
Asks(c, l) == check[c] = Free /\ At(l, "issued")

Valid(record) == clock < record.expires

\* validateSession forgets an expired token, here and then in Redis.
Expired(c, l) ==
    /\ cache' = [cache EXCEPT ![l] = NoClaim]
    /\ Then(c, "delete", l, NoClaim)

\* A valid token in the cache is accepted, which changes nothing.
CachedExpired(c, l) ==
    /\ Asks(c, l) /\ cache[l] # NoClaim /\ ~Valid(cache[l])
    /\ Expired(c, l)
    /\ UNCHANGED <<vars, stage, claim, players, sessions, failures, setBack>>

\* An absent token, or an error of Redis, refuses the request.
FindSession(c, l) ==
    /\ Asks(c, l) /\ cache[l] = NoClaim /\ sessions[l] # NoClaim
    /\ IF Valid(sessions[l]) THEN Then(c, "fill", l, sessions[l]) /\ UNCHANGED cache
       ELSE Expired(c, l)
    /\ UNCHANGED <<vars, stage, claim, players, sessions, failures, setBack>>

FillCache(c) ==
    /\ check[c].step = "fill"
    /\ cache' = [cache EXCEPT ![check[c].token] = check[c].claim]
    /\ check' = [check EXCEPT ![c] = Free]
    /\ UNCHANGED <<vars, stage, claim, players, sessions, failures, setBack>>

\* A delete that fails is ignored.
DeleteSession(c) ==
    /\ check[c].step = "delete"
    /\ \/ sessions' = [sessions EXCEPT ![check[c].token] = NoClaim] /\ UNCHANGED failures
       \/ Fails /\ UNCHANGED sessions
    /\ check' = [check EXCEPT ![c] = Free]
    /\ UNCHANGED <<vars, stage, claim, players, cache, setBack>>

-----------------------------------------------------------------------------
\* The key of a token lapses: not before its time, unless the wall clock that
\* its life was computed with has been set back since.
SessionLapses(l) ==
    /\ sessions[l] # NoClaim /\ (~Valid(sessions[l]) \/ setBack)
    /\ sessions' = [sessions EXCEPT ![l] = NoClaim]
    /\ UNCHANGED <<vars, stage, claim, players, cache, check, failures, setBack>>

TimePasses ==
    /\ ClockMoves
    /\ setBack' = (setBack \/ clock' < clock)
    /\ UNCHANGED <<stage, claim, players, sessions, cache, check, failures>>

\* The process dies and a new one starts: its generator knows of no id.
Restart ==
    /\ stage' = [l \in Login |-> IF stage[l] \in {"new", "issued"} THEN stage[l] ELSE "failed"]
    /\ cache' = [l \in Login |-> NoClaim] /\ check' = [c \in Check |-> Free]
    /\ lastMillis' = -1 /\ sequence' = 0 /\ waiting' = FALSE
    /\ issued' = <<>> /\ cutShort' = FALSE
    /\ UNCHANGED <<clock, claim, players, sessions, failures, setBack>>

AuthInit ==
    /\ Init
    /\ stage = [l \in Login |-> "new"] /\ claim = [l \in Login |-> NoClaim]
    /\ players = {} /\ sessions = claim /\ cache = claim
    /\ check = [c \in Check |-> Free]
    /\ failures = 0 /\ setBack = FALSE

AuthNext ==
    \/ \E l \in Login :
          \/ DrawId(l) \/ DrawRefused(l) \/ CreatePlayer(l) \/ CreatePlayerFails(l)
          \/ SaveSession(l) \/ SaveSessionFails(l) \/ Publish(l) \/ SessionLapses(l)
    \/ DrawWaited \/ RoomDrawsId
    \/ \E c \in Check, l \in Login : CachedExpired(c, l) \/ FindSession(c, l)
    \/ \E c \in Check : FillCache(c) \/ DeleteSession(c)
    \/ TimePasses \/ Restart

AuthSpec == AuthInit /\ [][AuthNext]_allVars

-----------------------------------------------------------------------------
AuthTypeOK ==
    /\ TypeOK
    /\ stage \in [Login -> Stages] /\ claim \in [Login -> Claim]
    /\ players \subseteq [id : Nat \ {0}, of : Login]
    /\ sessions \in [Login -> Claim] /\ cache \in [Login -> Claim]
    /\ \A c \in Check : check[c].step \in {"free", "fill", "delete"}
    /\ failures \in 0 .. MaxFailures /\ setBack \in BOOLEAN

(* Every token that is known to Redis or to a process stands for a player  *)
(* that the same login stored in MySQL, and no two for the same player:    *)
(* also when a restarted process with its clock set back draws ids again   *)
(* that the one before handed out.                                         *)
TokenHasItsPlayer ==
    \A l \in Login :
        \A record \in {sessions[l], cache[l]} \cup {check[c].claim : c \in {d \in Check : check[d].token = l}} :
            record # NoClaim =>
                /\ record = claim[l] /\ [id |-> record.player, of |-> l] \in players
                /\ \A row \in players : row.id = record.player => row.of = l

(* A client that got its token can use it until it expires: every process, *)
(* this one and those after a crash, finds it in Redis.  So the cache, which *)
(* is asked first, never accepts a token that Redis would refuse, as long  *)
(* as the clock is not set back.                                           *)
IssuedTokenIsStored ==
    \A l \in Login :
        At(l, "issued") /\ Valid(claim[l]) /\ ~setBack => sessions[l] = claim[l]
=============================================================================
