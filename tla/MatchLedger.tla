----------------------------- MODULE MatchLedger -----------------------------
(***************************************************************************)
(* What the record of matches promises, whatever the rooms, the process    *)
(* and the connection to the database go through: a match is recorded once *)
(* when its round starts; its round is announced to the players when it    *)
(* ends; its result is entered at most once, with a winner the players     *)
(* were told of, and is final.                                             *)
(***************************************************************************)
CONSTANTS Match, Player

VARIABLES
    status,     \* of every match: "absent", "playing" or "finished"
    announced,  \* the winners the players of a match were told of
    winner      \* the winners entered as the result of a match: none or one

ledgerVars == <<status, announced, winner>>

LedgerInit ==
    /\ status = [m \in Match |-> "absent"]
    /\ announced = [m \in Match |-> {}]
    /\ winner = [m \in Match |-> {}]

RecordStart(m) ==
    /\ status[m] = "absent"
    /\ status' = [status EXCEPT ![m] = "playing"]
    /\ UNCHANGED <<announced, winner>>

Announce(m, p) ==
    /\ status[m] # "absent"
    /\ announced' = [announced EXCEPT ![m] = @ \cup {p}]
    /\ UNCHANGED <<status, winner>>

RecordResult(m) ==
    /\ status[m] = "playing"
    /\ status' = [status EXCEPT ![m] = "finished"]
    /\ \E p \in announced[m] : winner' = [winner EXCEPT ![m] = {p}]
    /\ UNCHANGED announced

LedgerNext ==
    \E m \in Match : RecordStart(m) \/ RecordResult(m) \/ \E p \in Player : Announce(m, p)

LedgerSpec == LedgerInit /\ [][LedgerNext]_ledgerVars
=============================================================================
