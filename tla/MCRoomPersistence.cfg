SPECIFICATION Spec
CONSTANTS
    Player = {p1, p2}
    NoPlayer = NoPlayer
    Room = {1, 2}
    MaxMatch = 1
    MaxFailures = 1
INVARIANTS TypeOK RoundHasItsMatch AnsweredIsSaved OverIsForgotten SettledIsRecorded
PROPERTIES RestartBringsRoomsBack ImplementsLedger
SYMMETRY Alike
