SPECIFICATION Spec
CONSTANTS
    a = a  b = b  a1 = a1  a2 = a2  b1 = b1  r1 = r1  r2 = r2
    Player = {a, b}
    Session = {a1, b1}
    Room = {r1}
    PlayerOf <- MCPlayerOf
    NoPlayer = NoPlayer  NoRoom = NoRoom
    NoSeat = NoSeat  Away = Away  Abandoned = Abandoned
    RestoresRoom = TRUE
    Overload = FALSE
    MaxBusy = 2
CHECK_DEADLOCK FALSE
INVARIANT SeatHasRoute
