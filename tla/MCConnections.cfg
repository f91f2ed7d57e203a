SPECIFICATION Spec
CONSTANTS
    s1 = s1
    s2 = s2
    NoSession = NoSession
    Session = {s1, s2}
    Starts <- WaitingOrEmpty
    Late = {s2}
    Talking = {s2}
    SendBuffer = 1
    MailboxSize = 2
    MaxRequests = 1
INVARIANTS TypeOK RegistryIsTrue ShutdownWaitsForRooms
PROPERTIES LostIsGone RoomKeepsServing
CHECK_DEADLOCK FALSE
