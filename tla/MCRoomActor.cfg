SPECIFICATION Spec
CONSTANTS
    a = a
    b = b
    c = c
    a1 = a1
    a2 = a2
    b1 = b1
    c1 = c1
    Player <- MCPlayer
    Session <- MCSession
    PlayerOf <- MCPlayerOf
    NoPlayer = NoPlayer
    NoSession = NoSession
    MaxPlayers = 2
    StrikeLimit = 2
    MailboxSize = 8
    MaxRequests = 1
INVARIANTS
    TypeOK
    OneEventPerTurn
    EmptyRoomCountsDown
    NoOrphanCommand
    RoomSnapshotRestores
    ManagedForAReason
PROPERTIES
    SeatsAreKept
    OnlyBoundSessionUnbinds
    EmptyRoomCollected
