SPECIFICATION StrangerSpec
CONSTANTS
    a = a
    b = b
    c = c
    a1 = a1
    a2 = a2
    b1 = b1
    c1 = c1
    Player <- WithStranger
    Session <- OnlyStranger
    PlayerOf <- OnlyStrangerOf
    NoPlayer = NoPlayer
    NoSession = NoSession
    MaxPlayers = 2
    StrikeLimit = 1
    MailboxSize = 2
    MaxRequests = 2
PROPERTIES
    EmptyRoomCollected
