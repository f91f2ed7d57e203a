SPECIFICATION Spec
CONSTANTS
    NodeID = 0
    MaxNodeID = 1
    MaxSequence = 1
    MaxTimestamp = 3
    MaxIds = 5
INVARIANTS
    IdsIncrease
