SPECIFICATION AuthSpec
CONSTANTS
    NodeID = 0
    MaxNodeID = 1
    MaxSequence = 1
    MaxTimestamp = 2
    MaxIds = 4
    Login = {l1, l2}
    Check = {c1}
    NoLogin = NoLogin
    TTL = 1
    MaxFailures = 1
INVARIANTS AuthTypeOK IdsIncreaseUnlessCutShort TokenHasItsPlayer IssuedTokenIsStored
SYMMETRY Alike
