SPECIFICATION MCSpec
CONSTANTS
    Card <- MCCard
    KindOf <- MCKind
    ColorOf <- MCColor
    NumberOf <- MCNumber
    Colors <- MCColors
    N = 2
    HandSize = 2
    MaxPending = 8
INVARIANTS
    TypeOK
    SnapshotRestores
    DrawnCardStaysPlayable
    PenaltyShowsOnTop
    AutomationIsAccepted
PROPERTIES
    ImplementsCustody
    AutomatedTurnCompletes
