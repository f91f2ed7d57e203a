SPECIFICATION MCSpec
CONSTANTS
    Card <- MCCard
    KindOf <- MCKind
    ColorOf <- MCColor
    NumberOf <- MCNumber
    Colors <- MCColors
    N = 3
    HandSize = 1
    MaxPending = 8
INVARIANTS
    EmptyHandsAreCandidates
PROPERTIES
    FirstToEmptyWins
    PenaltyIsPaid
