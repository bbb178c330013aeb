\* Every weight and value up to two, in up to three rows, and four alike rows.
CONSTANTS
    Listings <- MCListings
    Capacities <- MCCapacities
    Slacks = {0, 1}
    CheckEvery = 3
SPECIFICATION Spec
INVARIANTS TypeOK PlanIsBest SlicesHoldTheirChoice CancelsInTime
PROPERTIES SearchEnds
CHECK_DEADLOCK FALSE
