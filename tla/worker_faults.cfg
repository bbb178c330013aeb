\* Three requests of a team, one of them not JSON, and any two faults.
CONSTANTS
    w1 = w1  w2 = w2  m1 = m1  m2 = m2  m3 = m3
    Workers = {w1, w2}
    Messages = {m1, m2, m3}
    Malformed = {m3}
    Team <- SameTeam
    NoMessage = NoMessage
    Refuses = FALSE
    Faults <- FaultKinds
    MaxFaults = 2
SPECIFICATION Spec
INVARIANTS TypeOK OneTestPerTeam FinishedIsScored NoRequestIsLost
CHECK_DEADLOCK FALSE
