\* Two teams with a request each, and a fault that does not end a request.
CONSTANTS
    w1 = w1  w2 = w2  m1 = m1  m2 = m2
    Workers = {w1, w2}
    Messages = {m1, m2}
    Malformed = {}
    Team <- OwnTeams
    NoMessage = NoMessage
    Refuses = TRUE
    Faults <- Survivable
    MaxFaults = 1
SPECIFICATION FairSpec
PROPERTIES RequestsSettle
CHECK_DEADLOCK FALSE
