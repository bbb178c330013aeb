\* A crash before a finished request is deleted, and the next request of the team.
CONSTANTS
    w1 = w1  m1 = m1  m2 = m2
    Workers = {w1}
    Messages = {m1, m2}
    Malformed = {}
    Team <- SameTeam
    NoMessage = NoMessage
    Refuses = TRUE
    Faults = {"crash"}
    MaxFaults = 1
SPECIFICATION FairSpec
PROPERTIES RunningIsTested
CHECK_DEADLOCK FALSE
