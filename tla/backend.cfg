\* Two connections at once; the limit of MySQL is met when it has not noticed
\* that one was closed.
CONSTANTS
    vu = vu  vu2 = vu2  robot = robot  browser = browser  u1 = u1  u2 = u2  Nobody = Nobody
    photo = photo  NoRequest = NoRequest
    Clients = {vu, vu2, robot, browser}
    Browsers = {browser}
    Script <- MCScript
    Users = {u1, u2}
    Files = {photo}
    MaxRequests = 3
    Impatient = {1}
    Pages = {"order", "history"}
    MaxOpen = 2
    MaxIdle = 1
    MaxConnections = 2
SPECIFICATION Spec
INVARIANTS TypeOK ServedAsLoggedIn ConnectionsComeBack ScoreIsEarned WaitsEnd
SYMMETRY AnyUser
CHECK_DEADLOCK FALSE
