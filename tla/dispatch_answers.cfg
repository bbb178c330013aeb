\* Requests that may hang in MySQL, and a checkout that MySQL refuses.
CONSTANTS
    c1 = c1  desk = desk  ghost = ghost  p1 = p1  p2 = p2  pen = pen  r1 = r1  u1 = u1
    PlanReq = {p1, p2}
    ReportReq = {u1}
    CreateReq = {c1}
    NoReq = NoReq
    Robots = {r1}
    Impatient = {p1, p2, u1}
    Products <- MCProducts
    Catalogue <- MCCatalogue
    Weight <- MCWeight
    Value <- MCValue
    Capacity = 2
    Baskets <- GhostBasket
    MaxOrder = 2
    Seeded = 1
SPECIFICATION FairSpec
PROPERTIES RobotsAreAnswered GoroutinesEnd
CHECK_DEADLOCK FALSE
