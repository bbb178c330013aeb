\* A robot whose plan times out.
CONSTANTS
    desk = desk  ghost = ghost  p1 = p1  pen = pen  r1 = r1  u1 = u1
    PlanReq = {p1}
    ReportReq = {u1}
    CreateReq = {}
    NoReq = NoReq
    Robots = {r1}
    Impatient = {p1}
    Products <- MCProducts
    Catalogue <- MCCatalogue
    Weight <- MCWeight
    Value <- MCValue
    Capacity = 2
    Baskets <- OnePen
    MaxOrder = 2
    Seeded = 2
SPECIFICATION Spec
INVARIANTS FailedPlanChangesNothing
CHECK_DEADLOCK FALSE
