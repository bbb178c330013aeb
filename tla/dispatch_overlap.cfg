\* Two robots whose requests may time out at any point.
CONSTANTS
    desk = desk  ghost = ghost  p1 = p1  p2 = p2  pen = pen  r1 = r1  r2 = r2  u1 = u1  u2 = u2
    PlanReq = {p1, p2}
    ReportReq = {u1, u2}
    CreateReq = {}
    NoReq = NoReq
    Robots = {r1, r2}
    Impatient = {p1, p2, u1, u2}
    Products <- MCProducts
    Catalogue <- MCCatalogue
    Weight <- MCWeight
    Value <- MCValue
    Capacity = 2
    Baskets <- OnePen
    MaxOrder = 2
    Seeded = 2
SPECIFICATION Spec
INVARIANTS TypeOK PlansShareOnlyWhenOverlapping DeliveryIsTraceable
PROPERTIES BoardSpec
SYMMETRY Symmetry
CHECK_DEADLOCK FALSE
