\* Two robots: an order leaves completed.
CONSTANTS
    desk = desk  ghost = ghost  p1 = p1  p2 = p2  pen = pen  r1 = r1  r2 = r2  u1 = u1
    PlanReq = {p1, p2}
    ReportReq = {u1}
    CreateReq = {}
    NoReq = NoReq
    Robots = {r1, r2}
    Impatient = {}
    Products <- MCProducts
    Catalogue <- MCCatalogue
    Weight <- MCWeight
    Value <- MCValue
    Capacity = 2
    Baskets <- OnePen
    MaxOrder = 2
    Seeded = 2
SPECIFICATION FairSpec
PROPERTIES OnlyShippingBecomesDelivering
CHECK_DEADLOCK FALSE
