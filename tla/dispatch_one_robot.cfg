\* One robot that waits for every answer, no timeout of its requests, and two checkouts.
CONSTANTS
    c1 = c1  c2 = c2  desk = desk  ghost = ghost  p1 = p1  p2 = p2  pen = pen  r1 = r1  u1 = u1
    PlanReq = {p1, p2}
    ReportReq = {u1}
    CreateReq = {c1, c2}
    NoReq = NoReq
    Robots = {r1}
    Impatient = {c1}
    Products <- MCProducts
    Catalogue <- MCCatalogue
    Weight <- MCWeight
    Value <- MCValue
    Capacity = 2
    Baskets <- OddBaskets
    MaxOrder = 5
    Seeded = 0
SPECIFICATION Spec
INVARIANTS CheckoutIsAllOrNothing
PROPERTIES ExclusiveBoardSpec
SYMMETRY Symmetry
CHECK_DEADLOCK FALSE
