\* An inspection payload that leaves out a line of the request.
SPECIFICATION Spec
SYMMETRY MCSymmetry
CONSTANTS
    o1 = o1  o2 = o2
    r1 = r1  r2 = r2
    c1 = c1  c2 = c2
    v1 = v1  v2 = v2
    k1 = k1  k2 = k2
    s1 = s1  d1 = d1
    Null = Null
    Central = Central
    Orders = {o1, o2}
    ReturnIds = {r1, r2}
    Customers = {c1}
    Stores = {}
    Staff = {d1}
    Variants = {v1, v2}
    Coupons = {}
    CouponRule <- NoRules
    Baskets <- SomeOfEach
    Lots <- OneOfAny
    MaxReceived = 0
    Prices = {3}
    ShippingFlatFee = 1
    FreeShippingThreshold = 6
    InitialStock <- ThreeEverywhere
    InitialBoom <- NoBooms
    Switchable = {}
    Probations = {}
    Expiring = {}
INVARIANTS
    CompletedReturnsInspected
CHECK_DEADLOCK FALSE
