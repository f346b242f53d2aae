\* Partial returns of online orders in up to two requests, with a coupon and
\* changes of price between the sale and the return.
SPECIFICATION Spec
SYMMETRY MCSymmetry
CONSTANTS
    o1 = o1  o2 = o2
    r1 = r1  r2 = r2
    c1 = c1  c2 = c2
    v1 = v1  v2 = v2
    k1 = k1  k2 = k2
    s1 = s1  d1 = d1
    Null = Null
    Central = Central
    Orders = {o1, o2}
    ReturnIds = {r1, r2}
    Customers = {c1}
    Stores = {}
    Staff = {d1}
    Variants = {v1}
    Coupons = {k1}
    CouponRule <- HalfOff
    Baskets <- TwoUnits
    Lots <- OneOfAny
    MaxReceived = 0
    Prices = {2, 3}
    ShippingFlatFee = 2
    FreeShippingThreshold = 6
    InitialStock <- FourEverywhere
    InitialBoom <- NoBooms
    Switchable = {}
    Probations = {}
    Expiring = {}
INVARIANTS
    NoOverReturn
    RefundExact
    RefundOnlyGoods
    ReturnedExactly
    RoomToRestore
    EveryVerdictAccepted
CHECK_DEADLOCK FALSE
