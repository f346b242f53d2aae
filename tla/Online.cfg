\* Online orders of two customers, one refused delivery short of the COD block,
\* with a coupon used once and one used once by each customer, an inbound
\* receipt and elapsing return windows; no returns.
SPECIFICATION Spec
SYMMETRY MCSymmetry
CONSTANTS
    o1 = o1  o2 = o2
    r1 = r1  r2 = r2
    c1 = c1  c2 = c2
    v1 = v1  v2 = v2
    k1 = k1  k2 = k2
    s1 = s1  d1 = d1
    Null = Null
    Central = Central
    Orders = {o1, o2}
    ReturnIds = {}
    Customers = {c1, c2}
    Stores = {}
    Staff = {d1}
    Variants = {v1}
    Coupons = {k1, k2}
    CouponRule <- OneUseAndOneEach
    Baskets <- OneOrTwo
    Lots <- OneOfAny
    MaxReceived = 1
    Prices = {3}
    ShippingFlatFee = 1
    FreeShippingThreshold = 6
    InitialStock <- ThreeEverywhere
    InitialBoom <- TwoBooms
    Switchable = {k1}
    Probations = {0, 2}
    Expiring = {o1, o2}
INVARIANTS
    TypeOK
    StockConserved
    RoomToRestore
    CouponsCounted
    BoomBlocks
    CodSettled
PROPERTIES
    LifecycleRespected
CHECK_DEADLOCK FALSE
