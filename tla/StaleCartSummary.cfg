SPECIFICATION Spec
CONSTANTS
    None = None
    Slots = {1, 2}
    Areas = {"cart"}
    \* dashboards and navigation
    Viewers = {"admin", "store_manager"}
    Views = {"sales", "store"}
    StoreIds = {7}
    Periods = {7, 30}
    DefaultPeriod = 30
    MaxGen = 1
    Households <- SomeHouseholds
    \* cart and checkout
    Items = {"M", "L", "cap"}
    ProductOf <- ShirtsAndCap
    MaxQuantity = 2
    CouponCodes = {"SALE"}
    MaxClicks = 2
    MaxForms = 2
    MaxSubmits = 2
    OfferedCodes = {"SALE"}
    \* catalogue
    Wares = {"tee"}
    Colours = {"red", "blue"}
    Sizes <- TwoSizes
    StockShapes <- SomeStock
    MaxVisits = 3
    \* orders and returns
    OrderNumbers = {1, 2}
    Lines = {"a", "b"}
    Bought <- OneOfEach
    Couriers = {"c", "d"}
    MaxActs = 3
    MyStart <- PaidOrDelivered
    DeskStart = {"paid", "shipping"}
    MaxJobs = 2
    MaxDecisions = 3
    \* branch pages and lists
    Goods = {1, 2}
    StockFound <- EmptyOrOne
    LotSizes = {1}
    UnitCosts = {13}
    MaxStagings = 2
    MaxSold = 1
    MaxBookings = 2
    Shelf = {1, 2}
    StorePrices = {3, 4}
    OnShelf = 2
    SoldAtOnce = {1}
    Searches = {{1, 2}}
    MaxMoves = 3
    ListRows = {"r1", "r2", "r3"}
    Classes = {"open", "done"}
    PageSize = 1
    MaxTurns = 3
    Entries = {"e1", "e2"}
    Extra = "e3"
    MaxChanges = 3
INVARIANT SummaryFollowsCart
