\* Runs of the batch over the orders, updated in place, and a table that stays
\* empty, with transactions that commit after newer ones and crashes enough to
\* fail a run.
SPECIFICATION FairSpec
CONSTANTS
    orders = orders
    refunds = refunds
    payments = payments
    inventory_transactions = inventory_transactions
    Tables = {orders, refunds}
    Rows = {1, 2}
    Restamped = {orders, refunds}
    Life <- OrdersNoRefunds
    Accepted <- ValidStatuses
    Counted <- FinancialMetrics
    Lookback = 1
    MaxDelay = 1
    MaxClock = 3
    MaxTries = 2
    MaxFailures = 2
INVARIANTS
    TypeOK
    NothingSkipped
    SilverCaughtUp
PROPERTIES
    CursorNeverRetreats
    LayersNeverRegress
    GoldCatchesUp
