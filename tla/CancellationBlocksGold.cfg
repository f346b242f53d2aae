\* A sale and a cancellation in the ledger of stock movements.
SPECIFICATION FairSpec
CONSTANTS
    orders = orders
    refunds = refunds
    payments = payments
    inventory_transactions = inventory_transactions
    Tables = {inventory_transactions}
    Rows = {1, 2}
    Restamped = {}
    Life <- SaleAndCancellation
    Accepted <- ValidStatuses
    Counted <- FinancialMetrics
    Lookback = 1
    MaxDelay = 1
    MaxClock = 4
    MaxTries = 2
    MaxFailures = 0
PROPERTY
    GoldCatchesUp
