\* COD payments, which completion updates in place under a created_at cursor.
SPECIFICATION Spec
CONSTANTS
    orders = orders
    refunds = refunds
    payments = payments
    inventory_transactions = inventory_transactions
    Tables = {payments}
    Rows = {1, 2}
    Restamped = {}
    Life <- CodPayments
    Accepted <- ValidStatuses
    Counted <- FinancialMetrics
    Lookback = 1
    MaxDelay = 1
    MaxClock = 4
    MaxTries = 2
    MaxFailures = 0
INVARIANT
    EveryChangeExtracted
