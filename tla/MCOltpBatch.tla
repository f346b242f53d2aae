---------------------------- MODULE MCOltpBatch ----------------------------
(***************************************************************************)
(* Small instances of OltpBatch for TLC: the tables that matter by the way *)
(* their rows change, and rows of one amount each.                         *)
(***************************************************************************)
EXTENDS OltpBatch, TLC

CONSTANTS orders, refunds, payments, inventory_transactions

\* An order is updated in place, and so is the payment of a COD order; a
\* movement of stock is only ever added.
OrderLife == <<"confirmed", "completed">>
CodPaymentLife == <<"pending", "succeeded">>

OrdersNoRefunds ==
    orders :> (1 :> OrderLife @@ 2 :> <<"confirmed">>)
    @@ refunds :> [r \in {1, 2} |-> <<>>]
CodPayments == [t \in {payments} |-> [r \in {1, 2} |-> CodPaymentLife]]
SaleAndCancellation ==
    [t \in {inventory_transactions} |->
        [r \in {1, 2} |-> IF r = 1 THEN <<"outbound_order">>
                                   ELSE <<"order_cancellation">>]]

\* _validate_rows of silver/validation.py, of the statuses above.
ValidStatuses ==
    {"confirmed", "completed", "pending", "succeeded", "outbound_order"}

\* metric_specs of reconcile.py.
FinancialMetrics ==
    [t \in Tables |->
        CASE t = orders -> {"confirmed", "completed"}
          [] t \in {payments, refunds} -> {"succeeded"}
          [] OTHER -> {}]
=============================================================================
