----------------------------- MODULE Fulfilment -----------------------------
(***************************************************************************)
(* The life of an online order after checkout (orders/service.py):         *)
(* confirmation, cancellation, dispatch, delivery, failed delivery with    *)
(* its three attempts, completion; and the COD block that failed           *)
(* deliveries lead to (admin/service.py).                                  *)
(*                                                                         *)
(* A handler called again with a key it has already used, or on an order   *)
(* that is already in the target status, answers without a write.          *)
(***************************************************************************)
EXTENDS ShopTables

MaxAttempts == 3

\* confirm_order
ConfirmOrder(o) ==
    /\ status[o] = "paid"
    /\ status' = [status EXCEPT ![o] = "confirmed"]
    /\ UNCHANGED <<catalogVars, stockVars, couponVars, codVars, order, window,
                   payment, refund, shipment, ret>>

\* Mutant: the payment of a COD order stays pending on completion.
CompleteUnpaid(o) ==
    /\ status[o] = "delivered"
    /\ order[o].customer \in active
    /\ status' = [status EXCEPT ![o] = "completed"]
    /\ window' = [window EXCEPT ![o] =
          IF @ = "elapsed" THEN "reopened" ELSE @]
    /\ UNCHANGED <<catalogVars, stockVars, couponVars, codVars, order, refund,
                   payment, shipment, ret>>

\* complete_order, called by the owner, who must be an active customer.
CompleteOrder(o) ==
    /\ status[o] = "delivered"
    /\ order[o].customer \in active
    /\ status' = [status EXCEPT ![o] = "completed"]
    /\ window' = [window EXCEPT ![o] =
          IF @ = "elapsed" THEN "reopened" ELSE @]
    /\ payment' = [payment EXCEPT ![o] = IF IsCod(o) THEN "succeeded" ELSE @]
    /\ UNCHANGED <<catalogVars, stockVars, couponVars, codVars, order, refund,
                   shipment, ret>>

\* The coupon part of cancel_order.
ReleaseCoupon(o) ==
    IF redemption[o] = "redeemed"
    THEN /\ usedCount[order[o].coupon] > 0
         /\ redemption' = [redemption EXCEPT ![o] = "released"]
         /\ usedCount' = [usedCount EXCEPT ![order[o].coupon] = @ - 1]
    ELSE UNCHANGED couponVars

\* cancel_order, by the owner or by an admin.  Its branch for orders with a
\* store restocks store_inventory; counter sales are never "paid", so no
\* order takes it.
CancelOrder(o) ==
    /\ status[o] = "paid"
    /\ payment[o] = "succeeded"
    /\ refund[o] = 0
    /\ FitsOpening(order[o].items)
    /\ Move(Central, order[o].items)
    /\ ReleaseCoupon(o)
    /\ refund' = [refund EXCEPT ![o] = order[o].total]
    /\ status' = [status EXCEPT ![o] = "cancelled"]
    /\ UNCHANGED <<catalogVars, opening, received, codVars, order, window,
                   payment, shipment, ret>>

\* Mutant: a failed order may be sent again.
DispatchAgain(o, staff) ==
    /\ status[o] \in {"paid", "confirmed", "failed_delivery"}
    /\ staff \in active
    /\ shipment' = [shipment EXCEPT ![o] =
          [state |-> "in_transit", failures |-> 0, collected |-> 0]]
    /\ status' = [status EXCEPT ![o] = "shipping"]
    /\ UNCHANGED <<catalogVars, stockVars, couponVars, codVars, order, window,
                   payment, refund, ret>>

\* dispatch_order
DispatchOrder(o, staff) ==
    /\ status[o] \in {"paid", "confirmed"}
    /\ staff \in active
    /\ shipment' = [shipment EXCEPT ![o] =
          [state |-> "in_transit", failures |-> 0, collected |-> 0]]
    /\ status' = [status EXCEPT ![o] = "shipping"]
    /\ UNCHANGED <<catalogVars, stockVars, couponVars, codVars, order, window,
                   payment, refund, ret>>

\* deliver_order; orders.updated_at, from which the return window of a
\* delivered order is counted, is written here.
DeliverOrder(o) ==
    /\ status[o] = "shipping"
    /\ shipment' = [shipment EXCEPT
          ![o].state = "delivered",
          ![o].collected = IF IsCod(o) THEN order[o].total ELSE @]
    /\ status' = [status EXCEPT ![o] = "delivered"]
    /\ window' = [window EXCEPT ![o] = "open"]
    /\ UNCHANGED <<catalogVars, stockVars, couponVars, codVars, order, payment,
                   refund, ret>>

\* The customer part of the third failed attempt.
CountBoom(c, buyerFault) ==
    IF buyerFault
    THEN /\ boom' = [boom EXCEPT ![c] = @ + 1]
         /\ blocked' = [blocked EXCEPT ![c] = @ \/ boom[c] + 1 >= 3]
    ELSE UNCHANGED codVars

\* fail_delivery_order with one of the first two failures of an order.
FailAttempt(o) ==
    /\ status[o] = "shipping"
    /\ shipment[o].failures + 1 < MaxAttempts
    /\ shipment' = [shipment EXCEPT ![o].failures = @ + 1]
    /\ UNCHANGED <<catalogVars, stockVars, couponVars, codVars, status, order,
                   window, payment, refund, ret>>

\* fail_delivery_order with the last failure.  The handler does not compare
\* with opening_on_hand, but the CHECK on inventory does and rolls it back.
FailLastAttempt(o, buyerFault) ==
    /\ status[o] = "shipping"
    /\ shipment[o].failures + 1 = MaxAttempts
    /\ shipment' = [shipment EXCEPT ![o].failures = @ + 1,
                                    ![o].state = "failed"]
    /\ FitsOpening(order[o].items)
    /\ Move(Central, order[o].items)
    /\ CountBoom(order[o].customer, buyerFault)
    /\ status' = [status EXCEPT ![o] = "failed_delivery"]
    /\ UNCHANGED <<catalogVars, opening, received, couponVars, order, window,
                   payment, refund, ret>>

FailDeliveryOrder(o) ==
    \/ FailAttempt(o)
    \/ \E buyerFault \in BOOLEAN : FailLastAttempt(o, buyerFault)

\* Mutant: the counter is not brought back under the block.
ReinstateKeepingCount(c, probation) ==
    /\ blocked' = [blocked EXCEPT ![c] = FALSE]
    /\ UNCHANGED <<catalogVars, stockVars, couponVars, boom, orderVars, ret>>

\* reinstate_customer_cod with probation_failed_count = probation.
ReinstateCustomerCod(c, probation) ==
    /\ blocked' = [blocked EXCEPT ![c] = FALSE]
    /\ boom' = [boom EXCEPT ![c] = Lesser(@, probation)]
    /\ UNCHANGED <<catalogVars, stockVars, couponVars, orderVars, ret>>

Fulfil(o) ==
    \/ ConfirmOrder(o)
    \/ CompleteOrder(o)
    \/ CancelOrder(o)
    \/ \E staff \in Staff : DispatchOrder(o, staff)
    \/ DeliverOrder(o)
    \/ FailDeliveryOrder(o)
=============================================================================
