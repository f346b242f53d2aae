-------------------------------- MODULE Shop --------------------------------
(***************************************************************************)
(* The transactional core of the ecommerce-api: sales, fulfilment, returns *)
(* and the back office over one database.  Every action is one committed   *)
(* transaction; they interleave in any order.                              *)
(***************************************************************************)
EXTENDS Checkout, Fulfilment, Returns, Backoffice

Next ==
    \/ \E o \in Orders : Sale(o) \/ Fulfil(o)
    \/ \E o \in Expiring : WindowElapses(o)
    \/ \E r \in ReturnIds : ReturnStep(r)
    \/ \E c \in Customers, probation \in Probations :
          ReinstateCustomerCod(c, probation)
    \/ \E lot \in Lots : CreateInboundReceipt(lot)
    \/ \E v \in Variants, p \in Prices : UpdateVariantPrice(v, p)
    \/ \E row \in Switchable : Switch(row)

Spec == Init /\ [][Next]_vars

-----------------------------------------------------------------------------
(***************************************************************************)
(* Invariants.                                                             *)
(***************************************************************************)

\* Every column holds a value of its type: in particular no stock, counter
\* or amount that the schema declares unsigned would become negative.
TypeOK ==
    /\ active \subseteq Customers \cup Variants \cup Stores \cup Staff
                          \cup Coupons \cup Switchable
    /\ price \in [Variants -> Nat]
    /\ stock \in [Locations -> Quantities]
    /\ opening \in Quantities
    /\ ledger \in [Locations -> [Variants -> Int]]
    /\ received \in Quantities
    /\ usedCount \in [Coupons -> Nat]
    /\ redemption \in [Orders -> {"none", "redeemed", "released"}]
    /\ boom \in [Customers -> Nat]
    /\ blocked \in [Customers -> BOOLEAN]
    /\ status \in [Orders -> Statuses]
    /\ order \in [Orders -> OrderRows]
    /\ window \in [Orders -> WindowStates]
    /\ payment \in [Orders -> {"none", "pending", "succeeded"}]
    /\ refund \in [Orders -> Nat]
    /\ shipment \in [Orders -> ShipmentRows]
    /\ ret \in [ReturnIds -> ReturnRows]

\* The goods of an order are away from where they were sold from: sold, and
\* neither cancelled nor brought back by the carrier.
Holds(o) == status[o] \notin {"none", "cancelled", "failed_delivery"}

\* The units of v that orders sold from location l hold; counter sales take
\* from their store, online orders from the central warehouse.
HeldFrom(l, v) ==
    Total([o \in Orders |->
             IF Holds(o) /\ (IF IsOnline(o) THEN Central ELSE order[o].store) = l
             THEN order[o].items[v] ELSE 0])

\* The units of v that passed the inspection of a completed return.
TakenBack(v) ==
    Total([r \in ReturnIds |->
             IF ret[r].status = "completed"
             THEN Passed(ret[r], ret[r].quantity)[v] ELSE 0])

\* No unit is lost or made up: at every location, what is on hand is what was
\* there, plus inbound receipts and passed returns (both go to the central
\* warehouse), minus what live orders took; and the ledger says the same.
StockConserved ==
    \A v \in Variants :
        /\ stock[Central][v] + HeldFrom(Central, v)
              = InitialStock[Central][v] + received[v] + TakenBack(v)
        /\ \A s \in Stores :
              stock[s][v] + HeldFrom(s, v) = InitialStock[s][v]
        /\ \A l \in Locations :
              stock[l][v] = InitialStock[l][v] + ledger[l][v]

\* Units of v that undelivered online orders hold, which cancel_order or the
\* third failed delivery may have to put back.
Restorable(v) ==
    Total([o \in Orders |->
             IF status[o] \in {"paid", "confirmed", "shipping"}
             THEN order[o].items[v] ELSE 0])

\* There is always room under opening_on_hand to put back every undelivered
\* order, so that neither the 500 of cancel_order nor the CHECK on inventory
\* ever stops a cancellation or a third failed delivery.
RoomToRestore ==
    \A v \in Variants : stock[Central][v] + Restorable(v) <= opening[v]

\* used_count is exactly the number of redemptions in force, through sales,
\* cancellations and releases in any order; neither it nor the redemptions
\* of one customer exceed the coupon's limits.
CouponsCounted ==
    \A k \in Coupons :
        /\ usedCount[k] = Cardinality(Redeemed(k))
        /\ CouponRule[k].limit # Null => usedCount[k] <= CouponRule[k].limit
        /\ CouponRule[k].perCustomer # Null =>
              \A c \in Customers :
                 Cardinality(RedeemedBy(k, c)) <= CouponRule[k].perCustomer

\* Over all the requests of an order that were neither cancelled nor rejected,
\* no more units of a line are asked back than were bought.
NoOverReturn ==
    \A o \in Orders, v \in Variants :
        Total([r \in ReturnIds |->
                 IF /\ ret[r].order = o
                    /\ ret[r].status \notin {"cancelled", "rejected"}
                 THEN ret[r].quantity[v] ELSE 0]) <= order[o].items[v]

\* The money of the lines of completed requests that passed inspection.
PassedAmount(o) ==
    Total([rv \in ReturnIds \X Variants |->
             IF ret[rv[1]].order = o /\ ret[rv[1]].status = "completed"
             THEN Passed(ret[rv[1]], ret[rv[1]].amount)[rv[2]] ELSE 0])

\* The refund row of an order: the whole payment if and only if it was
\* cancelled; otherwise what its inspections granted, summed over all its
\* requests and never above the payment.
RefundExact ==
    \A o \in Orders :
        refund[o] = IF status[o] = "cancelled" THEN order[o].total
                    ELSE Lesser(order[o].total, PassedAmount(o))

\* Returns pay back goods at the price of the sale and never the shipping fee:
\* beyond half a unit of money of rounding for each unit sold, no sequence of
\* partial returns and price changes refunds more than the goods cost.
RefundOnlyGoods ==
    \A o \in Orders :
        status[o] # "cancelled" =>
            2 * refund[o] <= 2 * (order[o].subtotal - order[o].discount)
                                + Total(order[o].items)

\* An order is "returned" exactly when every unit it sold came back and
\* passed inspection, whatever the number of requests and their order.
ReturnedExactly ==
    \A o \in Orders :
        status[o] # "none" =>
            (status[o] = "returned"
                <=> PassedUnits(ret, o) = Total(order[o].items))

\* A customer with three undeliverable orders is blocked from COD, also
\* after reinstatements on probation.
BoomBlocks == \A c \in Customers : boom[c] >= 3 => blocked[c]

\* The cash of a COD order: the carrier holds exactly the total from the
\* delivery on and nothing before or after a failure, and the payment
\* succeeds only on completion, never without the cash.
CodSettled ==
    \A o \in Orders : IsCod(o) =>
        /\ shipment[o].collected =
              IF status[o] \in {"delivered", "completed", "returned"}
              THEN order[o].total ELSE 0
        /\ status[o] = "completed" => payment[o] = "succeeded"
        /\ status[o] \in {"confirmed", "shipping", "delivered",
                          "failed_delivery"} => payment[o] = "pending"

-----------------------------------------------------------------------------
(***************************************************************************)
(* Refinement: every step that writes orders.status is a transition that   *)
(* the database accepts.                                                   *)
(***************************************************************************)
Lifecycle == INSTANCE OrderLifecycle

\* No handler ever asks the database for a transition its CHECK rejects.
LifecycleRespected == Lifecycle!Spec

-----------------------------------------------------------------------------
(***************************************************************************)
(* What staff and customers can always do next.                            *)
(***************************************************************************)

\* Whatever an inspection finds at the warehouse, the database takes the
\* result: no received request is stuck for a verdict it deserves.
EveryVerdictAccepted ==
    \A r \in ReturnIds :
        ret[r].status = "goods_received" =>
            \A i \in Verdicts(r) : ENABLED InspectAndResolve(r, i)

\* A paid order can be cancelled, with its stock, coupon and money restored.
PaidOrdersCancellable ==
    \A o \in Orders : status[o] = "paid" => ENABLED CancelOrder(o)

\* A completed request has an inspection result for each of its lines.
CompletedReturnsInspected ==
    \A r \in ReturnIds :
        ret[r].status = "completed" =>
            \A v \in Contents(ret[r].quantity) :
                ret[r].inspection[v] \in {"passed", "failed"}

\* A request is only created while the seven days that began with the
\* delivery last.
ReturnsWithinDeliveryWindow ==
    [][\A r \in ReturnIds :
          (ret[r].status = "none" /\ ret'[r].status # "none")
              => window[ret'[r].order] # "reopened"]_vars
=============================================================================
