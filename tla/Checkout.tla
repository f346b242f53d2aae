------------------------------ MODULE Checkout ------------------------------
(***************************************************************************)
(* Sales: the online checkout (checkout/service.py, checkout/allocation.py,*)
(* coupons/service.py) and the counter sale (pos/service.py).              *)
(*                                                                         *)
(* An element of Orders is a checkout idempotency key.  A checkout whose   *)
(* key is already taken replays the first answer and writes nothing, so    *)
(* only unused keys (status "none") take a step.                           *)
(***************************************************************************)
EXTENDS ShopTables

Subtotal(basket) == Total([v \in Variants |-> price[v] * basket[v]])

ShippingFee(subtotal) ==
    IF subtotal >= FreeShippingThreshold THEN 0 ELSE ShippingFlatFee

CouponDiscount(k, subtotal) ==
    IF CouponRule[k].kind = "percentage"
    THEN (subtotal * CouponRule[k].value) \div 100
    ELSE Lesser(CouponRule[k].value, subtotal)

\* The orders whose coupon_redemptions row counts against coupon k.
Redeemed(k) ==
    {o \in Orders : redemption[o] = "redeemed" /\ order[o].coupon = k}

RedeemedBy(k, c) == {o \in Redeemed(k) : order[o].customer = c}

\* Mutant: the limit per customer is not checked.
CouponUsableAgain(k, c, subtotal) ==
    /\ k \in active
    /\ subtotal >= CouponRule[k].minimum
    /\ CouponRule[k].limit # Null => usedCount[k] < CouponRule[k].limit
    /\ CouponDiscount(k, subtotal) > 0

\* resolve_coupon; a coupon out of its window counts as not active.
CouponUsable(k, c, subtotal) ==
    /\ k \in active
    /\ subtotal >= CouponRule[k].minimum
    /\ CouponRule[k].limit # Null => usedCount[k] < CouponRule[k].limit
    /\ CouponRule[k].perCustomer # Null =>
          Cardinality(RedeemedBy(k, c)) < CouponRule[k].perCustomer
    /\ CouponDiscount(k, subtotal) > 0

Sellable(basket) == Contents(basket) \subseteq active

\* Mutant: off by one.
InStockOrNearly(location, basket) ==
    \A v \in Contents(basket) : stock[location][v] + 1 >= basket[v]

InStock(location, basket) ==
    \A v \in Contents(basket) : stock[location][v] >= basket[v]

\* deduct_inventory
DeductInventory(basket) ==
    /\ InStock(Central, basket)
    /\ Move(Central, Minus(basket))

\* checkout, of customer c with basket as the cart's content; k is Null
\* without a coupon code.
PlaceOrder(o, c, basket, method, k) ==
    LET subtotal == Subtotal(basket)
        discount == IF k = Null THEN 0 ELSE CouponDiscount(k, subtotal)
    IN
    /\ status[o] = "none"
    /\ c \in active
    /\ ~ (method = "cod" /\ blocked[c])
    /\ Sellable(basket)
    /\ k # Null => CouponUsable(k, c, subtotal)
    /\ discount <= subtotal
    /\ DeductInventory(basket)
    /\ order' = [order EXCEPT ![o] =
          [customer |-> c, store |-> Null, method |-> method,
           items |-> basket, unitPrice |-> price, coupon |-> k,
           subtotal |-> subtotal, discount |-> discount,
           total |-> subtotal - discount + ShippingFee(subtotal)]]
    /\ status' = [status EXCEPT ![o] =
          IF method = "cod" THEN "confirmed" ELSE "paid"]
    /\ payment' = [payment EXCEPT ![o] =
          IF method = "cod" THEN "pending" ELSE "succeeded"]
    /\ IF k = Null
       THEN UNCHANGED couponVars
       ELSE /\ redemption' = [redemption EXCEPT ![o] = "redeemed"]
            /\ usedCount' = [usedCount EXCEPT ![k] = @ + 1]
    /\ UNCHANGED <<catalogVars, opening, received, codVars, window, refund,
                   shipment, ret>>

\* create_pos_transaction, at store s; c is Null for a walk-in guest.
CreatePosTransaction(o, s, c, basket) ==
    LET subtotal == Subtotal(basket) IN
    /\ status[o] = "none"
    /\ s \in active
    /\ c # Null => c \in active
    /\ Sellable(basket)
    /\ InStock(s, basket)
    /\ Move(s, Minus(basket))
    /\ order' = [order EXCEPT ![o] =
          [customer |-> c, store |-> s, method |-> "counter",
           items |-> basket, unitPrice |-> price, coupon |-> Null,
           subtotal |-> subtotal, discount |-> 0, total |-> subtotal]]
    /\ status' = [status EXCEPT ![o] = "completed"]
    /\ payment' = [payment EXCEPT ![o] = "succeeded"]
    /\ window' = [window EXCEPT ![o] = "open"]
    /\ UNCHANGED <<catalogVars, opening, received, couponVars, codVars,
                   refund, shipment, ret>>

Sale(o) ==
    \E basket \in Baskets :
        \/ \E c \in Customers, method \in {"vietqr", "cod"},
              k \in Coupons \cup {Null} : PlaceOrder(o, c, basket, method, k)
        \/ \E s \in Stores, c \in Customers \cup {Null} :
              CreatePosTransaction(o, s, c, basket)
=============================================================================
