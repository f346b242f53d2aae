----------------------------- MODULE ShopTables -----------------------------
(***************************************************************************)
(* The tables of the OLTP database (database/schema.sql) that the order,   *)
(* stock, coupon, payment and return handlers of the ecommerce-api share,  *)
(* with the helpers more than one handler uses.                            *)
(*                                                                         *)
(* One variable stands for one column or one small group of columns.  A    *)
(* handler is one database transaction whose first statements lock the     *)
(* rows it decides on (SELECT ... FOR UPDATE), so it is one action; a      *)
(* handler that raises rolls its transaction back and is no step at all.   *)
(***************************************************************************)
EXTENDS Sums

CONSTANTS
    Null,                  \* SQL NULL
    Central,               \* location_type 'central_warehouse'
    Stores,                \* rows of table stores
    Variants,              \* rows of table product_variants
    Customers,             \* rows of table customers with role 'customer'
    Staff,                 \* rows of table delivery_staff
    Coupons,               \* rows of table coupons
    CouponRule,            \* the immutable columns of each coupon
    Orders,                \* the checkout idempotency keys that may be used
    ReturnIds,             \* the return requests that may be created
    Baskets,               \* what a cart or a counter sale may contain
    Lots,                  \* what an inbound receipt may contain
    MaxReceived,           \* bound: units of a variant received from inbound
    Prices,                \* the prices an admin may set
    ShippingFlatFee,       \* settings.shipping_flat_fee_vnd
    FreeShippingThreshold, \* settings.free_shipping_threshold_vnd
    InitialStock,          \* on_hand of each location and variant at the start
    InitialBoom,           \* boom_count of each customer at the start
    Switchable,            \* bound: the rows an admin may (de)activate
    Probations,            \* bound: probation counts an admin reinstates with
    Expiring               \* bound: the orders whose return window may elapse

Locations == Stores \cup {Central}

\* A number of units of every variant, 0 where the variant does not occur.
Quantities == [Variants -> Nat]
NoUnits == [v \in Variants |-> 0]

CouponRules ==
    [kind : {"percentage", "fixed_amount"}, value : Nat \ {0}, minimum : Nat,
     limit : (Nat \ {0}) \cup {Null}, perCustomer : (Nat \ {0}) \cup {Null}]

ASSUME FiniteTables ==
    /\ IsFiniteSet(Orders) /\ IsFiniteSet(ReturnIds) /\ IsFiniteSet(Variants)
    /\ IsFiniteSet(Stores)
ASSUME NullIsNoRow ==
    /\ Null \notin Stores \cup Customers \cup Coupons \cup Orders \cup Nat
    /\ Central \notin Stores \cup {Null}
ASSUME CouponRulesValid == CouponRule \in [Coupons -> CouponRules]
ASSUME MoneySettings ==
    ShippingFlatFee \in Nat /\ FreeShippingThreshold \in Nat
ASSUME PayloadsValid ==
    /\ Baskets \subseteq Quantities \ {NoUnits}
    /\ Lots \subseteq Quantities \ {NoUnits}
    /\ MaxReceived \in Nat
    /\ Prices \subseteq Nat /\ Prices # {}
    /\ Probations \subseteq 0 .. 2
    /\ Expiring \subseteq Orders
ASSUME InitialTables ==
    /\ InitialStock \in [Locations -> Quantities]
    /\ InitialBoom \in [Customers -> 0 .. 2]

VARIABLES
    active,     \* the customers, variants, stores, staff, coupons now enabled
    price,      \* product_variants.price_vnd
    stock,      \* inventory.on_hand (Central), store_inventory.on_hand
    opening,    \* inventory.opening_on_hand
    ledger,     \* inventory_transactions: sum of quantity_delta
    received,   \* inbound_receipt_items: sum of quantity
    usedCount,  \* coupons.used_count
    redemption, \* coupon_redemptions.status of each order
    boom,       \* customers.boom_count
    blocked,    \* customers.is_cod_blocked
    status,     \* orders.status
    order,      \* the columns of orders and order_items fixed at creation
    window,     \* how the return window of each order stands
    payment,    \* payments.status of each order
    refund,     \* refunds.amount_vnd of each order, 0 without a row
    shipment,   \* shipments and shipment_attempts of each order
    ret         \* return_requests with their return_items

catalogVars == <<active, price>>
stockVars   == <<stock, opening, ledger, received>>
couponVars  == <<usedCount, redemption>>
codVars     == <<boom, blocked>>
orderVars   == <<status, order, window, payment, refund, shipment>>
vars == <<catalogVars, stockVars, couponVars, codVars, orderVars, ret>>

-----------------------------------------------------------------------------
(***************************************************************************)
(* Rows.                                                                   *)
(***************************************************************************)
Statuses == {"none", "paid", "confirmed", "shipping", "delivered",
             "completed", "cancelled", "failed_delivery", "returned"}

\* store is NULL for channel 'online' and the store of a channel 'pos' order;
\* "counter" stands for the cash, card and vietqr payments of the counter.
OrderRows ==
    [customer : Customers \cup {Null}, store : Stores \cup {Null},
     method : {"none", "vietqr", "cod", "counter"}, items : Quantities,
     unitPrice : Quantities, coupon : Coupons \cup {Null},
     subtotal : Nat, discount : Nat, total : Nat]

NoOrder ==
    [customer |-> Null, store |-> Null, method |-> "none", items |-> NoUnits,
     unitPrice |-> NoUnits, coupon |-> Null,
     subtotal |-> 0, discount |-> 0, total |-> 0]

\* failures counts the shipment_attempts rows with status 'attempted_failed'.
ShipmentRows ==
    [state : {"none", "in_transit", "delivered", "failed"},
     failures : 0 .. 3, collected : Nat]

NoShipment == [state |-> "none", failures |-> 0, collected |-> 0]

\* quantity, amount and inspection are the return_items, one per variant of
\* the order; a variant with quantity 0 has no return_item.
ReturnRows ==
    [order : Orders \cup {Null},
     status : {"none", "pending_review", "approved", "rejected",
               "goods_received", "completed", "cancelled"},
     quantity : Quantities, amount : Quantities,
     inspection : [Variants -> {"pending", "passed", "failed"}]]

NoReturn ==
    [order |-> Null, status |-> "none", quantity |-> NoUnits,
     amount |-> NoUnits, inspection |-> [v \in Variants |-> "pending"]]

\* "reopened" is a window that had elapsed and that a later write reset.
WindowStates == {"none", "open", "elapsed", "reopened"}

-----------------------------------------------------------------------------
(***************************************************************************)
(* Helpers of more than one handler.                                       *)
(***************************************************************************)
Contents(basket) == {v \in Variants : basket[v] > 0}

\* Mutant: on_hand changes without a row in inventory_transactions.
MoveUnrecorded(location, delta) ==
    /\ stock' = [stock EXCEPT ![location] =
                    [v \in Variants |-> @[v] + delta[v]]]
    /\ UNCHANGED ledger

\* inventory.on_hand + delta at one location, with its ledger row.
Move(location, delta) ==
    /\ stock' = [stock EXCEPT ![location] =
                    [v \in Variants |-> @[v] + delta[v]]]
    /\ ledger' = [ledger EXCEPT ![location] =
                    [v \in Variants |-> @[v] + delta[v]]]

Minus(basket) == [v \in Variants |-> -basket[v]]

\* on_hand + quantity stays within opening_on_hand for every restored item.
FitsOpening(basket) ==
    \A v \in Contents(basket) : stock[Central][v] + basket[v] <= opening[v]

IsOnline(o) == order[o].store = Null
IsCod(o) == order[o].method = "cod"

Init ==
    /\ active = Customers \cup Variants \cup Stores \cup Staff \cup Coupons
    /\ price \in [Variants -> Prices]
    /\ stock = InitialStock
    /\ opening = InitialStock[Central]
    /\ ledger = [l \in Locations |-> NoUnits]
    /\ received = NoUnits
    /\ usedCount = [k \in Coupons |-> 0]
    /\ redemption = [o \in Orders |-> "none"]
    /\ boom = InitialBoom
    /\ blocked = [c \in Customers |-> FALSE]
    /\ status = [o \in Orders |-> "none"]
    /\ order = [o \in Orders |-> NoOrder]
    /\ window = [o \in Orders |-> "none"]
    /\ payment = [o \in Orders |-> "none"]
    /\ refund = [o \in Orders |-> 0]
    /\ shipment = [o \in Orders |-> NoShipment]
    /\ ret = [r \in ReturnIds |-> NoReturn]
=============================================================================
