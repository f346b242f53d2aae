----------------------------- MODULE Backoffice -----------------------------
(***************************************************************************)
(* What admins do beside the orders: inbound receipts (inbound/service.py),*)
(* prices, switching customers, variants, coupons, stores and staff on and *)
(* off (admin, coupons, logistics); and the passage of the return window.  *)
(***************************************************************************)
EXTENDS ShopTables

\* Mutant: opening_on_hand is left behind.
ReceiveUnderOldOpening(lot) ==
    /\ \A v \in Variants : received[v] + lot[v] <= MaxReceived
    /\ Move(Central, lot)
    /\ received' = [v \in Variants |-> received[v] + lot[v]]
    /\ UNCHANGED <<opening, catalogVars, couponVars, codVars, orderVars, ret>>

\* create_inbound_receipt, a receipt code not used before.
CreateInboundReceipt(lot) ==
    /\ \A v \in Variants : received[v] + lot[v] <= MaxReceived
    /\ Move(Central, lot)
    /\ opening' = [v \in Variants |-> opening[v] + lot[v]]
    /\ received' = [v \in Variants |-> received[v] + lot[v]]
    /\ UNCHANGED <<catalogVars, couponVars, codVars, orderVars, ret>>

\* update_variant with a price.
UpdateVariantPrice(v, p) ==
    /\ price' = [price EXCEPT ![v] = p]
    /\ UNCHANGED <<active, stockVars, couponVars, codVars, orderVars, ret>>

\* update_customer_status, update_variant, set_coupon_active, the end or the
\* start of a coupon's window, and the staff endpoint of logistics.
Switch(row) ==
    /\ active' = IF row \in active THEN active \ {row} ELSE active \cup {row}
    /\ UNCHANGED <<price, stockVars, couponVars, codVars, orderVars, ret>>

\* Seven days pass since the last write that opened the window of order o.
WindowElapses(o) ==
    /\ window[o] \in {"open", "reopened"}
    /\ window' = [window EXCEPT ![o] = "elapsed"]
    /\ UNCHANGED <<catalogVars, stockVars, couponVars, codVars, status, order,
                   payment, refund, shipment, ret>>
=============================================================================
