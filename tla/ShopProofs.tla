----------------------------- MODULE ShopProofs -----------------------------
(***************************************************************************)
(* Theorems about module Shop, for every finite set of orders, variants,   *)
(* stores and return requests and every setting of the constants that the  *)
(* assumptions of ShopTables allow.  In this order: the types of all       *)
(* tables, the statuses that two tables keep of one order, the COD block,  *)
(* the life cycle that Shop implements, what a sale promises beside the    *)
(* goods (coupons are used no more often than their limits allow, and the  *)
(* cash of COD orders is accounted for), and the balance of the stock.     *)
(***************************************************************************)
EXTENDS Shop, SumsProofs

-----------------------------------------------------------------------------
(***************************************************************************)
(* Lemmas on the helpers.                                                  *)
(***************************************************************************)

\* Sums over the variants and over return lines are natural numbers.
LEMMA BasketTotal == \A b \in Quantities : Total(b) \in Nat
BY FiniteTables, TotalType DEF Quantities

\* Moving units at a location keeps the types of stock and ledger, if nothing
\* becomes negative.
LEMMA MoveType ==
    ASSUME TypeOK, NEW l \in Locations, NEW delta \in [Variants -> Int],
           \A v \in Variants : stock[l][v] + delta[v] >= 0,
           Move(l, delta)
    PROVE  /\ stock' \in [Locations -> Quantities]
           /\ ledger' \in [Locations -> [Variants -> Int]]
<1>1. [v \in Variants |-> stock[l][v] + delta[v]] \in Quantities
  BY DEF TypeOK, Quantities
<1>2. [v \in Variants |-> ledger[l][v] + delta[v]] \in [Variants -> Int]
  BY DEF TypeOK
<1>3. stock' \in [Locations -> Quantities]
  BY <1>1 DEF TypeOK, Move
<1>4. ledger' \in [Locations -> [Variants -> Int]]
  BY <1>2 DEF TypeOK, Move
<1> QED BY <1>3, <1>4

\* Taking a basket that is in stock.
LEMMA TakeType ==
    ASSUME TypeOK, NEW l \in Locations, NEW basket \in Quantities,
           InStock(l, basket), Move(l, Minus(basket))
    PROVE  /\ stock' \in [Locations -> Quantities]
           /\ ledger' \in [Locations -> [Variants -> Int]]
<1>1. Minus(basket) \in [Variants -> Int]
  BY DEF Minus, Quantities
<1>2. \A v \in Variants : stock[l][v] + Minus(basket)[v] >= 0
  <2> TAKE v \in Variants
  <2>1. stock[l][v] \in Nat /\ basket[v] \in Nat
    BY DEF TypeOK, Quantities
  <2>2. stock[l][v] >= basket[v]
    BY <2>1 DEF InStock, Contents
  <2> QED BY <2>1, <2>2 DEF Minus
<1> QED BY <1>1, <1>2, MoveType

\* Putting units on a shelf.
LEMMA PutType ==
    ASSUME TypeOK, NEW l \in Locations, NEW basket \in Quantities,
           Move(l, basket)
    PROVE  /\ stock' \in [Locations -> Quantities]
           /\ ledger' \in [Locations -> [Variants -> Int]]
<1>1. basket \in [Variants -> Int]
  BY DEF Quantities
<1>2. \A v \in Variants : stock[l][v] + basket[v] >= 0
  BY DEF TypeOK, Quantities
<1> QED BY <1>1, <1>2, MoveType

\* The subtotal of a basket is an amount of money.
LEMMA SubtotalType ==
    ASSUME TypeOK, NEW basket \in Quantities
    PROVE  Subtotal(basket) \in Nat
<1>1. [v \in Variants |-> price[v] * basket[v]] \in [Variants -> Nat]
  BY DEF TypeOK, Quantities
<1> QED BY <1>1, FiniteTables, TotalType DEF Subtotal

-----------------------------------------------------------------------------
(***************************************************************************)
(* Type correctness.                                                       *)
(***************************************************************************)
LEMMA InitType == Init => TypeOK
<1> SUFFICES ASSUME Init PROVE TypeOK
  OBVIOUS
<1>1. NoUnits \in Quantities
  BY DEF NoUnits, Quantities
<1>2. NoOrder \in OrderRows
  BY <1>1 DEF NoOrder, OrderRows
<1>3. NoShipment \in ShipmentRows
  BY DEF NoShipment, ShipmentRows
<1>4. NoReturn \in ReturnRows
  BY <1>1 DEF NoReturn, ReturnRows
<1>5. /\ active \subseteq Customers \cup Variants \cup Stores \cup Staff
                             \cup Coupons \cup Switchable
      /\ price \in [Variants -> Nat]
  BY PayloadsValid DEF Init
<1>6. /\ stock \in [Locations -> Quantities]
      /\ opening \in Quantities
      /\ ledger \in [Locations -> [Variants -> Int]]
      /\ received \in Quantities
  BY <1>1, InitialTables DEF Init, NoUnits, Quantities, Locations
<1>7. /\ usedCount \in [Coupons -> Nat]
      /\ redemption \in [Orders -> {"none", "redeemed", "released"}]
      /\ boom \in [Customers -> Nat]
      /\ blocked \in [Customers -> BOOLEAN]
  BY InitialTables DEF Init
<1>8. /\ status \in [Orders -> Statuses]
      /\ window \in [Orders -> WindowStates]
      /\ payment \in [Orders -> {"none", "pending", "succeeded"}]
      /\ refund \in [Orders -> Nat]
  BY DEF Init, Statuses, WindowStates
<1>9. /\ order \in [Orders -> OrderRows]
      /\ shipment \in [Orders -> ShipmentRows]
      /\ ret \in [ReturnIds -> ReturnRows]
  BY <1>2, <1>3, <1>4 DEF Init
<1> QED BY <1>5, <1>6, <1>7, <1>8, <1>9 DEF TypeOK

LEMMA PlaceOrderType ==
    ASSUME TypeOK, NEW o \in Orders, NEW c \in Customers,
           NEW basket \in Baskets, NEW method \in {"vietqr", "cod"},
           NEW k \in Coupons \cup {Null}, PlaceOrder(o, c, basket, method, k)
    PROVE  TypeOK'
<1> DEFINE subtotal == Subtotal(basket)
           discount == IF k = Null THEN 0 ELSE CouponDiscount(k, subtotal)
           fee == ShippingFee(subtotal)
<1>1. basket \in Quantities
  BY PayloadsValid
<1>2. subtotal \in Nat
  BY <1>1, SubtotalType
<1>3. fee \in Nat
  BY MoneySettings DEF ShippingFee
<1>4. discount \in Nat
  <2>1. CASE k = Null
    BY <2>1
  <2>2. CASE k # Null
    <3>1. CouponRule[k] \in CouponRules
      BY <2>2, CouponRulesValid
    <3>2. CouponRule[k].value \in Nat
      BY <3>1 DEF CouponRules
    <3>3. \A n \in Nat : n \div 100 \in Nat
      OBVIOUS
    <3>4. subtotal * CouponRule[k].value \in Nat
      BY <1>2, <3>2
    <3> HIDE DEF subtotal
    <3>5. CouponDiscount(k, subtotal) \in Nat
      BY <1>2, <3>2, <3>3, <3>4 DEF CouponDiscount, Lesser
    <3> QED BY <2>2, <3>5
  <2> QED BY <2>1, <2>2
<1>5. discount <= subtotal
  BY DEF PlaceOrder
<1>6. subtotal - discount + fee \in Nat
  <2> HIDE DEF subtotal, discount, fee
  <2> QED BY <1>2, <1>3, <1>4, <1>5
<1>7. order' \in [Orders -> OrderRows]
  <2>1. order' = [order EXCEPT ![o] =
          [customer |-> c, store |-> Null, method |-> method,
           items |-> basket, unitPrice |-> price, coupon |-> k,
           subtotal |-> subtotal, discount |-> discount,
           total |-> subtotal - discount + fee]]
    BY DEF PlaceOrder
  <2>2. price \in Quantities
    BY DEF TypeOK, Quantities
  <2> HIDE DEF subtotal, discount, fee
  <2>3. [customer |-> c, store |-> Null, method |-> method,
           items |-> basket, unitPrice |-> price, coupon |-> k,
           subtotal |-> subtotal, discount |-> discount,
           total |-> subtotal - discount + fee] \in OrderRows
    BY <1>1, <1>2, <1>4, <1>6, <2>2 DEF OrderRows
  <2> QED BY <2>1, <2>3 DEF TypeOK
<1>8. /\ stock' \in [Locations -> Quantities]
      /\ ledger' \in [Locations -> [Variants -> Int]]
  BY <1>1, TakeType DEF PlaceOrder, DeductInventory, Locations
<1>9. /\ usedCount' \in [Coupons -> Nat]
      /\ redemption' \in [Orders -> {"none", "redeemed", "released"}]
  <2>1. CASE k = Null
    <3>1. UNCHANGED <<usedCount, redemption>>
      BY <2>1 DEF PlaceOrder, couponVars
    <3> QED BY <3>1 DEF TypeOK
  <2>2. CASE k # Null
    <3>1. /\ redemption' = [redemption EXCEPT ![o] = "redeemed"]
          /\ usedCount' = [usedCount EXCEPT ![k] = @ + 1]
      BY <2>2 DEF PlaceOrder
    <3>2. usedCount \in [Coupons -> Nat] /\ k \in Coupons
      BY <2>2 DEF TypeOK
    <3>3. usedCount' \in [Coupons -> Nat]
      BY <3>1, <3>2
    <3> QED BY <3>1, <3>3 DEF TypeOK
  <2> QED BY <2>1, <2>2
<1>10. /\ status' \in [Orders -> Statuses]
       /\ payment' \in [Orders -> {"none", "pending", "succeeded"}]
  BY DEF PlaceOrder, TypeOK, Statuses
<1> QED BY <1>7, <1>8, <1>9, <1>10
     DEF PlaceOrder, TypeOK, catalogVars, codVars

LEMMA CreatePosTransactionType ==
    ASSUME TypeOK, NEW o \in Orders, NEW s \in Stores,
           NEW c \in Customers \cup {Null}, NEW basket \in Baskets,
           CreatePosTransaction(o, s, c, basket)
    PROVE  TypeOK'
<1> DEFINE subtotal == Subtotal(basket)
<1>1. basket \in Quantities
  BY PayloadsValid
<1>2. subtotal \in Nat
  BY <1>1, SubtotalType
<1>3. order' \in [Orders -> OrderRows]
  <2>1. order' = [order EXCEPT ![o] =
          [customer |-> c, store |-> s, method |-> "counter",
           items |-> basket, unitPrice |-> price, coupon |-> Null,
           subtotal |-> subtotal, discount |-> 0, total |-> subtotal]]
    BY DEF CreatePosTransaction
  <2>2. price \in Quantities
    BY DEF TypeOK, Quantities
  <2> HIDE DEF subtotal
  <2>3. [customer |-> c, store |-> s, method |-> "counter",
           items |-> basket, unitPrice |-> price, coupon |-> Null,
           subtotal |-> subtotal, discount |-> 0, total |-> subtotal]
          \in OrderRows
    BY <1>1, <1>2, <2>2 DEF OrderRows
  <2> QED BY <2>1, <2>3 DEF TypeOK
<1>4. /\ stock' \in [Locations -> Quantities]
      /\ ledger' \in [Locations -> [Variants -> Int]]
  BY <1>1, TakeType DEF CreatePosTransaction, Locations
<1>5. /\ status' \in [Orders -> Statuses]
      /\ payment' \in [Orders -> {"none", "pending", "succeeded"}]
      /\ window' \in [Orders -> WindowStates]
  BY DEF CreatePosTransaction, TypeOK, Statuses, WindowStates
<1> QED BY <1>3, <1>4, <1>5
     DEF CreatePosTransaction, TypeOK, catalogVars, codVars, couponVars

LEMMA CancelOrderType ==
    ASSUME TypeOK, NEW o \in Orders, CancelOrder(o)
    PROVE  TypeOK'
<1>1. order[o] \in OrderRows
  BY DEF TypeOK
<1>2. order[o].items \in Quantities /\ order[o].total \in Nat
  BY <1>1 DEF OrderRows
<1>3. /\ stock' \in [Locations -> Quantities]
      /\ ledger' \in [Locations -> [Variants -> Int]]
  BY <1>2, PutType DEF CancelOrder, Locations
<1>4. /\ usedCount' \in [Coupons -> Nat]
      /\ redemption' \in [Orders -> {"none", "redeemed", "released"}]
  <2>1. CASE redemption[o] = "redeemed"
    <3>1. /\ usedCount[order[o].coupon] > 0
          /\ redemption' = [redemption EXCEPT ![o] = "released"]
          /\ usedCount' = [usedCount EXCEPT ![order[o].coupon] = @ - 1]
      BY <2>1 DEF CancelOrder, ReleaseCoupon
    <3>2. usedCount \in [Coupons -> Nat]
      BY DEF TypeOK
    <3>3. CASE order[o].coupon \in Coupons
      <4>1. usedCount[order[o].coupon] - 1 \in Nat
        BY <3>1, <3>2, <3>3
      <4> QED BY <3>1, <3>2, <4>1 DEF TypeOK
    <3>4. CASE order[o].coupon \notin Coupons
      <4>1. usedCount' = usedCount
        BY <3>1, <3>2, <3>4
      <4> QED BY <3>1, <4>1 DEF TypeOK
    <3> QED BY <3>3, <3>4
  <2>2. CASE redemption[o] # "redeemed"
    <3>1. UNCHANGED <<usedCount, redemption>>
      BY <2>2 DEF CancelOrder, ReleaseCoupon, couponVars
    <3> QED BY <3>1 DEF TypeOK
  <2> QED BY <2>1, <2>2
<1>5. refund' \in [Orders -> Nat] /\ status' \in [Orders -> Statuses]
  BY <1>2 DEF CancelOrder, TypeOK, Statuses
<1> QED BY <1>3, <1>4, <1>5 DEF CancelOrder, TypeOK, catalogVars, codVars

LEMMA CompleteOrderType ==
    ASSUME TypeOK, NEW o \in Orders, CompleteOrder(o)
    PROVE  TypeOK'
<1>1. /\ status' \in [Orders -> Statuses]
      /\ window' \in [Orders -> WindowStates]
  BY DEF CompleteOrder, TypeOK, Statuses, WindowStates
<1>2. payment' \in [Orders -> {"none", "pending", "succeeded"}]
  BY DEF CompleteOrder, TypeOK
<1> QED BY <1>1, <1>2
     DEF CompleteOrder, TypeOK, catalogVars, stockVars, couponVars, codVars

LEMMA ShipmentType ==
    ASSUME TypeOK, NEW o \in Orders
    PROVE  /\ \A staff : DispatchOrder(o, staff) => TypeOK'
           /\ DeliverOrder(o) => TypeOK'
           /\ FailAttempt(o) => TypeOK'
<1>1. shipment[o] \in ShipmentRows /\ order[o].total \in Nat
  BY DEF TypeOK, OrderRows
<1>2. ASSUME NEW staff, DispatchOrder(o, staff)
      PROVE  TypeOK'
  <2>1. shipment' \in [Orders -> ShipmentRows]
    BY <1>2 DEF DispatchOrder, TypeOK, ShipmentRows
  <2>2. status' \in [Orders -> Statuses]
    BY <1>2 DEF DispatchOrder, TypeOK, Statuses
  <2> QED BY <1>2, <2>1, <2>2 DEF DispatchOrder, TypeOK, catalogVars,
          stockVars, couponVars, codVars
<1>3. ASSUME DeliverOrder(o)
      PROVE  TypeOK'
  <2>1. shipment' \in [Orders -> ShipmentRows]
    BY <1>1, <1>3 DEF DeliverOrder, TypeOK, ShipmentRows
  <2>2. /\ status' \in [Orders -> Statuses]
        /\ window' \in [Orders -> WindowStates]
    BY <1>3 DEF DeliverOrder, TypeOK, Statuses, WindowStates
  <2> QED BY <1>3, <2>1, <2>2 DEF DeliverOrder, TypeOK, catalogVars,
          stockVars, couponVars, codVars
<1>4. ASSUME FailAttempt(o)
      PROVE  TypeOK'
  <2>1. shipment[o].failures + 1 \in 0 .. 3
    BY <1>1, <1>4 DEF FailAttempt, ShipmentRows, MaxAttempts
  <2>2. shipment' \in [Orders -> ShipmentRows]
    BY <1>1, <1>4, <2>1 DEF FailAttempt, TypeOK, ShipmentRows
  <2> QED BY <1>4, <2>2 DEF FailAttempt, TypeOK, catalogVars, stockVars,
          couponVars, codVars
<1> QED BY <1>2, <1>3, <1>4

\* Counting a failed delivery keeps the types of the COD columns.
LEMMA CountBoomType ==
    ASSUME TypeOK, NEW c, NEW buyerFault \in BOOLEAN, CountBoom(c, buyerFault)
    PROVE  /\ boom' \in [Customers -> Nat]
           /\ blocked' \in [Customers -> BOOLEAN]
<1>1. CASE buyerFault
  <2>1. /\ boom' = [boom EXCEPT ![c] = @ + 1]
        /\ blocked' = [blocked EXCEPT ![c] = @ \/ boom[c] + 1 >= 3]
    BY <1>1 DEF CountBoom
  <2>2. boom' \in [Customers -> Nat]
    <3>1. boom \in [Customers -> Nat]
      BY DEF TypeOK
    <3>2. CASE c \in Customers
      <4>1. boom[c] + 1 \in Nat
        BY <3>1, <3>2
      <4> QED BY <2>1, <3>1, <4>1
    <3>3. CASE c \notin Customers
      <4>1. boom' = boom
        BY <2>1, <3>1, <3>3
      <4> QED BY <3>1, <4>1
    <3> QED BY <3>2, <3>3
  <2>3. (blocked[c] \/ boom[c] + 1 >= 3) \in BOOLEAN
    OBVIOUS
  <2>4. blocked' \in [Customers -> BOOLEAN]
    <3> DEFINE b == (blocked[c] \/ boom[c] + 1 >= 3)
    <3>1. b \in BOOLEAN /\ blocked' = [blocked EXCEPT ![c] = b]
      BY <2>1, <2>3
    <3> HIDE DEF b
    <3> QED BY <3>1, Zenon DEF TypeOK
  <2> QED BY <2>2, <2>4
<1>2. CASE ~ buyerFault
  <2>1. UNCHANGED <<boom, blocked>>
    BY <1>2 DEF CountBoom, codVars
  <2> QED BY <2>1 DEF TypeOK
<1> QED BY <1>1, <1>2

LEMMA FailLastAttemptType ==
    ASSUME TypeOK, NEW o \in Orders, NEW buyerFault \in BOOLEAN,
           FailLastAttempt(o, buyerFault)
    PROVE  TypeOK'
<1>1. order[o].items \in Quantities
  BY DEF TypeOK, OrderRows
<1>2. /\ stock' \in [Locations -> Quantities]
      /\ ledger' \in [Locations -> [Variants -> Int]]
  BY <1>1, PutType DEF FailLastAttempt, Locations
<1>3. boom' \in [Customers -> Nat] /\ blocked' \in [Customers -> BOOLEAN]
  BY CountBoomType DEF FailLastAttempt
<1>4. shipment' \in [Orders -> ShipmentRows]
  <2>1. shipment[o] \in ShipmentRows
    BY DEF TypeOK
  <2>2. shipment[o].failures + 1 \in 0 .. 3
    BY <2>1 DEF FailLastAttempt, MaxAttempts
  <2> QED BY <2>1, <2>2 DEF FailLastAttempt, TypeOK, ShipmentRows
<1>5. status' \in [Orders -> Statuses]
  BY DEF FailLastAttempt, TypeOK, Statuses
<1> QED BY <1>2, <1>3, <1>4, <1>5
     DEF FailLastAttempt, TypeOK, catalogVars, couponVars

LEMMA ReinstateType ==
    ASSUME TypeOK, NEW c \in Customers, NEW probation \in Probations,
           ReinstateCustomerCod(c, probation)
    PROVE  TypeOK'
<1>1. probation \in Nat
  BY PayloadsValid
<1>2. boom' \in [Customers -> Nat]
  BY <1>1 DEF ReinstateCustomerCod, TypeOK, Lesser
<1>3. blocked' \in [Customers -> BOOLEAN]
  BY DEF ReinstateCustomerCod, TypeOK
<1> QED BY <1>2, <1>3 DEF ReinstateCustomerCod, TypeOK, catalogVars,
        stockVars, couponVars, orderVars

LEMMA AdvanceType ==
    ASSUME TypeOK, NEW r \in ReturnIds, NEW from,
           NEW to \in {"approved", "rejected", "goods_received", "cancelled"},
           Advance(r, from, to)
    PROVE  TypeOK'
<1>1. ret[r] \in ReturnRows
  BY DEF TypeOK
<1>2. ret' \in [ReturnIds -> ReturnRows]
  BY <1>1 DEF Advance, TypeOK, ReturnRows
<1> QED BY <1>2 DEF Advance, TypeOK, catalogVars, stockVars, couponVars,
        codVars, orderVars

LEMMA CreateReturnType ==
    ASSUME TypeOK, NEW r \in ReturnIds, NEW o \in Orders, CreateReturn(r, o)
    PROVE  TypeOK'
<1>1. PICK q \in ReturnChoices(o), unit \in UnitRefunds(o) :
         ret' = [ret EXCEPT ![r] =
             [order |-> o, status |-> "pending_review", quantity |-> q,
              amount |-> [v \in Variants |-> unit[v] * q[v]],
              inspection |-> [v \in Variants |-> "pending"]]]
  BY DEF CreateReturn
<1>2. q \in Quantities
  BY DEF ReturnChoices, Quantities
<1>3. unit \in Quantities
  BY DEF UnitRefunds, Quantities
<1>4. [v \in Variants |-> unit[v] * q[v]] \in Quantities
  <2>1. \A v \in Variants : unit[v] * q[v] \in Nat
    BY <1>2, <1>3 DEF Quantities
  <2> QED BY <2>1 DEF Quantities
<1>5. [order |-> o, status |-> "pending_review", quantity |-> q,
       amount |-> [v \in Variants |-> unit[v] * q[v]],
       inspection |-> [v \in Variants |-> "pending"]] \in ReturnRows
  <2> DEFINE amount == [v \in Variants |-> unit[v] * q[v]]
             inspection == [v \in Variants |-> "pending"]
  <2>1. amount \in Quantities
    BY <1>4
  <2>2. inspection \in [Variants -> {"pending", "passed", "failed"}]
    OBVIOUS
  <2> HIDE DEF amount, inspection
  <2>3. [order |-> o, status |-> "pending_review", quantity |-> q,
         amount |-> amount, inspection |-> inspection] \in ReturnRows
    BY <1>2, <2>1, <2>2 DEF ReturnRows
  <2> QED BY <2>3 DEF amount, inspection
<1>6. ret' \in [ReturnIds -> ReturnRows]
  BY <1>1, <1>5 DEF TypeOK
<1> QED BY <1>6 DEF CreateReturn, TypeOK, catalogVars, stockVars, couponVars,
        codVars, orderVars

\* The passed part of a column of a return request is a basket again.
LEMMA PassedType ==
    ASSUME NEW row, NEW column \in Quantities
    PROVE  Passed(row, column) \in Quantities
BY DEF Passed, Quantities

LEMMA InspectType ==
    ASSUME TypeOK, NEW r \in ReturnIds, NEW inspection \in Verdicts(r),
           InspectAndResolve(r, inspection)
    PROVE  TypeOK'
<1> DEFINE o == ret[r].order
           rows == [ret EXCEPT ![r].status = "completed",
                               ![r].inspection = inspection]
           units == Passed(rows[r], rows[r].quantity)
           amount == Total(Passed(rows[r], rows[r].amount))
<1>1. ret[r] \in ReturnRows
  BY DEF TypeOK
<1>2. inspection \in [Variants -> {"pending", "passed", "failed"}]
  BY DEF Verdicts
<1>3. rows \in [ReturnIds -> ReturnRows]
  BY <1>1, <1>2 DEF TypeOK, ReturnRows
<1>4. rows[r].quantity \in Quantities /\ rows[r].amount \in Quantities
  BY <1>3 DEF ReturnRows
<1>5. units \in Quantities
  BY <1>4, PassedType
<1>6. amount \in Nat
  BY <1>4, PassedType, BasketTotal
<1>7. ret' = rows
  BY DEF InspectAndResolve
<1>8. Restock(units)
  BY DEF InspectAndResolve
<1>9. GrantRefund(o, amount)
  BY DEF InspectAndResolve
<1>10. /\ stock' \in [Locations -> Quantities]
       /\ ledger' \in [Locations -> [Variants -> Int]]
  <2> HIDE DEF units
  <2> QED BY <1>5, <1>8, PutType DEF Restock, Locations
<1>11. opening' \in Quantities
  <2> HIDE DEF units
  <2>1. \A v \in Variants : /\ opening[v] \in Nat
                            /\ stock[Central][v] + units[v] \in Nat
    BY <1>5 DEF TypeOK, Quantities, Locations
  <2>2. \A v \in Variants :
           Greater(opening[v], stock[Central][v] + units[v]) \in Nat
    BY <2>1 DEF Greater
  <2> QED BY <1>8, <2>1, <2>2 DEF Restock, Quantities
<1>12. refund' \in [Orders -> Nat]
  <2> HIDE DEF amount, o
  <2>1. /\ refund \in [Orders -> Nat]
        /\ \A x \in Orders : order[x].total \in Nat
    BY DEF TypeOK, OrderRows
  <2>2. CASE o \in Orders
    <3>1. /\ Lesser(order[o].total, refund[o] + amount) \in Nat
          /\ refund[o] \in Nat
      BY <1>6, <2>1, <2>2 DEF Lesser
    <3> QED BY <1>9, <2>1, <3>1 DEF GrantRefund
  <2>3. CASE o \notin Orders
    <3>1. refund' = refund
      BY <1>9, <2>1, <2>3 DEF GrantRefund
    <3> QED BY <2>1, <3>1
  <2> QED BY <2>2, <2>3
<1>13. status' \in [Orders -> Statuses]
  <2>1. \/ UNCHANGED status
        \/ status' = [status EXCEPT ![o] = "returned"]
    BY DEF InspectAndResolve, CloseReturnedOrder
  <2> QED BY <2>1 DEF TypeOK, Statuses
<1>14. ret' \in [ReturnIds -> ReturnRows]
  BY <1>3, <1>7
<1> QED BY <1>10, <1>11, <1>12, <1>13, <1>14
     DEF InspectAndResolve, TypeOK, catalogVars, couponVars, codVars

LEMMA BackofficeType ==
    ASSUME TypeOK
    PROVE  /\ \A lot \in Lots : CreateInboundReceipt(lot) => TypeOK'
           /\ \A v \in Variants, p \in Prices :
                 UpdateVariantPrice(v, p) => TypeOK'
           /\ \A row \in Switchable : Switch(row) => TypeOK'
           /\ \A o \in Orders : WindowElapses(o) => TypeOK'
<1>1. ASSUME NEW lot \in Lots, CreateInboundReceipt(lot)
      PROVE  TypeOK'
  <2>1. lot \in Quantities
    BY PayloadsValid
  <2>2. /\ stock' \in [Locations -> Quantities]
        /\ ledger' \in [Locations -> [Variants -> Int]]
    BY <1>1, <2>1, PutType DEF CreateInboundReceipt, Locations
  <2>3. opening' \in Quantities /\ received' \in Quantities
    <3>1. \A v \in Variants : /\ opening[v] + lot[v] \in Nat
                              /\ received[v] + lot[v] \in Nat
      BY <2>1 DEF TypeOK, Quantities
    <3> QED BY <1>1, <3>1 DEF CreateInboundReceipt, Quantities
  <2> QED BY <1>1, <2>2, <2>3 DEF CreateInboundReceipt, TypeOK, catalogVars,
          couponVars, codVars, orderVars
<1>2. ASSUME NEW v \in Variants, NEW p \in Prices, UpdateVariantPrice(v, p)
      PROVE  TypeOK'
  <2>1. price' \in [Variants -> Nat]
    BY <1>2, PayloadsValid DEF UpdateVariantPrice, TypeOK
  <2> QED BY <1>2, <2>1 DEF UpdateVariantPrice, TypeOK, stockVars, couponVars,
          codVars, orderVars
<1>3. ASSUME NEW row \in Switchable, Switch(row)
      PROVE  TypeOK'
  <2>1. active' \subseteq active \cup Switchable
    BY <1>3 DEF Switch
  <2> QED BY <1>3, <2>1 DEF Switch, TypeOK, stockVars, couponVars, codVars,
          orderVars
<1>4. ASSUME NEW o \in Orders, WindowElapses(o)
      PROVE  TypeOK'
  <2>1. window' \in [Orders -> WindowStates]
    BY <1>4 DEF WindowElapses, TypeOK, WindowStates
  <2> QED BY <1>4, <2>1 DEF WindowElapses, TypeOK, catalogVars, stockVars,
          couponVars, codVars
<1> QED BY <1>1, <1>2, <1>3, <1>4

\* ConfirmOrder only changes a status.
LEMMA ConfirmOrderType ==
    ASSUME TypeOK, NEW o \in Orders, ConfirmOrder(o)
    PROVE  TypeOK'
<1>1. status' \in [Orders -> Statuses]
  BY DEF ConfirmOrder, TypeOK, Statuses
<1> QED BY <1>1 DEF ConfirmOrder, TypeOK, catalogVars, stockVars, couponVars,
        codVars

LEMMA StutterType == TypeOK /\ UNCHANGED vars => TypeOK'
BY DEF TypeOK, vars, catalogVars, stockVars, couponVars, codVars, orderVars

LEMMA StepType == TypeOK /\ [Next]_vars => TypeOK'
<1> SUFFICES ASSUME TypeOK, [Next]_vars PROVE TypeOK'
  OBVIOUS
<1>1. ASSUME NEW o \in Orders, Sale(o) PROVE TypeOK'
  BY <1>1, PlaceOrderType, CreatePosTransactionType DEF Sale
<1>2. ASSUME NEW o \in Orders, Fulfil(o) PROVE TypeOK'
  BY <1>2, ConfirmOrderType, CompleteOrderType, CancelOrderType, ShipmentType,
     FailLastAttemptType DEF Fulfil, FailDeliveryOrder
<1>3. ASSUME NEW r \in ReturnIds, ReturnStep(r) PROVE TypeOK'
  <2>1. ASSUME NEW o \in Orders, CreateReturn(r, o) PROVE TypeOK'
    BY <2>1, CreateReturnType
  <2>2. CASE CancelReturn(r)
    BY <2>2, AdvanceType DEF CancelReturn
  <2>3. CASE ReviewReturn(r)
    BY <2>3, AdvanceType DEF ReviewReturn
  <2>4. CASE ReceiveReturn(r)
    BY <2>4, AdvanceType DEF ReceiveReturn
  <2>5. CASE Resolve(r)
    BY <2>5, InspectType DEF Resolve
  <2> QED BY <1>3, <2>1, <2>2, <2>3, <2>4, <2>5 DEF ReturnStep
<1>4. ASSUME NEW c \in Customers, NEW probation \in Probations,
             ReinstateCustomerCod(c, probation)
      PROVE  TypeOK'
  BY <1>4, ReinstateType
<1>5. CASE UNCHANGED vars
  BY <1>5, StutterType
<1>6. Expiring \subseteq Orders
  BY PayloadsValid
<1> QED BY <1>1, <1>2, <1>3, <1>4, <1>5, <1>6, BackofficeType DEF Next

\* Every column of every table keeps its type, over every interleaving of the
\* handlers: no unsigned column of the schema is ever driven below zero.
THEOREM TypeCorrect == Spec => []TypeOK
<1>1. Init => TypeOK
  BY InitType
<1>2. TypeOK /\ [Next]_vars => TypeOK'
  BY StepType
<1> QED BY <1>1, <1>2, PTL DEF Spec

-----------------------------------------------------------------------------
(***************************************************************************)
(* The COD block.                                                          *)
(***************************************************************************)

\* The only steps that write the counter or the block are the third failed
\* delivery and the reinstatement of a customer.
LEMMA BoomWriters ==
    ASSUME Next
    PROVE  \/ UNCHANGED codVars
           \/ \E c, buyerFault : CountBoom(c, buyerFault)
           \/ \E c \in Customers, probation \in Probations :
                 ReinstateCustomerCod(c, probation)
<1>1. ASSUME NEW o \in Orders, Sale(o) PROVE UNCHANGED codVars
  BY <1>1 DEF Sale, PlaceOrder, CreatePosTransaction
<1>2. ASSUME NEW o \in Orders, Fulfil(o)
      PROVE  \/ UNCHANGED codVars
             \/ \E c, buyerFault : CountBoom(c, buyerFault)
  BY <1>2 DEF Fulfil, ConfirmOrder, CompleteOrder, CancelOrder, DispatchOrder,
     DeliverOrder, FailDeliveryOrder, FailAttempt, FailLastAttempt
<1>3. ASSUME NEW r \in ReturnIds, ReturnStep(r) PROVE UNCHANGED codVars
  BY <1>3 DEF ReturnStep, CreateReturn, CancelReturn, ReviewReturn,
     ReceiveReturn, Advance, Resolve, InspectAndResolve
<1>4. ASSUME NEW lot, CreateInboundReceipt(lot) PROVE UNCHANGED codVars
  BY <1>4 DEF CreateInboundReceipt
<1>5. ASSUME NEW v, NEW p, UpdateVariantPrice(v, p) PROVE UNCHANGED codVars
  BY <1>5 DEF UpdateVariantPrice
<1>6. ASSUME NEW row, Switch(row) PROVE UNCHANGED codVars
  BY <1>6 DEF Switch
<1>7. ASSUME NEW o, WindowElapses(o) PROVE UNCHANGED codVars
  BY <1>7 DEF WindowElapses
<1> QED BY <1>1, <1>2, <1>3, <1>4, <1>5, <1>6, <1>7 DEF Next

LEMMA StepBoom ==
    ASSUME TypeOK, BoomBlocks, [Next]_vars
    PROVE  BoomBlocks'
<1>1. boom \in [Customers -> Nat] /\ blocked \in [Customers -> BOOLEAN]
  BY DEF TypeOK
<1>2. CASE UNCHANGED codVars
  BY <1>2 DEF BoomBlocks, codVars
<1>3. ASSUME NEW c, NEW buyerFault, CountBoom(c, buyerFault)
      PROVE  BoomBlocks'
  <2>1. CASE ~ buyerFault
    BY <1>2, <1>3, <2>1 DEF CountBoom
  <2>2. CASE buyerFault
    <3>1. /\ boom' = [boom EXCEPT ![c] = @ + 1]
          /\ blocked' = [blocked EXCEPT ![c] = @ \/ boom[c] + 1 >= 3]
      BY <1>3, <2>2 DEF CountBoom
    <3> SUFFICES ASSUME NEW x \in Customers, boom'[x] >= 3 PROVE blocked'[x]
      BY DEF BoomBlocks
    <3>2. CASE x # c
      BY <1>1, <3>1, <3>2 DEF BoomBlocks
    <3>3. CASE x = c
      <4>1. boom[x] + 1 >= 3
        BY <1>1, <3>1, <3>3
      <4> QED BY <1>1, <3>1, <3>3, <4>1
    <3> QED BY <3>2, <3>3
  <2> QED BY <2>1, <2>2
<1>4. ASSUME NEW c \in Customers, NEW probation \in Probations,
             ReinstateCustomerCod(c, probation)
      PROVE  BoomBlocks'
  <2>1. probation \in 0 .. 2
    BY PayloadsValid
  <2>2. Lesser(boom[c], probation) <= 2
    BY <1>1, <2>1 DEF Lesser
  <2> SUFFICES ASSUME NEW x \in Customers, boom'[x] >= 3 PROVE blocked'[x]
    BY DEF BoomBlocks
  <2>3. boom' = [boom EXCEPT ![c] = Lesser(boom[c], probation)]
    BY <1>4 DEF ReinstateCustomerCod
  <2>4. x # c
    <3> SUFFICES ASSUME x = c PROVE FALSE
      OBVIOUS
    <3>1. boom'[x] = Lesser(boom[c], probation)
      BY <1>1, <2>3
    <3>2. Lesser(boom[c], probation) \in Int
      BY <1>1, <2>1 DEF Lesser
    <3> QED BY <2>2, <3>1, <3>2
  <2>5. boom'[x] = boom[x]
    BY <1>1, <2>3, <2>4
  <2>6. blocked'[x] = blocked[x]
    BY <1>1, <1>4, <2>4 DEF ReinstateCustomerCod
  <2> QED BY <2>5, <2>6 DEF BoomBlocks
<1>5. CASE UNCHANGED vars
  BY <1>2, <1>5 DEF vars
<1> QED BY <1>2, <1>3, <1>4, <1>5, BoomWriters

\* Three undeliverable orders block a customer from COD, whatever the order
\* of failed deliveries and reinstatements.
THEOREM BoomAlwaysBlocks == Spec => []BoomBlocks
<1>1. Init => BoomBlocks
  BY InitialTables DEF Init, BoomBlocks
<1>2. TypeOK /\ BoomBlocks /\ [Next]_vars => BoomBlocks'
  BY StepBoom
<1> QED BY <1>1, <1>2, TypeCorrect, PTL DEF Spec
-----------------------------------------------------------------------------
(***************************************************************************)
(* Shop implements OrderLifecycle.                                         *)
(*                                                                         *)
(* All handlers but one look at the status before they write it.           *)
(* InspectAndResolve does not: that it turns only delivered and completed  *)
(* orders into returned ones follows from where requests come from, and    *)
(* from no handler leading back out of these statuses.                     *)
(***************************************************************************)
AtTheBuyer == {"delivered", "completed", "returned"}

\* A request belongs to an order that has reached its buyer.
ReturnsFollowDelivery ==
    \A r \in ReturnIds :
        ret[r].status # "none" =>
            /\ ret[r].order \in Orders
            /\ status[ret[r].order] \in AtTheBuyer

StatusInv == TypeOK /\ ReturnsFollowDelivery

\* What a step may do to the statuses: a transition of the lifecycle that
\* does not take an order back from its buyer.
StatusMove ==
    \/ UNCHANGED status
    \/ \E o \in Orders, to \in AtTheBuyer :
          /\ <<status[o], to>> \in Lifecycle!ValidTransition
          /\ status' = [status EXCEPT ![o] = to]
    \/ \E o \in Orders, to \in Statuses :
          /\ <<status[o], to>> \in Lifecycle!ValidTransition
          /\ status[o] \notin AtTheBuyer
          /\ status' = [status EXCEPT ![o] = to]

LEMMA InitStatusInv == Init => StatusInv
BY InitType DEF Init, StatusInv, ReturnsFollowDelivery, NoReturn

\* Sales and fulfilment.
LEMMA OrderMoves ==
    ASSUME NEW o \in Orders, Sale(o) \/ Fulfil(o)
    PROVE  StatusMove /\ UNCHANGED ret
<1>1. CASE Sale(o)
  <2>1. \E to \in {"paid", "confirmed", "completed"} :
           /\ status[o] = "none"
           /\ status' = [status EXCEPT ![o] = to]
    BY <1>1 DEF Sale, PlaceOrder, CreatePosTransaction
  <2>2. UNCHANGED ret
    BY <1>1 DEF Sale, PlaceOrder, CreatePosTransaction
  <2> QED BY <2>1, <2>2 DEF StatusMove, Lifecycle!ValidTransition, Statuses,
          AtTheBuyer
<1>2. CASE Fulfil(o)
  <2>1. UNCHANGED ret
    BY <1>2 DEF Fulfil, ConfirmOrder, CompleteOrder, CancelOrder,
       DispatchOrder, DeliverOrder, FailDeliveryOrder, FailAttempt,
       FailLastAttempt
  <2>2. CASE ConfirmOrder(o)
    BY <2>2 DEF ConfirmOrder, StatusMove, Lifecycle!ValidTransition, Statuses,
       AtTheBuyer
  <2>3. CASE CompleteOrder(o)
    BY <2>3 DEF CompleteOrder, StatusMove, Lifecycle!ValidTransition,
       AtTheBuyer
  <2>4. CASE CancelOrder(o)
    BY <2>4 DEF CancelOrder, StatusMove, Lifecycle!ValidTransition, Statuses,
       AtTheBuyer
  <2>5. ASSUME NEW staff, DispatchOrder(o, staff) PROVE StatusMove
    BY <2>5 DEF DispatchOrder, StatusMove, Lifecycle!ValidTransition,
       Statuses, AtTheBuyer
  <2>6. CASE DeliverOrder(o)
    BY <2>6 DEF DeliverOrder, StatusMove, Lifecycle!ValidTransition,
       AtTheBuyer
  <2>7. CASE FailAttempt(o)
    BY <2>7 DEF FailAttempt, StatusMove
  <2>8. ASSUME NEW buyerFault, FailLastAttempt(o, buyerFault) PROVE StatusMove
    BY <2>8 DEF FailLastAttempt, StatusMove, Lifecycle!ValidTransition,
       Statuses, AtTheBuyer
  <2> QED BY <1>2, <2>1, <2>2, <2>3, <2>4, <2>5, <2>6, <2>7, <2>8
          DEF Fulfil, FailDeliveryOrder
<1> QED BY <1>1, <1>2

\* No status move takes an order from its buyer.
LEMMA StayAtTheBuyer ==
    ASSUME TypeOK, StatusMove, NEW o \in Orders, status[o] \in AtTheBuyer
    PROVE  status'[o] \in AtTheBuyer
BY DEF TypeOK, StatusMove

\* An inspection may turn an order into a returned one.
LEMMA InspectionMoves ==
    ASSUME StatusInv, NEW r \in ReturnIds, NEW inspection,
           InspectAndResolve(r, inspection)
    PROVE  /\ StatusMove
           /\ ret[r].order \in Orders
           /\ status[ret[r].order] \in AtTheBuyer
<1> DEFINE o == ret[r].order
<1>1. o \in Orders /\ status[o] \in AtTheBuyer
  BY DEF InspectAndResolve, StatusInv, ReturnsFollowDelivery
<1>2. \/ UNCHANGED status
      \/ status' = [status EXCEPT ![o] = "returned"]
  BY DEF InspectAndResolve, CloseReturnedOrder
<1>3. CASE UNCHANGED status
  BY <1>1, <1>3 DEF StatusMove
<1>4. CASE status' = [status EXCEPT ![o] = "returned"] /\ status[o] = "returned"
  <2>1. status' = status
    BY <1>4 DEF StatusInv, TypeOK
  <2> QED BY <1>1, <2>1 DEF StatusMove
<1>5. CASE status' = [status EXCEPT ![o] = "returned"] /\ status[o] # "returned"
  <2>1. <<status[o], "returned">> \in Lifecycle!ValidTransition
    BY <1>1, <1>5 DEF AtTheBuyer, Lifecycle!ValidTransition
  <2> QED BY <1>1, <1>5, <2>1 DEF StatusMove, AtTheBuyer
<1> QED BY <1>2, <1>3, <1>4, <1>5

\* A request that changes keeps its order, or is new on a delivered order.
LEMMA ReturnRowMoves ==
    ASSUME TypeOK, NEW r \in ReturnIds, ReturnStep(r), NEW r2 \in ReturnIds,
           ret'[r2].status # "none"
    PROVE  \/ ret[r2].status # "none" /\ ret'[r2].order = ret[r2].order
           \/ ret'[r2].order \in Orders /\ status[ret'[r2].order] \in AtTheBuyer
<1>0. ret \in [ReturnIds -> ReturnRows]
  BY DEF TypeOK
<1>1. CASE r2 # r
  <2>1. ret'[r2] = ret[r2]
    BY <1>0, <1>1 DEF ReturnStep, CreateReturn, CancelReturn, ReviewReturn,
       ReceiveReturn, Advance, Resolve, InspectAndResolve
  <2> QED BY <2>1
<1>2. CASE r2 = r
  <2>1. ASSUME NEW o \in Orders, CreateReturn(r, o)
        PROVE  ret'[r2].order = o /\ status[o] \in AtTheBuyer
    BY <1>0, <1>2, <2>1 DEF CreateReturn, AtTheBuyer
  <2>2. ASSUME NEW from, NEW to, from # "none", Advance(r, from, to)
        PROVE  ret[r2].status # "none" /\ ret'[r2].order = ret[r2].order
    BY <1>0, <1>2, <2>2 DEF Advance, ReturnRows
  <2>3. ASSUME NEW i, InspectAndResolve(r, i)
        PROVE  ret[r2].status # "none" /\ ret'[r2].order = ret[r2].order
    BY <1>0, <1>2, <2>3 DEF InspectAndResolve, ReturnRows
  <2> QED BY <2>1, <2>2, <2>3 DEF ReturnStep, CancelReturn, ReviewReturn,
          ReceiveReturn, Resolve
<1> QED BY <1>1, <1>2

LEMMA ReturnMoves ==
    ASSUME StatusInv, NEW r \in ReturnIds, ReturnStep(r)
    PROVE  StatusMove
<1>1. ASSUME NEW i, InspectAndResolve(r, i) PROVE StatusMove
  BY <1>1, InspectionMoves
<1>2. CASE UNCHANGED status
  BY <1>2 DEF StatusMove
<1> QED BY <1>1, <1>2 DEF ReturnStep, CreateReturn, CancelReturn,
        ReviewReturn, ReceiveReturn, Advance, Resolve, orderVars

LEMMA StepMoves ==
    ASSUME StatusInv, [Next]_vars
    PROVE  StatusMove
<1>1. CASE UNCHANGED status
  BY <1>1 DEF StatusMove
<1>2. ASSUME NEW c, NEW p, ReinstateCustomerCod(c, p) PROVE UNCHANGED status
  BY <1>2 DEF ReinstateCustomerCod, orderVars
<1>3. ASSUME NEW lot, CreateInboundReceipt(lot) PROVE UNCHANGED status
  BY <1>3 DEF CreateInboundReceipt, orderVars
<1>4. ASSUME NEW v, NEW p, UpdateVariantPrice(v, p) PROVE UNCHANGED status
  BY <1>4 DEF UpdateVariantPrice, orderVars
<1>5. ASSUME NEW row, Switch(row) PROVE UNCHANGED status
  BY <1>5 DEF Switch, orderVars
<1>6. ASSUME NEW o, WindowElapses(o) PROVE UNCHANGED status
  BY <1>6 DEF WindowElapses
<1>7. CASE UNCHANGED vars
  BY <1>1, <1>7 DEF vars, orderVars
<1> QED BY <1>1, <1>2, <1>3, <1>4, <1>5, <1>6, <1>7, OrderMoves, ReturnMoves
        DEF Next

LEMMA StepReturnRows ==
    ASSUME StatusInv, [Next]_vars, NEW r2 \in ReturnIds,
           ret'[r2].status # "none"
    PROVE  \/ ret[r2].status # "none" /\ ret'[r2].order = ret[r2].order
           \/ ret'[r2].order \in Orders /\ status[ret'[r2].order] \in AtTheBuyer
<1>1. CASE UNCHANGED ret
  BY <1>1
<1>2. CASE \E r \in ReturnIds : ReturnStep(r)
  BY <1>2, ReturnRowMoves DEF StatusInv
<1>3. ASSUME NEW o \in Orders, Sale(o) \/ Fulfil(o) PROVE UNCHANGED ret
  BY <1>3, OrderMoves
<1>4. CASE \/ \E o : WindowElapses(o)
           \/ \E c, p : ReinstateCustomerCod(c, p)
           \/ \E lot : CreateInboundReceipt(lot)
           \/ \E v, p : UpdateVariantPrice(v, p)
           \/ \E row : Switch(row)
  BY <1>1, <1>4 DEF WindowElapses, ReinstateCustomerCod, CreateInboundReceipt,
     UpdateVariantPrice, Switch
<1>5. CASE UNCHANGED vars
  BY <1>1, <1>5 DEF vars
<1> QED BY <1>1, <1>2, <1>3, <1>4, <1>5 DEF Next

LEMMA StepStatusInv == StatusInv /\ [Next]_vars => StatusInv'
<1> SUFFICES ASSUME StatusInv, [Next]_vars PROVE StatusInv'
  OBVIOUS
<1>1. TypeOK /\ TypeOK'
  BY StepType DEF StatusInv
<1>2. ASSUME NEW r \in ReturnIds, ret'[r].status # "none"
      PROVE  ret'[r].order \in Orders /\ status'[ret'[r].order] \in AtTheBuyer
  <2>1. ret'[r].order \in Orders /\ status[ret'[r].order] \in AtTheBuyer
    BY <1>2, StepReturnRows DEF StatusInv, ReturnsFollowDelivery
  <2> QED BY <1>1, <2>1, StepMoves, StayAtTheBuyer
<1> QED BY <1>1, <1>2 DEF StatusInv, ReturnsFollowDelivery

LEMMA MoveIsTransition == StatusMove => [Lifecycle!Next]_status
BY DEF StatusMove, Lifecycle!Next, Lifecycle!Transition, Lifecycle!AllStatuses,
   AtTheBuyer, Statuses

\* No handler, in any interleaving, asks the database for a transition that
\* the CHECK valid_transition of order_status_history rejects.
THEOREM ShopRespectsLifecycle == Spec => LifecycleRespected
<1>1. Init => Lifecycle!Init
  BY DEF Init, Lifecycle!Init
<1>2. StatusInv /\ [Next]_vars => [Lifecycle!Next]_status
  BY StepMoves, MoveIsTransition
<1> QED BY <1>1, <1>2, InitStatusInv, StepStatusInv, PTL
        DEF Spec, LifecycleRespected, Lifecycle!Spec

-----------------------------------------------------------------------------
(***************************************************************************)
(* Coupons and cash.                                                       *)
(***************************************************************************)

\* What a step leaves alone of the orders and their coupons unless it is a
\* sale or a cancellation.
LEMMA CouponWriters ==
    ASSUME StatusInv, Next
    PROVE  \/ \E o \in Orders : Sale(o)
           \/ \E o \in Orders : CancelOrder(o)
           \/ /\ UNCHANGED <<order, couponVars>>
              /\ \A o \in Orders : status'[o] = "none" => status[o] = "none"
<1> DEFINE Idle ==
      /\ UNCHANGED <<order, couponVars>>
      /\ \A o \in Orders : status'[o] = "none" => status[o] = "none"
<1>0. status \in [Orders -> Statuses]
  BY DEF StatusInv, TypeOK
<1>1. ASSUME NEW o \in Orders, Fulfil(o), ~ CancelOrder(o) PROVE Idle
  <2>1. UNCHANGED <<order, couponVars>>
    BY <1>1 DEF Fulfil, ConfirmOrder, CompleteOrder, DispatchOrder,
       DeliverOrder, FailDeliveryOrder, FailAttempt, FailLastAttempt
  <2>2. \A x \in Orders : status'[x] = "none" => status[x] = "none"
    BY <1>0, <1>1 DEF Fulfil, ConfirmOrder, CompleteOrder, DispatchOrder,
       DeliverOrder, FailDeliveryOrder, FailAttempt, FailLastAttempt
  <2> QED BY <2>1, <2>2
<1>2. ASSUME NEW r \in ReturnIds, ReturnStep(r) PROVE Idle
  <2>1. UNCHANGED <<order, couponVars>>
    BY <1>2 DEF ReturnStep, CreateReturn, CancelReturn, ReviewReturn,
       ReceiveReturn, Advance, Resolve, InspectAndResolve, orderVars
  <2>2. \/ UNCHANGED status
        \/ \E o : status' = [status EXCEPT ![o] = "returned"]
    BY <1>2 DEF ReturnStep, CreateReturn, CancelReturn, ReviewReturn,
       ReceiveReturn, Advance, Resolve, InspectAndResolve, CloseReturnedOrder,
       orderVars
  <2> QED BY <1>0, <2>1, <2>2
<1>3. ASSUME NEW lot, CreateInboundReceipt(lot) PROVE Idle
  BY <1>3 DEF CreateInboundReceipt, orderVars
<1>4. ASSUME NEW v, NEW p, UpdateVariantPrice(v, p) PROVE Idle
  BY <1>4 DEF UpdateVariantPrice, orderVars
<1>5. ASSUME NEW row, Switch(row) PROVE Idle
  BY <1>5 DEF Switch, orderVars
<1>6. ASSUME NEW o, WindowElapses(o) PROVE Idle
  BY <1>6 DEF WindowElapses
<1>7. ASSUME NEW c, NEW p, ReinstateCustomerCod(c, p) PROVE Idle
  BY <1>7 DEF ReinstateCustomerCod, orderVars
<1> HIDE DEF Idle
<1>8. \/ \E o \in Orders : Sale(o)
      \/ \E o \in Orders : CancelOrder(o)
      \/ Idle
  BY <1>1, <1>2, <1>3, <1>4, <1>5, <1>6, <1>7 DEF Next
<1> QED BY <1>8 DEF Idle

-----------------------------------------------------------------------------
(***************************************************************************)
(* Coupons.                                                                *)
(***************************************************************************)

\* A redemption in force belongs to an order that was sold with a coupon.
RedemptionsHaveOrders ==
    \A o \in Orders :
        /\ redemption[o] = "redeemed" => order[o].coupon \in Coupons
        /\ status[o] = "none" => redemption[o] = "none"

CouponInv == StatusInv /\ RedemptionsHaveOrders /\ CouponsCounted

LEMMA RedeemedFinite ==
    /\ \A k : IsFiniteSet(Redeemed(k)) /\ Cardinality(Redeemed(k)) \in Nat
    /\ \A k, c : /\ IsFiniteSet(RedeemedBy(k, c))
                 /\ Cardinality(RedeemedBy(k, c)) \in Nat
<1>1. \A k, c : Redeemed(k) \subseteq Orders /\ RedeemedBy(k, c) \subseteq Orders
  BY DEF Redeemed, RedeemedBy
<1> QED BY <1>1, FiniteTables, FS_Subset, FS_CardinalityType

\* One more order redeems coupon k, for customer c.
LEMMA RedeemCount ==
    ASSUME CouponInv, TypeOK,
           NEW o \in Orders, redemption[o] # "redeemed",
           NEW k \in Coupons, NEW c \in Customers,
           \A x \in Orders \ {o} : /\ order'[x] = order[x]
                                   /\ redemption'[x] = redemption[x],
           redemption'[o] = "redeemed",
           order'[o].coupon = k, order'[o].customer = c,
           usedCount' = [usedCount EXCEPT ![k] = @ + 1],
           CouponRule[k].limit # Null => usedCount[k] < CouponRule[k].limit,
           CouponRule[k].perCustomer # Null =>
              Cardinality(RedeemedBy(k, c)) < CouponRule[k].perCustomer
    PROVE  CouponsCounted'
<1>1. usedCount \in [Coupons -> Nat]
  BY DEF TypeOK
<1>2. /\ Redeemed(k)' = Redeemed(k) \cup {o} /\ o \notin Redeemed(k)
      /\ \A x \in Coupons \ {k} : Redeemed(x)' = Redeemed(x)
  BY DEF Redeemed
<1>3. /\ RedeemedBy(k, c)' = RedeemedBy(k, c) \cup {o}
      /\ o \notin RedeemedBy(k, c)
      /\ \A y \in Customers \ {c} : RedeemedBy(k, y)' = RedeemedBy(k, y)
      /\ \A x \in Coupons \ {k} : \A y : RedeemedBy(x, y)' = RedeemedBy(x, y)
  BY <1>2 DEF RedeemedBy, Redeemed
<1>4. Cardinality(Redeemed(k)') = Cardinality(Redeemed(k)) + 1
  BY <1>2, RedeemedFinite, FS_AddElement
<1>5. Cardinality(RedeemedBy(k, c)') = Cardinality(RedeemedBy(k, c)) + 1
  <2>1. /\ RedeemedBy(k, c)' = RedeemedBy(k, c) \cup {o}
        /\ o \notin RedeemedBy(k, c)
    BY <1>3
  <2>2. IsFiniteSet(RedeemedBy(k, c))
    BY RedeemedFinite
  <2> QED BY <2>1, <2>2, FS_AddElement
<1>6. CouponRule[k] \in CouponRules
  BY CouponRulesValid
<1>7. /\ CouponRule[k].limit # Null => CouponRule[k].limit \in Nat
      /\ CouponRule[k].perCustomer # Null => CouponRule[k].perCustomer \in Nat
  BY <1>6 DEF CouponRules
<1> SUFFICES ASSUME NEW x \in Coupons
             PROVE  /\ usedCount'[x] = Cardinality(Redeemed(x)')
                    /\ CouponRule[x].limit # Null =>
                          usedCount'[x] <= CouponRule[x].limit
                    /\ CouponRule[x].perCustomer # Null =>
                          \A y \in Customers :
                             Cardinality(RedeemedBy(x, y)')
                                <= CouponRule[x].perCustomer
  BY DEF CouponsCounted
<1>8. CASE x = k
  <2>1. usedCount[k] \in Nat /\ usedCount'[k] = usedCount[k] + 1
    BY <1>1
  <2>2. usedCount[k] = Cardinality(Redeemed(k))
    BY DEF CouponInv, CouponsCounted
  <2>3. usedCount'[k] = Cardinality(Redeemed(k)')
    BY <1>4, <2>1, <2>2
  <2>4. CouponRule[k].limit # Null => usedCount'[k] <= CouponRule[k].limit
    BY <1>7, <2>1
  <2>5. ASSUME CouponRule[k].perCustomer # Null, NEW y \in Customers
        PROVE  Cardinality(RedeemedBy(k, y)') <= CouponRule[k].perCustomer
    <3>1. CASE y = c
      <4>1. Cardinality(RedeemedBy(k, c)) \in Nat
        BY RedeemedFinite
      <4>2. Cardinality(RedeemedBy(k, c)) < CouponRule[k].perCustomer
        BY <2>5
      <4> QED BY <1>5, <1>7, <2>5, <3>1, <4>1, <4>2
    <3>2. CASE y # c
      <4>1. RedeemedBy(k, y)' = RedeemedBy(k, y)
        BY <1>3, <3>2
      <4> QED BY <2>5, <4>1 DEF CouponInv, CouponsCounted
    <3> QED BY <3>1, <3>2
  <2> QED BY <1>8, <2>3, <2>4, <2>5
<1>9. CASE x # k
  <2>1. usedCount'[x] = usedCount[x] /\ Redeemed(x)' = Redeemed(x)
    BY <1>1, <1>2, <1>9
  <2>2. \A y \in Customers : RedeemedBy(x, y)' = RedeemedBy(x, y)
    BY <1>3, <1>9
  <2> QED BY <2>1, <2>2 DEF CouponInv, CouponsCounted
<1> QED BY <1>8, <1>9

\* One order releases its coupon k.
LEMMA ReleaseCount ==
    ASSUME CouponInv, TypeOK, NEW o \in Orders, redemption[o] = "redeemed",
           NEW k \in Coupons, order[o].coupon = k, UNCHANGED order,
           redemption' = [redemption EXCEPT ![o] = "released"],
           usedCount' = [usedCount EXCEPT ![k] = @ - 1]
    PROVE  CouponsCounted'
<1>1. /\ usedCount \in [Coupons -> Nat]
      /\ redemption \in [Orders -> {"none", "redeemed", "released"}]
  BY DEF TypeOK
<1>2. /\ Redeemed(k)' = Redeemed(k) \ {o} /\ o \in Redeemed(k)
      /\ \A x \in Coupons \ {k} : Redeemed(x)' = Redeemed(x)
  BY <1>1 DEF Redeemed
<1>3. \A x \in Coupons : \A y : RedeemedBy(x, y)' \subseteq RedeemedBy(x, y)
  BY <1>1 DEF RedeemedBy, Redeemed
<1>4. Cardinality(Redeemed(k)') = Cardinality(Redeemed(k)) - 1
  BY <1>2, RedeemedFinite, FS_RemoveElement
<1>5. ASSUME NEW x \in Coupons, NEW y
      PROVE  /\ Cardinality(RedeemedBy(x, y)') \in Nat
             /\ Cardinality(RedeemedBy(x, y)) \in Nat
             /\ Cardinality(RedeemedBy(x, y)') <= Cardinality(RedeemedBy(x, y))
  <2>1. IsFiniteSet(RedeemedBy(x, y))
    BY RedeemedFinite
  <2>2. IsFiniteSet(RedeemedBy(x, y)')
    BY <1>3, <2>1, FS_Subset
  <2> QED BY <1>3, <2>1, <2>2, FS_Subset, FS_CardinalityType
<1> SUFFICES ASSUME NEW x \in Coupons
             PROVE  /\ usedCount'[x] = Cardinality(Redeemed(x)')
                    /\ CouponRule[x].limit # Null =>
                          usedCount'[x] <= CouponRule[x].limit
                    /\ CouponRule[x].perCustomer # Null =>
                          \A y \in Customers :
                             Cardinality(RedeemedBy(x, y)')
                                <= CouponRule[x].perCustomer
  BY DEF CouponsCounted
<1>6. CouponRule[x] \in CouponRules
  BY CouponRulesValid
<1>7. /\ CouponRule[x].limit # Null => CouponRule[x].limit \in Nat
      /\ CouponRule[x].perCustomer # Null => CouponRule[x].perCustomer \in Nat
  BY <1>6 DEF CouponRules
<1>8. /\ usedCount[x] \in Nat
      /\ usedCount'[x] = IF x = k THEN usedCount[x] - 1 ELSE usedCount[x]
  BY <1>1
<1>9. /\ usedCount[x] = Cardinality(Redeemed(x))
      /\ CouponRule[x].limit # Null => usedCount[x] <= CouponRule[x].limit
      /\ CouponRule[x].perCustomer # Null =>
            \A y \in Customers :
               Cardinality(RedeemedBy(x, y)) <= CouponRule[x].perCustomer
  BY DEF CouponInv, CouponsCounted
<1>10. usedCount'[x] = Cardinality(Redeemed(x)')
  BY <1>2, <1>4, <1>8, <1>9
<1>11. CouponRule[x].limit # Null => usedCount'[x] <= CouponRule[x].limit
  BY <1>7, <1>8, <1>9
<1>12. ASSUME CouponRule[x].perCustomer # Null, NEW y \in Customers
       PROVE  Cardinality(RedeemedBy(x, y)') <= CouponRule[x].perCustomer
  BY <1>5, <1>7, <1>9, <1>12
<1> QED BY <1>10, <1>11, <1>12

\* A step that leaves every redemption in force as it is.
LEMMA SameRedemptions ==
    ASSUME CouponsCounted, UNCHANGED couponVars,
           \A x \in Orders : redemption[x] = "redeemed" => order'[x] = order[x]
    PROVE  CouponsCounted'
<1>1. UNCHANGED <<redemption, usedCount>>
  BY DEF couponVars
<1>2. \A k : Redeemed(k)' = Redeemed(k)
  BY <1>1 DEF Redeemed
<1>3. \A k, c : RedeemedBy(k, c)' = RedeemedBy(k, c)
  BY <1>1 DEF Redeemed, RedeemedBy
<1> QED BY <1>1, <1>2, <1>3 DEF CouponsCounted

LEMMA SaleCoupons ==
    ASSUME CouponInv, NEW o \in Orders, Sale(o)
    PROVE  CouponsCounted' /\ RedemptionsHaveOrders'
<1>1. /\ TypeOK /\ CouponsCounted /\ RedemptionsHaveOrders
      /\ redemption \in [Orders -> {"none", "redeemed", "released"}]
      /\ order \in [Orders -> OrderRows] /\ status \in [Orders -> Statuses]
  BY DEF CouponInv, StatusInv, TypeOK
<1>2. ASSUME NEW basket \in Baskets, NEW c \in Customers,
             NEW method \in {"vietqr", "cod"}, NEW k \in Coupons \cup {Null},
             PlaceOrder(o, c, basket, method, k)
      PROVE  CouponsCounted' /\ RedemptionsHaveOrders'
  <2>1. /\ status[o] = "none" /\ redemption[o] = "none"
        /\ status'[o] # "none"
        /\ \A x \in Orders \ {o} : order'[x] = order[x]
                                   /\ status'[x] = status[x]
        /\ order'[o].coupon = k /\ order'[o].customer = c
    BY <1>1, <1>2 DEF PlaceOrder, RedemptionsHaveOrders
  <2>2. CASE k = Null
    <3>1. UNCHANGED couponVars
      BY <1>2, <2>2 DEF PlaceOrder
    <3>2. CouponsCounted'
      BY <1>1, <2>1, <3>1, SameRedemptions
    <3> QED BY <1>1, <2>1, <3>1, <3>2 DEF RedemptionsHaveOrders, couponVars
  <2>3. CASE k # Null
    <3>1. /\ redemption' = [redemption EXCEPT ![o] = "redeemed"]
          /\ usedCount' = [usedCount EXCEPT ![k] = @ + 1]
          /\ k \in Coupons
          /\ CouponRule[k].limit # Null => usedCount[k] < CouponRule[k].limit
          /\ CouponRule[k].perCustomer # Null =>
                Cardinality(RedeemedBy(k, c)) < CouponRule[k].perCustomer
      BY <1>2, <2>3 DEF PlaceOrder, CouponUsable
    <3>2. /\ redemption'[o] = "redeemed"
          /\ \A x \in Orders \ {o} : redemption'[x] = redemption[x]
      BY <1>1, <3>1
    <3>3. CouponsCounted'
      BY <1>1, <2>1, <3>1, <3>2, RedeemCount
    <3> QED BY <1>1, <2>1, <3>1, <3>2, <3>3 DEF RedemptionsHaveOrders
  <2> QED BY <2>2, <2>3
<1>3. ASSUME NEW s, NEW c, NEW basket, CreatePosTransaction(o, s, c, basket)
      PROVE  CouponsCounted' /\ RedemptionsHaveOrders'
  <2>1. /\ status[o] = "none" /\ redemption[o] = "none"
        /\ status'[o] # "none" /\ UNCHANGED couponVars
        /\ \A x \in Orders \ {o} : order'[x] = order[x]
                                   /\ status'[x] = status[x]
    BY <1>1, <1>3 DEF CreatePosTransaction, RedemptionsHaveOrders
  <2>2. CouponsCounted'
    BY <1>1, <2>1, SameRedemptions
  <2> QED BY <1>1, <2>1, <2>2 DEF RedemptionsHaveOrders, couponVars
<1> QED BY <1>2, <1>3 DEF Sale

LEMMA CancelCoupons ==
    ASSUME CouponInv, NEW o \in Orders, CancelOrder(o)
    PROVE  CouponsCounted' /\ RedemptionsHaveOrders'
<1>1. /\ TypeOK /\ CouponsCounted /\ RedemptionsHaveOrders
      /\ redemption \in [Orders -> {"none", "redeemed", "released"}]
      /\ status \in [Orders -> Statuses]
  BY DEF CouponInv, StatusInv, TypeOK
<1>2. UNCHANGED order /\ status' = [status EXCEPT ![o] = "cancelled"]
  BY DEF CancelOrder
<1>3. CASE redemption[o] = "redeemed"
  <2>1. /\ order[o].coupon \in Coupons
        /\ redemption' = [redemption EXCEPT ![o] = "released"]
        /\ usedCount' = [usedCount EXCEPT ![order[o].coupon] = @ - 1]
    BY <1>1, <1>3 DEF CancelOrder, ReleaseCoupon, RedemptionsHaveOrders
  <2>2. CouponsCounted'
    BY <1>1, <1>2, <1>3, <2>1, ReleaseCount
  <2>3. status[o] # "none"
    BY DEF CancelOrder
  <2> QED BY <1>1, <1>2, <2>1, <2>2, <2>3 DEF RedemptionsHaveOrders
<1>4. CASE redemption[o] # "redeemed"
  <2>1. UNCHANGED couponVars
    BY <1>4 DEF CancelOrder, ReleaseCoupon
  <2>2. CouponsCounted'
    BY <1>1, <1>2, <2>1, SameRedemptions
  <2> QED BY <1>1, <1>2, <2>1, <2>2 DEF RedemptionsHaveOrders, couponVars
<1> QED BY <1>3, <1>4

LEMMA StepCoupons == CouponInv /\ [Next]_vars => CouponInv'
<1> SUFFICES ASSUME CouponInv, [Next]_vars PROVE CouponInv'
  OBVIOUS
<1>1. StatusInv /\ StatusInv'
  BY StepStatusInv DEF CouponInv
<1>2. CASE /\ UNCHANGED <<order, couponVars>>
           /\ \A o \in Orders : status'[o] = "none" => status[o] = "none"
  <2>1. CouponsCounted'
    BY <1>2, SameRedemptions DEF CouponInv
  <2> QED BY <1>1, <1>2, <2>1 DEF CouponInv, RedemptionsHaveOrders, couponVars
<1>3. CASE Next
  BY <1>1, <1>2, <1>3, CouponWriters, SaleCoupons, CancelCoupons
     DEF CouponInv
<1>4. CASE UNCHANGED vars
  BY <1>2, <1>4 DEF vars, orderVars
<1> QED BY <1>3, <1>4

LEMMA InitCoupons == Init => CouponInv
<1> SUFFICES ASSUME Init PROVE CouponInv
  OBVIOUS
<1>1. \A k, c : Redeemed(k) = {} /\ RedeemedBy(k, c) = {}
  BY DEF Init, Redeemed, RedeemedBy
<1>2. Cardinality({}) = 0
  BY FS_EmptySet
<1>3. \A k \in Coupons :
         /\ CouponRule[k].limit # Null => CouponRule[k].limit \in Nat
         /\ CouponRule[k].perCustomer # Null =>
               CouponRule[k].perCustomer \in Nat
  <2> TAKE k \in Coupons
  <2>1. CouponRule[k] \in CouponRules
    BY CouponRulesValid
  <2> QED BY <2>1 DEF CouponRules
<1>4. \A k \in Coupons : usedCount[k] = 0
  BY DEF Init
<1>5. CouponsCounted
  BY <1>1, <1>2, <1>3, <1>4 DEF CouponsCounted
<1>6. RedemptionsHaveOrders
  BY DEF Init, RedemptionsHaveOrders
<1> QED BY <1>5, <1>6, InitStatusInv DEF CouponInv

\* Through sales, cancellations and releases in any order, used_count is the
\* number of redemptions in force, and no limit of a coupon is exceeded.
THEOREM CouponsAlwaysCounted == Spec => []CouponsCounted
<1>1. CouponInv => CouponsCounted
  BY DEF CouponInv
<1> QED BY <1>1, InitCoupons, StepCoupons, PTL DEF Spec

-----------------------------------------------------------------------------
(***************************************************************************)
(* Cash on delivery.                                                       *)
(***************************************************************************)

\* Before the dispatch nothing is collected, and no COD order counts as paid.
CashAwaitsDelivery ==
    \A o \in Orders :
        /\ status[o] = "none" => shipment[o].collected = 0
        /\ status[o] = "paid" => ~ IsCod(o)

CodInv == StatusInv /\ CashAwaitsDelivery /\ CodSettled

\* Both parts for one order.
CodOf(o) ==
    /\ status[o] = "none" => shipment[o].collected = 0
    /\ status[o] = "paid" => ~ IsCod(o)
    /\ IsCod(o) =>
        /\ shipment[o].collected =
              IF status[o] \in {"delivered", "completed", "returned"}
              THEN order[o].total ELSE 0
        /\ status[o] = "completed" => payment[o] = "succeeded"
        /\ status[o] \in {"confirmed", "shipping", "delivered",
                          "failed_delivery"} => payment[o] = "pending"

LEMMA CodByOrder == CodInv <=> StatusInv /\ \A o \in Orders : CodOf(o)
BY DEF CodInv, CashAwaitsDelivery, CodSettled, CodOf

LEMMA SaleCod ==
    ASSUME TypeOK, NEW o \in Orders, CodOf(o), Sale(o)
    PROVE  CodOf(o)'
<1>1. ASSUME NEW basket \in Baskets, NEW c \in Customers,
             NEW method \in {"vietqr", "cod"}, NEW k \in Coupons \cup {Null},
             PlaceOrder(o, c, basket, method, k)
      PROVE  CodOf(o)'
  <2>1. /\ status[o] = "none" /\ UNCHANGED shipment
        /\ order'[o].method = method
        /\ status'[o] = IF method = "cod" THEN "confirmed" ELSE "paid"
        /\ payment'[o] = IF method = "cod" THEN "pending" ELSE "succeeded"
    BY <1>1 DEF PlaceOrder, TypeOK
  <2> QED BY <2>1 DEF CodOf, IsCod
<1>2. ASSUME NEW s, NEW c, NEW basket, CreatePosTransaction(o, s, c, basket)
      PROVE  CodOf(o)'
  <2>1. order'[o].method = "counter" /\ status'[o] = "completed"
    BY <1>2 DEF CreatePosTransaction, TypeOK
  <2> QED BY <2>1 DEF CodOf, IsCod
<1> QED BY <1>1, <1>2 DEF Sale

LEMMA FulfilCod ==
    ASSUME TypeOK, NEW o \in Orders, CodOf(o), Fulfil(o)
    PROVE  CodOf(o)'
<1>0. /\ shipment[o] \in ShipmentRows /\ shipment \in [Orders -> ShipmentRows]
      /\ status \in [Orders -> Statuses] /\ UNCHANGED order
      /\ payment \in [Orders -> {"none", "pending", "succeeded"}]
  BY DEF TypeOK, Fulfil, ConfirmOrder, CompleteOrder, CancelOrder,
     DispatchOrder, DeliverOrder, FailDeliveryOrder, FailAttempt,
     FailLastAttempt
<1>1. CASE ConfirmOrder(o)
  BY <1>0, <1>1 DEF ConfirmOrder, CodOf, IsCod
<1>2. CASE CompleteOrder(o)
  BY <1>0, <1>2 DEF CompleteOrder, CodOf, IsCod
<1>3. CASE CancelOrder(o)
  BY <1>0, <1>3 DEF CancelOrder, CodOf, IsCod
<1>4. ASSUME NEW staff, DispatchOrder(o, staff) PROVE CodOf(o)'
  BY <1>0, <1>4 DEF DispatchOrder, CodOf, IsCod
<1>5. CASE DeliverOrder(o)
  <2>1. /\ status[o] = "shipping" /\ status'[o] = "delivered"
        /\ UNCHANGED payment
        /\ IsCod(o) => shipment'[o].collected = order[o].total
    BY <1>0, <1>5 DEF DeliverOrder, ShipmentRows
  <2> QED BY <1>0, <2>1 DEF CodOf, IsCod
<1>6. CASE FailAttempt(o)
  <2>1. UNCHANGED <<status, payment>>
        /\ shipment'[o].collected = shipment[o].collected
    BY <1>0, <1>6 DEF FailAttempt, ShipmentRows
  <2> QED BY <1>0, <2>1 DEF CodOf, IsCod
<1>7. ASSUME NEW buyerFault, FailLastAttempt(o, buyerFault) PROVE CodOf(o)'
  <2>1. /\ status[o] = "shipping" /\ status'[o] = "failed_delivery"
        /\ UNCHANGED payment
        /\ shipment'[o].collected = shipment[o].collected
    BY <1>0, <1>7 DEF FailLastAttempt, ShipmentRows
  <2> QED BY <1>0, <2>1 DEF CodOf, IsCod
<1> QED BY <1>1, <1>2, <1>3, <1>4, <1>5, <1>6, <1>7
        DEF Fulfil, FailDeliveryOrder

\* Returns leave the cash alone and may turn an order that has reached its
\* buyer into a returned one.
LEMMA ReturnCod ==
    ASSUME StatusInv, NEW r \in ReturnIds, ReturnStep(r),
           NEW o \in Orders, CodOf(o)
    PROVE  CodOf(o)'
<1>1. UNCHANGED <<order, payment, shipment>>
  BY DEF ReturnStep, CreateReturn, CancelReturn, ReviewReturn, ReceiveReturn,
     Advance, Resolve, InspectAndResolve, orderVars
<1>2. \/ status'[o] = status[o]
      \/ status[o] \in AtTheBuyer /\ status'[o] = "returned"
  <2>1. CASE UNCHANGED status
    BY <2>1
  <2>2. ASSUME NEW i, InspectAndResolve(r, i)
        PROVE  \/ status'[o] = status[o]
               \/ status[o] \in AtTheBuyer /\ status'[o] = "returned"
    BY <2>2, InspectionMoves DEF InspectAndResolve, CloseReturnedOrder,
       StatusInv, TypeOK
  <2> QED BY <2>1, <2>2 DEF ReturnStep, CreateReturn, CancelReturn,
          ReviewReturn, ReceiveReturn, Advance, Resolve, orderVars
<1> QED BY <1>1, <1>2 DEF CodOf, IsCod, AtTheBuyer

\* A step of one order leaves the rows of the others alone.
LEMMA OtherOrders ==
    ASSUME TypeOK, NEW o \in Orders, Sale(o) \/ Fulfil(o),
           NEW x \in Orders, x # o
    PROVE  /\ status'[x] = status[x] /\ order'[x] = order[x]
           /\ payment'[x] = payment[x] /\ shipment'[x] = shipment[x]
<1>1. CASE Sale(o)
  BY <1>1 DEF TypeOK, Sale, PlaceOrder, CreatePosTransaction
<1>2. CASE Fulfil(o)
  BY <1>2 DEF TypeOK, Fulfil, ConfirmOrder, CompleteOrder, CancelOrder,
     DispatchOrder, DeliverOrder, FailDeliveryOrder, FailAttempt,
     FailLastAttempt
<1> QED BY <1>1, <1>2

LEMMA StepCod == CodInv /\ [Next]_vars => CodInv'
<1> SUFFICES ASSUME CodInv, [Next]_vars PROVE CodInv'
  OBVIOUS
<1>1. StatusInv /\ StatusInv' /\ TypeOK /\ \A o \in Orders : CodOf(o)
  BY StepStatusInv, CodByOrder DEF CodInv, StatusInv
<1> SUFFICES ASSUME NEW x \in Orders PROVE CodOf(x)'
  <2>1. \A o \in Orders : CodOf(o)'
    OBVIOUS
  <2> QED BY <1>1, <2>1 DEF CodInv, CashAwaitsDelivery, CodSettled, CodOf
<1>2. ASSUME NEW o \in Orders, Sale(o) \/ Fulfil(o) PROVE CodOf(x)'
  <2>1. CASE x = o
    BY <1>1, <1>2, <2>1, SaleCod, FulfilCod
  <2>2. CASE x # o
    BY <1>1, <1>2, <2>2, OtherOrders DEF CodOf, IsCod
  <2> QED BY <2>1, <2>2
<1>3. ASSUME NEW r \in ReturnIds, ReturnStep(r) PROVE CodOf(x)'
  BY <1>1, <1>3, ReturnCod
<1>4. CASE \/ \E o : WindowElapses(o)
           \/ \E c, p : ReinstateCustomerCod(c, p)
           \/ \E lot : CreateInboundReceipt(lot)
           \/ \E v, p : UpdateVariantPrice(v, p)
           \/ \E row : Switch(row)
           \/ UNCHANGED vars
  <2>1. UNCHANGED <<status, order, payment, shipment>>
    BY <1>4 DEF WindowElapses, ReinstateCustomerCod, CreateInboundReceipt,
       UpdateVariantPrice, Switch, orderVars, vars
  <2> QED BY <1>1, <2>1 DEF CodOf, IsCod
<1> QED BY <1>2, <1>3, <1>4 DEF Next

\* The carrier holds the cash of a COD order exactly from the delivery on, and
\* a completed order is never without it.
THEOREM CodAlwaysSettled == Spec => []CodSettled
<1>1. Init => CodInv
  BY InitStatusInv DEF Init, CodInv, CashAwaitsDelivery, CodSettled, IsCod,
     NoOrder, NoShipment
<1>2. CodInv => CodSettled
  BY DEF CodInv
<1> QED BY <1>1, <1>2, StepCod, PTL DEF Spec

-----------------------------------------------------------------------------
(***************************************************************************)
(* No unit of stock is lost or made up: StockConserved holds for every     *)
(* catalogue, every number of stores, orders and requests, and every       *)
(* interleaving of the handlers.                                           *)
(*                                                                         *)
(* The argument is a balance.  What a location has on hand and what its    *)
(* live orders hold are two sides of one account: a sale moves units from  *)
(* the first to the second, a cancellation or a third failed delivery      *)
(* moves them back, and every other step of an order leaves what it holds  *)
(* alone.  Receipts and passed returns add to both sides of the equation.  *)
(***************************************************************************)

\* The units of v that order o holds from location l: a row of HeldFrom.
Held(l, v, o) ==
    IF Holds(o) /\ (IF IsOnline(o) THEN Central ELSE order[o].store) = l
    THEN order[o].items[v] ELSE 0

\* The units of v that request r brought back: a row of TakenBack.
Taken(v, r) ==
    IF ret[r].status = "completed"
    THEN Passed(ret[r], ret[r].quantity)[v] ELSE 0

\* Whatever cancel_order and the third failure put back in the central
\* warehouse came from there: the orders they take are online orders.
UndeliveredAreOnline ==
    \A o \in Orders :
        status[o] \in {"paid", "confirmed", "shipping"} => IsOnline(o)

StockInv == StatusInv /\ UndeliveredAreOnline /\ StockConserved

-----------------------------------------------------------------------------
(***************************************************************************)
(* Sums.                                                                   *)
(***************************************************************************)
LEMMA HeldType ==
    ASSUME TypeOK, NEW l, NEW v \in Variants, NEW o \in Orders
    PROVE  Held(l, v, o) \in Nat
BY DEF TypeOK, OrderRows, Quantities, Held

\* One order changes: so does its row of the sum, and nothing else.
LEMMA HeldChange ==
    ASSUME TypeOK, TypeOK', NEW l, NEW v \in Variants, NEW o \in Orders,
           \A x \in Orders \ {o} : status'[x] = status[x]
                                   /\ order'[x] = order[x]
    PROVE  /\ HeldFrom(l, v) \in Nat /\ HeldFrom(l, v)' \in Nat
           /\ HeldFrom(l, v)' = HeldFrom(l, v) - Held(l, v, o)
                                               + Held(l, v, o)'
<1> DEFINE f == [x \in Orders |-> Held(l, v, x)]
           g == [x \in Orders |-> Held(l, v, x)']
<1>1. f \in [Orders -> Nat]
  BY HeldType
<1>2. \A x \in Orders : Held(l, v, x)' \in Nat
  BY DEF TypeOK, OrderRows, Quantities, Held
<1>3. g \in [Orders -> Nat]
  BY <1>2
<1>4. \A x \in Orders \ {o} : g[x] = f[x]
  BY DEF Held, Holds, IsOnline
<1>5. HeldFrom(l, v) = Total(f)
  BY DEF HeldFrom, Held
<1>6. HeldFrom(l, v)' = Total(g)
  BY DEF HeldFrom, Held, Total, Units
<1>7. f[o] = Held(l, v, o) /\ g[o] = Held(l, v, o)'
  OBVIOUS
<1> HIDE DEF f, g
<1> QED BY <1>1, <1>3, <1>4, <1>5, <1>6, <1>7, FiniteTables, TotalChange

LEMMA TakenType ==
    ASSUME TypeOK, NEW v \in Variants, NEW r \in ReturnIds
    PROVE  Taken(v, r) \in Nat
BY DEF TypeOK, ReturnRows, Quantities, Taken, Passed

LEMMA TakenChange ==
    ASSUME TypeOK, TypeOK', NEW v \in Variants, NEW r \in ReturnIds,
           \A x \in ReturnIds \ {r} : ret'[x] = ret[x]
    PROVE  /\ TakenBack(v) \in Nat /\ TakenBack(v)' \in Nat
           /\ TakenBack(v)' = TakenBack(v) - Taken(v, r) + Taken(v, r)'
<1> DEFINE f == [x \in ReturnIds |-> Taken(v, x)]
           g == [x \in ReturnIds |-> Taken(v, x)']
<1>1. f \in [ReturnIds -> Nat]
  BY TakenType
<1>2. \A x \in ReturnIds : Taken(v, x)' \in Nat
  BY DEF TypeOK, ReturnRows, Quantities, Taken, Passed
<1>3. g \in [ReturnIds -> Nat]
  BY <1>2
<1>4. \A x \in ReturnIds \ {r} : g[x] = f[x]
  BY DEF Taken, Passed
<1>5. TakenBack(v) = Total(f)
  BY DEF TakenBack, Taken
<1>6. TakenBack(v)' = Total(g)
  BY DEF TakenBack, Taken, Total, Units
<1>7. f[r] = Taken(v, r) /\ g[r] = Taken(v, r)'
  OBVIOUS
<1> HIDE DEF f, g
<1> QED BY <1>1, <1>3, <1>4, <1>5, <1>6, <1>7, FiniteTables, TotalChange

LEMMA SumTypes ==
    ASSUME TypeOK, NEW v \in Variants
    PROVE  /\ \A l : HeldFrom(l, v) \in Nat
           /\ TakenBack(v) \in Nat
<1>1. ASSUME NEW l PROVE HeldFrom(l, v) \in Nat
  <2> DEFINE f == [x \in Orders |-> Held(l, v, x)]
  <2>1. f \in [Orders -> Nat]
    BY HeldType
  <2>2. HeldFrom(l, v) = Total(f)
    BY DEF HeldFrom, Held
  <2> HIDE DEF f
  <2> QED BY <2>1, <2>2, FiniteTables, TotalType
<1>2. TakenBack(v) \in Nat
  <2> DEFINE f == [x \in ReturnIds |-> Taken(v, x)]
  <2>1. f \in [ReturnIds -> Nat]
    BY TakenType
  <2>2. TakenBack(v) = Total(f)
    BY DEF TakenBack, Taken
  <2> HIDE DEF f
  <2> QED BY <2>1, <2>2, FiniteTables, TotalType
<1> QED BY <1>1, <1>2
-----------------------------------------------------------------------------
(***************************************************************************)
(* Balances.                                                               *)
(***************************************************************************)

\* What Move does, point by point.
LEMMA MoveByPoint ==
    ASSUME TypeOK, NEW l \in Locations, NEW delta, Move(l, delta),
           NEW v \in Variants
    PROVE  /\ stock'[l][v] = stock[l][v] + delta[v]
           /\ ledger'[l][v] = ledger[l][v] + delta[v]
           /\ \A x \in Locations \ {l} : /\ stock'[x] = stock[x]
                                         /\ ledger'[x] = ledger[x]
BY DEF TypeOK, Move

\* An order step keeps the balance when what the order holds from a location
\* changes by what leaves that location.
LEMMA OrderBalance ==
    ASSUME TypeOK, TypeOK', StockConserved, NEW o \in Orders,
           NEW l \in Locations, NEW delta \in [Variants -> Int],
           \A x \in Orders \ {o} : status'[x] = status[x]
                                   /\ order'[x] = order[x],
           UNCHANGED <<received, ret>>,
           \A v \in Variants :
              /\ stock'[l][v] = stock[l][v] + delta[v]
              /\ ledger'[l][v] = ledger[l][v] + delta[v]
              /\ Held(l, v, o)' = Held(l, v, o) - delta[v],
           \A x \in Locations \ {l}, v \in Variants :
              /\ stock'[x][v] = stock[x][v]
              /\ ledger'[x][v] = ledger[x][v]
              /\ Held(x, v, o)' = Held(x, v, o)
    PROVE  StockConserved'
<1> SUFFICES ASSUME NEW v \in Variants
             PROVE  /\ stock'[Central][v] + HeldFrom(Central, v)'
                          = InitialStock[Central][v] + received'[v]
                                + TakenBack(v)'
                    /\ \A s \in Stores :
                          stock'[s][v] + HeldFrom(s, v)' = InitialStock[s][v]
                    /\ \A x \in Locations :
                          stock'[x][v] = InitialStock[x][v] + ledger'[x][v]
  BY DEF StockConserved
<1>1. \A x \in Locations :
         /\ stock[x][v] \in Nat /\ ledger[x][v] \in Int
         /\ InitialStock[x][v] \in Nat
  BY InitialTables DEF TypeOK, Quantities
<1>2. received[v] \in Nat /\ TakenBack(v) \in Nat
  BY SumTypes DEF TypeOK, Quantities
<1>3. TakenBack(v)' = TakenBack(v)
  BY DEF TakenBack
<1>4. \A x \in Locations :
         /\ HeldFrom(x, v) \in Nat /\ HeldFrom(x, v)' \in Nat
         /\ Held(x, v, o) \in Nat
         /\ HeldFrom(x, v)' = HeldFrom(x, v) - Held(x, v, o)
                                             + Held(x, v, o)'
  BY HeldChange, HeldType
<1>5. \A x \in Locations :
         stock'[x][v] + HeldFrom(x, v)' = stock[x][v] + HeldFrom(x, v)
  <2> TAKE x \in Locations
  <2>1. CASE x = l
    <3>1. delta[v] \in Int
      OBVIOUS
    <3> QED BY <1>1, <1>4, <2>1, <3>1
  <2>2. CASE x # l
    BY <1>1, <1>4, <2>2
  <2> QED BY <2>1, <2>2
<1>6. \A x \in Locations :
         stock'[x][v] - ledger'[x][v] = stock[x][v] - ledger[x][v]
  <2> TAKE x \in Locations
  <2>1. CASE x = l
    <3>1. delta[v] \in Int
      OBVIOUS
    <3> QED BY <1>1, <2>1, <3>1
  <2>2. CASE x # l
    BY <2>2
  <2> QED BY <2>1, <2>2
<1>7. \A x \in Locations : stock'[x][v] \in Nat /\ ledger'[x][v] \in Int
  BY DEF TypeOK, Quantities
<1>8. Central \in Locations /\ Stores \subseteq Locations
  BY DEF Locations
<1>9. /\ stock'[Central][v] + HeldFrom(Central, v)'
            = InitialStock[Central][v] + received'[v] + TakenBack(v)'
      /\ \A s \in Stores :
            stock'[s][v] + HeldFrom(s, v)' = InitialStock[s][v]
  BY <1>3, <1>5, <1>8 DEF StockConserved
<1>10. ASSUME NEW x \in Locations
       PROVE  stock'[x][v] = InitialStock[x][v] + ledger'[x][v]
  <2>1. stock[x][v] = InitialStock[x][v] + ledger[x][v]
    BY DEF StockConserved
  <2> QED BY <1>1, <1>6, <1>7, <2>1
<1> QED BY <1>9, <1>10

\* A step that changes no stock and leaves the goods of one order where they
\* are.
LEMMA IdleBalance ==
    ASSUME TypeOK, TypeOK', StockConserved, NEW o \in Orders,
           \A x \in Orders \ {o} : status'[x] = status[x],
           UNCHANGED <<order, stock, ledger, received, ret>>,
           Holds(o)' = Holds(o)
    PROVE  StockConserved'
<1> DEFINE none == [v \in Variants |-> 0]
<1>1. none \in [Variants -> Int]
  OBVIOUS
<1>2. Central \in Locations
  BY DEF Locations
<1>3. \A x \in Locations, v \in Variants :
         /\ stock'[x][v] = stock[x][v] /\ stock[x][v] \in Nat
         /\ ledger'[x][v] = ledger[x][v] /\ ledger[x][v] \in Int
         /\ Held(x, v, o)' = Held(x, v, o) /\ Held(x, v, o) \in Nat
  BY HeldType DEF TypeOK, Quantities, Held, IsOnline
<1>4. \A v \in Variants :
         /\ stock'[Central][v] = stock[Central][v] + none[v]
         /\ ledger'[Central][v] = ledger[Central][v] + none[v]
         /\ Held(Central, v, o)' = Held(Central, v, o) - none[v]
  BY <1>2, <1>3
<1> HIDE DEF none
<1> QED BY <1>1, <1>2, <1>3, <1>4, OrderBalance
-----------------------------------------------------------------------------
(***************************************************************************)
(* Steps.                                                                  *)
(***************************************************************************)
LEMMA PlaceOrderBalance ==
    ASSUME TypeOK, TypeOK', StockConserved, NEW o \in Orders,
           NEW c \in Customers, NEW basket \in Baskets, NEW method,
           NEW k, PlaceOrder(o, c, basket, method, k)
    PROVE  StockConserved'
<1>1. basket \in Quantities /\ Central \in Locations
  BY PayloadsValid DEF Locations
<1>2. Minus(basket) \in [Variants -> Int]
  BY <1>1 DEF Minus, Quantities
<1>3. /\ order'[o].items = basket /\ order'[o].store = Null
      /\ status'[o] \in {"paid", "confirmed"} /\ status[o] = "none"
      /\ \A x \in Orders \ {o} : status'[x] = status[x] /\ order'[x] = order[x]
  BY DEF PlaceOrder, TypeOK
<1>4. UNCHANGED <<received, ret>> /\ Move(Central, Minus(basket))
  BY DEF PlaceOrder, DeductInventory
<1>5. \A x \in Locations, v \in Variants :
         /\ Held(x, v, o) = 0
         /\ Held(x, v, o)' = IF x = Central THEN basket[v] ELSE 0
  BY <1>3 DEF Held, Holds, IsOnline
<1>6. \A v \in Variants :
         Held(Central, v, o)' = Held(Central, v, o) - Minus(basket)[v]
  BY <1>1, <1>5 DEF Minus, Quantities
<1> QED BY <1>1, <1>2, <1>3, <1>4, <1>5, <1>6, MoveByPoint, OrderBalance

LEMMA CreatePosTransactionBalance ==
    ASSUME TypeOK, TypeOK', StockConserved, NEW o \in Orders,
           NEW s \in Stores, NEW c, NEW basket \in Baskets,
           CreatePosTransaction(o, s, c, basket)
    PROVE  StockConserved'
<1>1. basket \in Quantities /\ s \in Locations /\ s # Null
  BY PayloadsValid, NullIsNoRow DEF Locations
<1>2. Minus(basket) \in [Variants -> Int]
  BY <1>1 DEF Minus, Quantities
<1>3. /\ order'[o].items = basket /\ order'[o].store = s
      /\ status'[o] = "completed" /\ status[o] = "none"
      /\ \A x \in Orders \ {o} : status'[x] = status[x] /\ order'[x] = order[x]
  BY DEF CreatePosTransaction, TypeOK
<1>4. UNCHANGED <<received, ret>> /\ Move(s, Minus(basket))
  BY DEF CreatePosTransaction
<1>5. \A x \in Locations, v \in Variants :
         /\ Held(x, v, o) = 0
         /\ Held(x, v, o)' = IF x = s THEN basket[v] ELSE 0
  BY <1>1, <1>3 DEF Held, Holds, IsOnline
<1>6. \A v \in Variants : Held(s, v, o)' = Held(s, v, o) - Minus(basket)[v]
  BY <1>1, <1>5 DEF Minus, Quantities
<1> QED BY <1>1, <1>2, <1>3, <1>4, <1>5, <1>6, MoveByPoint, OrderBalance

\* cancel_order and the third failure: the goods come back from an order that
\* held them in the central warehouse.
LEMMA PutBackBalance ==
    ASSUME TypeOK, TypeOK', StockConserved, UndeliveredAreOnline,
           NEW o \in Orders, status[o] \in {"paid", "shipping"},
           status' = [status EXCEPT ![o] = "cancelled"]
              \/ status' = [status EXCEPT ![o] = "failed_delivery"],
           UNCHANGED <<order, received, ret>>,
           Move(Central, order[o].items)
    PROVE  StockConserved'
<1>1. order[o].items \in Quantities /\ Central \in Locations
  BY DEF TypeOK, OrderRows, Locations
<1>2. order[o].items \in [Variants -> Int]
  BY <1>1 DEF Quantities
<1>3. /\ status'[o] \in {"cancelled", "failed_delivery"}
      /\ \A x \in Orders \ {o} : status'[x] = status[x]
  BY DEF TypeOK
<1>4. IsOnline(o)
  BY DEF UndeliveredAreOnline
<1>5. \A x \in Locations, v \in Variants :
         /\ Held(x, v, o) = IF x = Central THEN order[o].items[v] ELSE 0
         /\ Held(x, v, o)' = 0
  BY <1>3, <1>4 DEF Held, Holds
<1>6. \A v \in Variants :
         Held(Central, v, o)' = Held(Central, v, o) - order[o].items[v]
  BY <1>1, <1>5 DEF Quantities
<1> QED BY <1>1, <1>2, <1>3, <1>5, <1>6, MoveByPoint, OrderBalance

LEMMA FulfilBalance ==
    ASSUME TypeOK, TypeOK', StockConserved, UndeliveredAreOnline,
           NEW o \in Orders, Fulfil(o)
    PROVE  StockConserved'
<1>1. CASE CancelOrder(o)
  BY <1>1, PutBackBalance DEF CancelOrder
<1>2. ASSUME NEW buyerFault, FailLastAttempt(o, buyerFault)
      PROVE  StockConserved'
  BY <1>2, PutBackBalance DEF FailLastAttempt
<1>3. CASE ConfirmOrder(o)
  BY <1>3, IdleBalance DEF ConfirmOrder, stockVars, TypeOK, Holds
<1>4. CASE CompleteOrder(o)
  BY <1>4, IdleBalance DEF CompleteOrder, stockVars, TypeOK, Holds
<1>5. ASSUME NEW staff, DispatchOrder(o, staff) PROVE StockConserved'
  BY <1>5, IdleBalance DEF DispatchOrder, stockVars, TypeOK, Holds
<1>6. CASE DeliverOrder(o)
  BY <1>6, IdleBalance DEF DeliverOrder, stockVars, TypeOK, Holds
<1>7. CASE FailAttempt(o)
  BY <1>7, IdleBalance DEF FailAttempt, stockVars, TypeOK, Holds
<1> QED BY <1>1, <1>2, <1>3, <1>4, <1>5, <1>6, <1>7
        DEF Fulfil, FailDeliveryOrder

\* A step that touches neither stock, nor orders, nor completed requests.
LEMMA QuietBalance ==
    ASSUME StockConserved,
           UNCHANGED <<stock, ledger, received, status, order>>,
           \A r \in ReturnIds, v \in Variants : Taken(v, r)' = Taken(v, r)
    PROVE  StockConserved'
<1>1. \A l, v : HeldFrom(l, v)' = HeldFrom(l, v)
  BY DEF HeldFrom, Holds, IsOnline
<1>2. ASSUME NEW v \in Variants PROVE TakenBack(v)' = TakenBack(v)
  <2>1. TakenBack(v) = Total([r \in ReturnIds |-> Taken(v, r)])
    BY DEF TakenBack, Taken
  <2>2. TakenBack(v)' = Total([r \in ReturnIds |-> Taken(v, r)'])
    BY DEF TakenBack, Taken, Total, Units
  <2>3. [r \in ReturnIds |-> Taken(v, r)'] = [r \in ReturnIds |-> Taken(v, r)]
    OBVIOUS
  <2> QED BY <2>1, <2>2, <2>3
<1> QED BY <1>1, <1>2 DEF StockConserved

LEMMA InspectBalance ==
    ASSUME StatusInv, TypeOK', StockConserved, NEW r \in ReturnIds,
           NEW inspection, InspectAndResolve(r, inspection)
    PROVE  StockConserved'
<1> DEFINE units == Passed(ret'[r], ret'[r].quantity)
<1>0. PICK o \in Orders : o = ret[r].order
  BY InspectionMoves
<1>1. TypeOK /\ status[o] \in AtTheBuyer
  BY <1>0, InspectionMoves DEF StatusInv
<1>2. /\ ret[r].status = "goods_received" /\ ret'[r].status = "completed"
      /\ \A x \in ReturnIds \ {r} : ret'[x] = ret[x]
  BY <1>1 DEF InspectAndResolve, TypeOK
<1>3. Move(Central, units) /\ UNCHANGED <<order, received>>
  BY DEF InspectAndResolve, Restock
<1>4. units \in Quantities /\ Central \in Locations
  BY PassedType DEF TypeOK, ReturnRows, Locations
<1>5. \A v \in Variants : Taken(v, r) = 0 /\ Taken(v, r)' = units[v]
  BY <1>2 DEF Taken
<1>6. ASSUME NEW v \in Variants
      PROVE  /\ TakenBack(v) \in Nat
             /\ TakenBack(v)' = TakenBack(v) + units[v]
  <2>1. units[v] \in Nat
    BY <1>4 DEF Quantities
  <2> HIDE DEF units
  <2> QED BY <1>1, <1>2, <1>5, <2>1, TakenChange
<1>7. ASSUME NEW l, NEW v \in Variants
      PROVE  HeldFrom(l, v)' = HeldFrom(l, v)
  <2>1. \A x \in Orders \ {o} : status'[x] = status[x] /\ order'[x] = order[x]
    BY <1>0, <1>1, <1>3 DEF InspectAndResolve, CloseReturnedOrder, TypeOK
  <2>2. status'[o] = status[o] \/ status'[o] = "returned"
    BY <1>0, <1>1 DEF InspectAndResolve, CloseReturnedOrder, TypeOK
  <2>3. Held(l, v, o)' = Held(l, v, o) /\ Held(l, v, o) \in Nat
    BY <1>1, <1>3, <2>2, HeldType DEF Held, Holds, IsOnline, AtTheBuyer
  <2> QED BY <1>1, <2>1, <2>3, HeldChange
<1> HIDE DEF units
<1>8. ASSUME NEW v \in Variants, NEW x \in Locations
      PROVE  /\ stock[x][v] \in Nat /\ ledger[x][v] \in Int
             /\ InitialStock[x][v] \in Nat
             /\ received[v] \in Nat /\ units[v] \in Nat
  BY <1>1, <1>4, InitialTables DEF TypeOK, Quantities
<1>9. ASSUME NEW v \in Variants
      PROVE  /\ stock'[Central][v] + HeldFrom(Central, v)'
                   = InitialStock[Central][v] + received'[v] + TakenBack(v)'
             /\ stock'[Central][v]
                   = InitialStock[Central][v] + ledger'[Central][v]
  <2>1. /\ stock'[Central][v] = stock[Central][v] + units[v]
        /\ ledger'[Central][v] = ledger[Central][v] + units[v]
    BY <1>1, <1>3, <1>4, MoveByPoint
  <2>2. /\ stock[Central][v] + HeldFrom(Central, v)
              = InitialStock[Central][v] + received[v] + TakenBack(v)
        /\ stock[Central][v] = InitialStock[Central][v] + ledger[Central][v]
    BY <1>4 DEF StockConserved
  <2>3. HeldFrom(Central, v) \in Nat
    BY <1>1, SumTypes
  <2> QED BY <1>3, <1>4, <1>6, <1>7, <1>8, <2>1, <2>2, <2>3
<1>10. ASSUME NEW v \in Variants, NEW x \in Locations, x # Central
       PROVE  /\ stock'[x] = stock[x] /\ ledger'[x] = ledger[x]
              /\ HeldFrom(x, v)' = HeldFrom(x, v)
  BY <1>1, <1>3, <1>4, <1>7, <1>10, MoveByPoint
<1>11. Stores \subseteq Locations /\ Central \notin Stores
  BY NullIsNoRow DEF Locations
<1> QED BY <1>9, <1>10, <1>11 DEF StockConserved

LEMMA ReceiptBalance ==
    ASSUME TypeOK, TypeOK', StockConserved, NEW lot \in Lots,
           CreateInboundReceipt(lot)
    PROVE  StockConserved'
<1>1. lot \in Quantities /\ Central \in Locations
  BY PayloadsValid DEF Locations
<1>2. \A l, v : HeldFrom(l, v)' = HeldFrom(l, v)
  BY DEF CreateInboundReceipt, orderVars, HeldFrom, Holds, IsOnline
<1>3. \A v : TakenBack(v)' = TakenBack(v)
  BY DEF CreateInboundReceipt, TakenBack
<1>4. ASSUME NEW v \in Variants
      PROVE  /\ stock'[Central][v] = stock[Central][v] + lot[v]
             /\ ledger'[Central][v] = ledger[Central][v] + lot[v]
             /\ \A x \in Locations \ {Central} :
                   stock'[x] = stock[x] /\ ledger'[x] = ledger[x]
             /\ received'[v] = received[v] + lot[v]
  BY <1>1, MoveByPoint DEF CreateInboundReceipt
<1>5. ASSUME NEW v \in Variants, NEW x \in Locations
      PROVE  /\ stock[x][v] \in Nat /\ ledger[x][v] \in Int
             /\ InitialStock[x][v] \in Nat
             /\ received[v] \in Nat /\ lot[v] \in Nat
             /\ HeldFrom(x, v) \in Nat /\ TakenBack(v) \in Nat
  BY <1>1, InitialTables, SumTypes DEF TypeOK, Quantities
<1>6. ASSUME NEW v \in Variants
      PROVE  /\ stock'[Central][v] + HeldFrom(Central, v)'
                   = InitialStock[Central][v] + received'[v] + TakenBack(v)'
             /\ stock'[Central][v]
                   = InitialStock[Central][v] + ledger'[Central][v]
  <2>1. /\ stock[Central][v] + HeldFrom(Central, v)
              = InitialStock[Central][v] + received[v] + TakenBack(v)
        /\ stock[Central][v] = InitialStock[Central][v] + ledger[Central][v]
    BY <1>1 DEF StockConserved
  <2> QED BY <1>1, <1>2, <1>3, <1>4, <1>5, <2>1
<1>7. Stores \subseteq Locations /\ Central \notin Stores
  BY NullIsNoRow DEF Locations
<1> QED BY <1>2, <1>4, <1>6, <1>7 DEF StockConserved

\* A return step short of the inspection completes no request.
LEMMA EarlyReturnBalance ==
    ASSUME TypeOK, StockConserved, NEW r \in ReturnIds,
           \/ \E o \in Orders : CreateReturn(r, o)
           \/ \E from, to : /\ from # "completed" /\ to # "completed"
                            /\ Advance(r, from, to)
    PROVE  StockConserved'
<1>1. UNCHANGED <<stock, ledger, received, status, order>>
  BY DEF CreateReturn, Advance, stockVars, orderVars
<1>2. /\ ret[r].status # "completed" /\ ret'[r].status # "completed"
      /\ \A x \in ReturnIds \ {r} : ret'[x] = ret[x]
  BY DEF CreateReturn, Advance, TypeOK, ReturnRows
<1>3. \A x \in ReturnIds, v \in Variants : Taken(v, x)' = Taken(v, x)
  BY <1>2 DEF Taken, Passed
<1> QED BY <1>1, <1>3, QuietBalance

LEMMA StepBalance ==
    ASSUME StockInv, [Next]_vars
    PROVE  StockConserved'
<1>1. /\ TypeOK /\ TypeOK' /\ StatusInv /\ StockConserved
      /\ UndeliveredAreOnline
  BY StepType DEF StockInv, StatusInv
<1>2. ASSUME NEW o \in Orders, Sale(o) PROVE StockConserved'
  BY <1>1, <1>2, PlaceOrderBalance, CreatePosTransactionBalance DEF Sale
<1>3. ASSUME NEW o \in Orders, Fulfil(o) PROVE StockConserved'
  BY <1>1, <1>3, FulfilBalance
<1>4. ASSUME NEW r \in ReturnIds, ReturnStep(r) PROVE StockConserved'
  <2>1. CASE Resolve(r)
    BY <1>1, <2>1, InspectBalance DEF Resolve
  <2>2. CASE ~ Resolve(r)
    BY <1>1, <1>4, <2>2, EarlyReturnBalance
       DEF ReturnStep, CancelReturn, ReviewReturn, ReceiveReturn
  <2> QED BY <2>1, <2>2
<1>5. ASSUME NEW lot \in Lots, CreateInboundReceipt(lot) PROVE StockConserved'
  BY <1>1, <1>5, ReceiptBalance
<1>6. CASE \/ \E o : WindowElapses(o)
           \/ \E c, p : ReinstateCustomerCod(c, p)
           \/ \E v, p : UpdateVariantPrice(v, p)
           \/ \E row : Switch(row)
           \/ UNCHANGED vars
  <2>1. UNCHANGED <<stock, ledger, received, status, order, ret>>
    BY <1>6 DEF WindowElapses, ReinstateCustomerCod, UpdateVariantPrice,
       Switch, stockVars, orderVars, vars
  <2> QED BY <1>1, <2>1, QuietBalance DEF Taken
<1> QED BY <1>2, <1>3, <1>4, <1>5, <1>6 DEF Next

LEMMA StepUndelivered ==
    ASSUME StockInv, [Next]_vars
    PROVE  UndeliveredAreOnline'
<1>1. TypeOK /\ UndeliveredAreOnline /\ StatusInv
  BY DEF StockInv, StatusInv
<1>2. CASE UNCHANGED <<status, order>>
  BY <1>1, <1>2 DEF UndeliveredAreOnline, IsOnline
<1>3. ASSUME NEW o \in Orders, Sale(o) PROVE UndeliveredAreOnline'
  BY <1>1, <1>3 DEF Sale, PlaceOrder, CreatePosTransaction, TypeOK,
     UndeliveredAreOnline, IsOnline
<1>4. ASSUME NEW o \in Orders, UNCHANGED order,
             \A x \in Orders \ {o} : status'[x] = status[x],
             \/ status[o] \in {"paid", "confirmed", "shipping"}
             \/ status'[o] \notin {"paid", "confirmed", "shipping"}
      PROVE  UndeliveredAreOnline'
  BY <1>1, <1>4 DEF UndeliveredAreOnline, IsOnline
<1>5. ASSUME NEW o \in Orders, Fulfil(o) PROVE UndeliveredAreOnline'
  <2>1. UNCHANGED order /\ \A x \in Orders \ {o} : status'[x] = status[x]
    BY <1>1, <1>5 DEF Fulfil, ConfirmOrder, CompleteOrder, CancelOrder,
       DispatchOrder, DeliverOrder, FailDeliveryOrder, FailAttempt,
       FailLastAttempt, TypeOK
  <2>2. \/ status[o] \in {"paid", "confirmed", "shipping"}
        \/ status'[o] \notin {"paid", "confirmed", "shipping"}
    BY <1>1, <1>5 DEF Fulfil, ConfirmOrder, CompleteOrder, CancelOrder,
       DispatchOrder, DeliverOrder, FailDeliveryOrder, FailAttempt,
       FailLastAttempt, TypeOK
  <2> QED BY <1>4, <2>1, <2>2
<1>6. ASSUME NEW r \in ReturnIds, ReturnStep(r) PROVE UndeliveredAreOnline'
  <2>1. ASSUME NEW i, InspectAndResolve(r, i) PROVE UndeliveredAreOnline'
    <3>1. ret[r].order \in Orders
      BY <1>1, <2>1, InspectionMoves
    <3>2. \/ UNCHANGED <<status, order>>
          \/ /\ UNCHANGED order
             /\ status' = [status EXCEPT ![ret[r].order] = "returned"]
      BY <2>1 DEF InspectAndResolve, CloseReturnedOrder
    <3> QED BY <1>1, <1>2, <3>1, <3>2 DEF UndeliveredAreOnline, IsOnline, TypeOK
  <2> QED BY <1>2, <1>6, <2>1 DEF ReturnStep, CreateReturn, CancelReturn,
          ReviewReturn, ReceiveReturn, Advance, Resolve, orderVars
<1>7. CASE \/ \E o : WindowElapses(o)
           \/ \E c, p : ReinstateCustomerCod(c, p)
           \/ \E lot : CreateInboundReceipt(lot)
           \/ \E v, p : UpdateVariantPrice(v, p)
           \/ \E row : Switch(row)
           \/ UNCHANGED vars
  BY <1>2, <1>7 DEF WindowElapses, ReinstateCustomerCod, CreateInboundReceipt,
     UpdateVariantPrice, Switch, orderVars, vars
<1> QED BY <1>3, <1>5, <1>6, <1>7 DEF Next

LEMMA InitStockInv == Init => StockInv
<1> SUFFICES ASSUME Init PROVE StockInv
  OBVIOUS
<1>1. ASSUME NEW l, NEW v \in Variants PROVE HeldFrom(l, v) = 0
  <2> DEFINE f == [x \in Orders |-> Held(l, v, x)]
  <2>1. f \in [Orders -> Nat] /\ \A x \in Orders : f[x] = 0
    BY DEF Init, Held, Holds
  <2>2. HeldFrom(l, v) = Total(f)
    BY DEF HeldFrom, Held
  <2> HIDE DEF f
  <2> QED BY <2>1, <2>2, TotalZero
<1>2. ASSUME NEW v \in Variants PROVE TakenBack(v) = 0
  <2> DEFINE f == [x \in ReturnIds |-> Taken(v, x)]
  <2>1. f \in [ReturnIds -> Nat] /\ \A x \in ReturnIds : f[x] = 0
    BY DEF Init, Taken, NoReturn
  <2>2. TakenBack(v) = Total(f)
    BY DEF TakenBack, Taken
  <2> HIDE DEF f
  <2> QED BY <2>1, <2>2, TotalZero
<1>3. \A l \in Locations, v \in Variants :
         /\ stock[l][v] = InitialStock[l][v] /\ InitialStock[l][v] \in Nat
         /\ ledger[l][v] = 0 /\ received[v] = 0
  BY InitialTables DEF Init, NoUnits, Quantities
<1>4. Central \in Locations /\ Stores \subseteq Locations
  BY DEF Locations
<1>5. StockConserved
  BY <1>1, <1>2, <1>3, <1>4 DEF StockConserved
<1>6. UndeliveredAreOnline
  BY DEF Init, UndeliveredAreOnline
<1> QED BY <1>5, <1>6, InitStatusInv DEF StockInv

\* At every location, what is on hand is what was there, plus receipts and
\* passed returns, minus what live orders hold, and the ledger agrees.
THEOREM StockAlwaysConserved == Spec => []StockConserved
<1>1. StockInv /\ [Next]_vars => StockInv'
  BY StepBalance, StepUndelivered, StepStatusInv DEF StockInv
<1>2. StockInv => StockConserved
  BY DEF StockInv
<1> QED BY <1>1, <1>2, InitStockInv, PTL DEF Spec
=============================================================================
