---------------------------- MODULE ReturnProofs ----------------------------
(***************************************************************************)
(* Theorems about returns and refunds, over any number of requests for an  *)
(* order, in any interleaving with sales, cancellations and price changes. *)
(*                                                                         *)
(* The argument has three sums over the requests of an order: the units    *)
(* asked back, the units that passed an inspection, and their money.       *)
(* CreateReturn bounds the first by what was bought, the second never      *)
(* exceeds the first, and an inspection moves the second and the third by  *)
(* what it adds to the order's status and refund.                          *)
(*                                                                         *)
(* From these follows that a refund pays for goods only: units times price *)
(* of what came back is bounded, line by line, by the subtotal.  Last, a   *)
(* cancelled order's goods find room on their shelf, as long as nothing    *)
(* sold at a counter is returned to it.                                    *)
(***************************************************************************)
EXTENDS ShopProofs

\* The units of v in each request that counts against order o.
Asked(rows, o, v) ==
    [r \in ReturnIds |->
       IF /\ rows[r].order = o
          /\ rows[r].status \notin {"cancelled", "rejected"}
       THEN rows[r].quantity[v] ELSE 0]

Lines == ReturnIds \X Variants

\* The units and the money of each line of a completed request of order o.
Brought(rows, o) ==
    [rv \in ReturnIds \X Variants |->
       IF rows[rv[1]].order = o /\ rows[rv[1]].status = "completed"
       THEN Passed(rows[rv[1]], rows[rv[1]].quantity)[rv[2]] ELSE 0]

Money(rows, o) ==
    [rv \in ReturnIds \X Variants |->
       IF rows[rv[1]].order = o /\ rows[rv[1]].status = "completed"
       THEN Passed(rows[rv[1]], rows[rv[1]].amount)[rv[2]] ELSE 0]

\* A request that was not created yet belongs to no order.
FreshRequests ==
    \A r \in ReturnIds : ret[r].status = "none" => ret[r].order = Null

\* An order that was sold has goods.
OrdersHaveGoods ==
    \A o \in Orders :
        status[o] # "none" => \E v \in Variants : order[o].items[v] > 0

ReturnInv ==
    /\ StatusInv
    /\ FreshRequests
    /\ OrdersHaveGoods
    /\ NoOverReturn
    /\ ReturnedExactly
    /\ RefundExact

-----------------------------------------------------------------------------
(***************************************************************************)
(* The three sums.                                                         *)
(***************************************************************************)
LEMMA AskedType ==
    ASSUME NEW rows \in [ReturnIds -> ReturnRows], NEW o, NEW v \in Variants
    PROVE  /\ Asked(rows, o, v) \in [ReturnIds -> Nat]
           /\ Total(Asked(rows, o, v)) \in Nat
<1>1. Asked(rows, o, v) \in [ReturnIds -> Nat]
  BY DEF Asked, ReturnRows, Quantities
<1> QED BY <1>1, FiniteTables, TotalType

LEMMA LinesFinite == IsFiniteSet(Lines)
BY FiniteTables, FS_Product DEF Lines

\* A sum over the lines, variant by variant and request by request.
LEMMA LinesByVariant ==
    ASSUME NEW f \in [Lines -> Nat], NEW h \in [Variants -> Nat],
           \A v \in Variants : h[v] = Total(Column(f, ReturnIds, v))
    PROVE  Total(f) = Total(h)
<1>1. Lines = ReturnIds \X Variants
  BY DEF Lines
<1>2. IsFiniteSet(ReturnIds) /\ IsFiniteSet(Variants)
  BY FiniteTables
<1> QED BY <1>1, <1>2, TotalByColumn

LEMMA LinesByRequest ==
    ASSUME NEW f \in [Lines -> Nat], NEW h \in [ReturnIds -> Nat],
           \A r \in ReturnIds : h[r] = Total(Row(f, Variants, r))
    PROVE  Total(f) = Total(h)
<1>1. Lines = ReturnIds \X Variants
  BY DEF Lines
<1>2. IsFiniteSet(ReturnIds) /\ IsFiniteSet(Variants)
  BY FiniteTables
<1> QED BY <1>1, <1>2, TotalByRow

LEMMA LineTypes ==
    ASSUME NEW rows \in [ReturnIds -> ReturnRows], NEW o
    PROVE  /\ Brought(rows, o) \in [Lines -> Nat]
           /\ Money(rows, o) \in [Lines -> Nat]
           /\ PassedUnits(rows, o) = Total(Brought(rows, o))
           /\ PassedUnits(rows, o) \in Nat
           /\ Total(Money(rows, o)) \in Nat
<1>1. \A r \in ReturnIds, v \in Variants :
         /\ Passed(rows[r], rows[r].quantity)[v] \in Nat
         /\ Passed(rows[r], rows[r].amount)[v] \in Nat
  BY DEF ReturnRows, Quantities, Passed
<1>2. Brought(rows, o) \in [Lines -> Nat]
  BY <1>1 DEF Brought, Lines
<1>3. Money(rows, o) \in [Lines -> Nat]
  BY <1>1 DEF Money, Lines
<1>4. PassedUnits(rows, o) = Total(Brought(rows, o))
  BY DEF PassedUnits, Brought
<1> QED BY <1>2, <1>3, <1>4, LinesFinite, TotalType

LEMMA LineValues ==
    ASSUME NEW rows, NEW o, NEW r \in ReturnIds, NEW v \in Variants
    PROVE  /\ Brought(rows, o)[<<r, v>>] =
                IF /\ rows[r].order = o /\ rows[r].status = "completed"
                   /\ rows[r].inspection[v] = "passed"
                THEN rows[r].quantity[v] ELSE 0
           /\ Money(rows, o)[<<r, v>>] =
                IF /\ rows[r].order = o /\ rows[r].status = "completed"
                   /\ rows[r].inspection[v] = "passed"
                THEN rows[r].amount[v] ELSE 0
BY DEF Brought, Money, Passed

\* Column by column, what passed is among what was asked back.
LEMMA PassedAmongAsked ==
    ASSUME NEW rows \in [ReturnIds -> ReturnRows], NEW o, NEW v \in Variants
    PROVE  /\ Column(Brought(rows, o), ReturnIds, v) \in [ReturnIds -> Nat]
           /\ Total(Column(Brought(rows, o), ReturnIds, v)) \in Nat
           /\ Total(Column(Brought(rows, o), ReturnIds, v))
                 <= Total(Asked(rows, o, v))
<1> DEFINE column == Column(Brought(rows, o), ReturnIds, v)
<1>1. \A r \in ReturnIds : column[r] = Brought(rows, o)[<<r, v>>]
  BY DEF Column
<1>2. column \in [ReturnIds -> Nat]
  BY LineTypes DEF Column, Lines
<1>3. \A r \in ReturnIds : column[r] <= Asked(rows, o, v)[r]
  <2> TAKE r \in ReturnIds
  <2>1. rows[r].quantity[v] \in Nat
    BY DEF ReturnRows, Quantities
  <2>2. Asked(rows, o, v)[r] =
          IF rows[r].order = o /\ rows[r].status \notin {"cancelled", "rejected"}
          THEN rows[r].quantity[v] ELSE 0
    BY DEF Asked
  <2>3. column[r] = IF /\ rows[r].order = o /\ rows[r].status = "completed"
                       /\ rows[r].inspection[v] = "passed"
                    THEN rows[r].quantity[v] ELSE 0
    BY DEF Column, Brought, Passed
  <2> HIDE DEF column
  <2>4. CASE rows[r].status = "completed"
    BY <2>1, <2>2, <2>3, <2>4
  <2>5. CASE rows[r].status # "completed"
    BY <2>1, <2>2, <2>3, <2>5
  <2> QED BY <2>4, <2>5
<1> HIDE DEF column
<1>4. Total(column) <= Total(Asked(rows, o, v))
  BY <1>2, <1>3, AskedType, FiniteTables, TotalMonotone
<1>5. Total(column) \in Nat
  BY <1>2, FiniteTables, TotalType
<1> QED BY <1>2, <1>4, <1>5 DEF column

\* If no line is asked back beyond what was bought, no more units pass than
\* were bought.
LEMMA PassedWithin ==
    ASSUME NEW rows \in [ReturnIds -> ReturnRows], NEW o,
           NEW items \in Quantities,
           \A v \in Variants : Total(Asked(rows, o, v)) <= items[v]
    PROVE  PassedUnits(rows, o) <= Total(items)
<1> DEFINE f == Brought(rows, o)
           h == [v \in Variants |-> Total(Column(f, ReturnIds, v))]
<1>1. f \in [Lines -> Nat] /\ PassedUnits(rows, o) = Total(f)
  BY LineTypes
<1>2. \A v \in Variants : /\ h[v] \in Nat
                          /\ h[v] <= Total(Asked(rows, o, v))
  BY PassedAmongAsked
<1>3. h \in [Variants -> Nat]
  BY <1>2
<1>4. \A v \in Variants : h[v] = Total(Column(f, ReturnIds, v))
  OBVIOUS
<1>5. \A v \in Variants : items[v] \in Nat /\ Total(Asked(rows, o, v)) \in Nat
  BY AskedType DEF Quantities
<1> HIDE DEF f, h
<1>6. Total(f) = Total(h)
  BY <1>1, <1>3, <1>4, LinesByVariant
<1>7. \A v \in Variants : h[v] <= items[v]
  BY <1>2, <1>5
<1>8. Total(h) <= Total(items)
  BY <1>3, <1>7, FiniteTables, TotalMonotone DEF Quantities
<1> QED BY <1>1, <1>6, <1>8

\* One request changes: so does its part of the units asked back.
LEMMA AskedChange ==
    ASSUME NEW rows \in [ReturnIds -> ReturnRows],
           NEW new \in [ReturnIds -> ReturnRows], NEW r \in ReturnIds,
           \A x \in ReturnIds \ {r} : new[x] = rows[x],
           NEW o, NEW v \in Variants
    PROVE  Total(Asked(new, o, v)) = Total(Asked(rows, o, v))
                - Asked(rows, o, v)[r] + Asked(new, o, v)[r]
<1>1. \A x \in ReturnIds \ {r} : Asked(new, o, v)[x] = Asked(rows, o, v)[x]
  BY DEF Asked
<1> QED BY <1>1, AskedType, FiniteTables, TotalChange

\* The inspection of request r adds its passed lines, and nothing is taken
\* from those of other requests.
LEMMA InspectionAdds ==
    ASSUME NEW rows \in [ReturnIds -> ReturnRows],
           NEW new \in [ReturnIds -> ReturnRows], NEW r \in ReturnIds,
           \A x \in ReturnIds \ {r} : new[x] = rows[x],
           NEW o, new[r].order = o, new[r].status = "completed",
           rows[r].status # "completed"
    PROVE  /\ PassedUnits(rows, o) <= PassedUnits(new, o)
           /\ Total(Money(new, o)) =
                 Total(Money(rows, o)) + Total(Passed(new[r], new[r].amount))
<1>1. PassedUnits(rows, o) <= PassedUnits(new, o)
  <2>1. ASSUME NEW x \in ReturnIds, NEW v \in Variants
        PROVE  Brought(rows, o)[<<x, v>>] <= Brought(new, o)[<<x, v>>]
    <3>1. new[x].quantity[v] \in Nat /\ rows[x].quantity[v] \in Nat
      BY DEF ReturnRows, Quantities
    <3> DEFINE old == Brought(rows, o)[<<x, v>>]
               now == Brought(new, o)[<<x, v>>]
    <3>2. old = IF /\ rows[x].order = o /\ rows[x].status = "completed"
                   /\ rows[x].inspection[v] = "passed"
                THEN rows[x].quantity[v] ELSE 0
      BY DEF Brought, Passed
    <3>3. now = IF /\ new[x].order = o /\ new[x].status = "completed"
                   /\ new[x].inspection[v] = "passed"
                THEN new[x].quantity[v] ELSE 0
      BY DEF Brought, Passed
    <3> SUFFICES old <= now
      OBVIOUS
    <3> HIDE DEF old, now
    <3>4. CASE x = r
      BY <3>1, <3>2, <3>3, <3>4
    <3>5. CASE x # r
      <4>1. new[x] = rows[x]
        BY <3>5
      <4> QED BY <3>1, <3>2, <3>3, <4>1
    <3> QED BY <3>4, <3>5
  <2>2. \A p \in Lines : Brought(rows, o)[p] <= Brought(new, o)[p]
    BY <2>1 DEF Lines
  <2> QED BY <2>2, LineTypes, LinesFinite, TotalMonotone
<1>2. Total(Money(new, o)) =
         Total(Money(rows, o)) + Total(Passed(new[r], new[r].amount))
  <2> DEFINE f == [x \in ReturnIds |-> Total(Row(Money(rows, o), Variants, x))]
             g == [x \in ReturnIds |-> Total(Row(Money(new, o), Variants, x))]
  <2>1. ASSUME NEW t \in [ReturnIds -> ReturnRows], NEW x \in ReturnIds
        PROVE  /\ Row(Money(t, o), Variants, x) \in [Variants -> Nat]
               /\ Total(Row(Money(t, o), Variants, x)) \in Nat
    <3>1. Row(Money(t, o), Variants, x) \in [Variants -> Nat]
      BY LineTypes DEF Row, Lines
    <3> QED BY <3>1, FiniteTables, TotalType
  <2>2. f \in [ReturnIds -> Nat] /\ g \in [ReturnIds -> Nat]
    BY <2>1
  <2>3. Total(Money(rows, o)) = Total(f)
    <3> DEFINE m == Money(rows, o)
    <3>1. \A x \in ReturnIds : f[x] = Total(Row(m, Variants, x))
      OBVIOUS
    <3>2. m \in [Lines -> Nat]
      BY LineTypes
    <3> HIDE DEF f, m
    <3>3. Total(m) = Total(f)
      BY <2>2, <3>1, <3>2, LinesByRequest
    <3> QED BY <3>3 DEF m
  <2>4. Total(Money(new, o)) = Total(g)
    <3> DEFINE m == Money(new, o)
    <3>1. \A x \in ReturnIds : g[x] = Total(Row(m, Variants, x))
      OBVIOUS
    <3>2. m \in [Lines -> Nat]
      BY LineTypes
    <3> HIDE DEF g, m
    <3>3. Total(m) = Total(g)
      BY <2>2, <3>1, <3>2, LinesByRequest
    <3> QED BY <3>3 DEF m
  <2>5. ASSUME NEW x \in ReturnIds \ {r} PROVE g[x] = f[x]
    <3>1. \A v \in Variants :
             Money(new, o)[<<x, v>>] = Money(rows, o)[<<x, v>>]
      <4>1. new[x] = rows[x]
        BY <2>5
      <4> QED BY <4>1 DEF Money
    <3>2. Row(Money(new, o), Variants, x) = Row(Money(rows, o), Variants, x)
      BY <3>1 DEF Row
    <3> QED BY <3>2
  <2>6. f[r] = 0
    <3> DEFINE row == Row(Money(rows, o), Variants, r)
    <3>1. row \in [Variants -> Nat]
      BY <2>1
    <3>2. \A v \in Variants : row[v] = 0
      BY DEF Row, Money
    <3> HIDE DEF row
    <3>3. Total(row) = 0
      BY <3>1, <3>2, TotalZero
    <3> QED BY <3>3 DEF row
  <2>7. g[r] = Total(Passed(new[r], new[r].amount))
    <3>1. \A v \in Variants :
             Money(new, o)[<<r, v>>] = Passed(new[r], new[r].amount)[v]
      BY LineValues DEF Passed
    <3>2. Row(Money(new, o), Variants, r) = Passed(new[r], new[r].amount)
      BY <3>1 DEF Row, Passed
    <3> QED BY <3>2
  <2> HIDE DEF f, g
  <2>8. Total(g) = Total(f) - f[r] + g[r] /\ Total(f) \in Nat
    BY <2>2, <2>5, FiniteTables, TotalChange
  <2> QED BY <2>2, <2>3, <2>4, <2>6, <2>7, <2>8
<1> QED BY <1>1, <1>2

\* Requests of other orders, and requests that are not completed, count
\* nothing.
LEMMA SameLines ==
    ASSUME NEW rows, NEW new, NEW o,
           \A r \in ReturnIds :
              \/ new[r] = rows[r]
              \/ /\ ~ (rows[r].order = o /\ rows[r].status = "completed")
                 /\ ~ (new[r].order = o /\ new[r].status = "completed")
    PROVE  PassedUnits(new, o) = PassedUnits(rows, o)
           /\ Total(Money(new, o)) = Total(Money(rows, o))
<1>1. \A rv \in ReturnIds \X Variants :
         /\ Brought(new, o)[rv] = Brought(rows, o)[rv]
         /\ Money(new, o)[rv] = Money(rows, o)[rv]
  BY DEF Brought, Money
<1>2. Brought(new, o) = Brought(rows, o) /\ Money(new, o) = Money(rows, o)
  BY <1>1 DEF Brought, Money
<1> QED BY <1>2 DEF PassedUnits, Brought

\* An order without requests.
LEMMA NoRequests ==
    ASSUME NEW rows \in [ReturnIds -> ReturnRows], NEW o,
           \A r \in ReturnIds : rows[r].order # o
    PROVE  /\ \A v \in Variants : Total(Asked(rows, o, v)) = 0
           /\ PassedUnits(rows, o) = 0
           /\ Total(Money(rows, o)) = 0
<1>1. \A v \in Variants : Total(Asked(rows, o, v)) = 0
  <2> TAKE v \in Variants
  <2>1. \A r \in ReturnIds : Asked(rows, o, v)[r] = 0
    BY DEF Asked
  <2> QED BY <2>1, AskedType, TotalZero
<1>2. \A p \in Lines : Brought(rows, o)[p] = 0 /\ Money(rows, o)[p] = 0
  BY DEF Brought, Money, Lines
<1> QED BY <1>1, <1>2, LineTypes, TotalZero

\* The same, from the invariant: requests follow the delivery.
LEMMA SoldWithoutRequests ==
    ASSUME StatusInv, FreshRequests, NEW o \in Orders,
           status[o] \notin AtTheBuyer
    PROVE  \A r \in ReturnIds : ret[r].order # o
BY NullIsNoRow DEF StatusInv, FreshRequests, ReturnsFollowDelivery
-----------------------------------------------------------------------------
(***************************************************************************)
(* The books of one order: its requests, its status and its refund agree.  *)
(***************************************************************************)
Settled(rows, o, state, row, money) ==
    /\ \A v \in Variants : Total(Asked(rows, o, v)) <= row.items[v]
    /\ state # "none" =>
          /\ \E v \in Variants : row.items[v] > 0
          /\ state = "returned" <=> PassedUnits(rows, o) = Total(row.items)
    /\ money = IF state = "cancelled" THEN row.total
               ELSE Lesser(row.total, Total(Money(rows, o)))

Books == OrdersHaveGoods /\ NoOverReturn /\ ReturnedExactly /\ RefundExact

LEMMA BooksByOrder ==
    Books <=> \A o \in Orders : Settled(ret, o, status[o], order[o], refund[o])
BY DEF Books, OrdersHaveGoods, NoOverReturn, ReturnedExactly, RefundExact,
   Settled, Asked, Money, PassedAmount

LEMMA NextBooksByOrder ==
    (\A o \in Orders : Settled(ret', o, status'[o], order'[o], refund'[o]))
        => Books'
<1> SUFFICES ASSUME \A o \in Orders :
                       Settled(ret', o, status'[o], order'[o], refund'[o])
             PROVE  Books'
  OBVIOUS
<1>1. OrdersHaveGoods'
  BY DEF OrdersHaveGoods, Settled
<1>2. NoOverReturn'
  BY DEF NoOverReturn, Settled, Asked, Total, Units
<1>3. ReturnedExactly'
  BY DEF ReturnedExactly, Settled, PassedUnits, Passed, Total, Units
<1>4. RefundExact'
  BY DEF RefundExact, Settled, Money, PassedAmount, Passed, Total, Units,
     Lesser
<1> QED BY <1>1, <1>2, <1>3, <1>4 DEF Books

LEMMA SaleBooks ==
    ASSUME ReturnInv, TypeOK', NEW o \in Orders, Sale(o),
           Settled(ret, o, status[o], order[o], refund[o])
    PROVE  Settled(ret', o, status'[o], order'[o], refund'[o])
<1>1. TypeOK /\ StatusInv /\ FreshRequests
  BY DEF ReturnInv, StatusInv
<1>2. /\ status[o] = "none" /\ UNCHANGED <<ret, refund>>
      /\ status'[o] \in {"paid", "confirmed", "completed"}
      /\ order'[o].items \in Baskets
  BY <1>1 DEF Sale, PlaceOrder, CreatePosTransaction, TypeOK
<1>3. \A r \in ReturnIds : ret[r].order # o
  BY <1>1, <1>2, SoldWithoutRequests DEF AtTheBuyer
<1>4. /\ \A v \in Variants : Total(Asked(ret, o, v)) = 0
      /\ PassedUnits(ret, o) = 0 /\ Total(Money(ret, o)) = 0
  BY <1>1, <1>3, NoRequests DEF TypeOK
<1>5. /\ order'[o].items \in Quantities /\ order'[o].total \in Nat
      /\ order[o].total \in Nat
      /\ \E v \in Variants : order'[o].items[v] > 0
  <2>1. order[o] \in OrderRows /\ order'[o] \in OrderRows
    BY <1>1 DEF TypeOK
  <2>2. order'[o].items \in Quantities \ {NoUnits}
    BY <1>2, PayloadsValid
  <2> QED BY <2>1, <2>2 DEF OrderRows, Quantities, NoUnits
<1>6. Total(order'[o].items) > 0
  <2> PICK v \in Variants : order'[o].items[v] > 0
    BY <1>5
  <2>1. order'[o].items[v] <= Total(order'[o].items)
    BY <1>5, FiniteTables, TotalBounds DEF Quantities
  <2> QED BY <1>5, <2>1, BasketTotal DEF Quantities
<1>7. refund'[o] = 0
  BY <1>2, <1>4, <1>5 DEF Settled, Lesser
<1>8. \A v \in Variants : order'[o].items[v] >= 0
  BY <1>5 DEF Quantities
<1> QED BY <1>2, <1>4, <1>5, <1>6, <1>7, <1>8 DEF Settled, Lesser

LEMMA FulfilBooks ==
    ASSUME TypeOK, NEW o \in Orders, Fulfil(o),
           Settled(ret, o, status[o], order[o], refund[o])
    PROVE  Settled(ret', o, status'[o], order'[o], refund'[o])
<1>1. UNCHANGED <<ret, order>>
  BY DEF Fulfil, ConfirmOrder, CompleteOrder, CancelOrder, DispatchOrder,
     DeliverOrder, FailDeliveryOrder, FailAttempt, FailLastAttempt
<1>2. /\ status[o] \notin {"none", "returned", "cancelled"}
      /\ status'[o] \notin {"none", "returned"}
  BY DEF Fulfil, ConfirmOrder, CompleteOrder, CancelOrder, DispatchOrder,
     DeliverOrder, FailDeliveryOrder, FailAttempt, FailLastAttempt, TypeOK
<1>3. \/ status'[o] = "cancelled" /\ refund'[o] = order[o].total
      \/ status'[o] # "cancelled" /\ refund'[o] = refund[o]
  BY DEF Fulfil, ConfirmOrder, CompleteOrder, CancelOrder, DispatchOrder,
     DeliverOrder, FailDeliveryOrder, FailAttempt, FailLastAttempt, TypeOK
<1> QED BY <1>1, <1>2, <1>3 DEF Settled

\* A request that is created, cancelled, reviewed or received asks back what
\* there is to ask back, and counts nothing as brought back.
LEMMA EarlyBooks ==
    ASSUME TypeOK, TypeOK', FreshRequests, NEW r \in ReturnIds,
           \/ \E o \in Orders : CreateReturn(r, o)
           \/ \E from \in {"pending_review", "approved"},
                 to \in {"approved", "rejected", "goods_received", "cancelled"} :
                    Advance(r, from, to),
           NEW x \in Orders, Settled(ret, x, status[x], order[x], refund[x])
    PROVE  Settled(ret', x, status'[x], order'[x], refund'[x])
<1>1. UNCHANGED <<status, order, refund>>
  BY DEF CreateReturn, Advance, orderVars
<1>2. /\ ret[r].status # "completed" /\ ret'[r].status # "completed"
      /\ \A y \in ReturnIds \ {r} : ret'[y] = ret[y]
      /\ ret \in [ReturnIds -> ReturnRows] /\ ret' \in [ReturnIds -> ReturnRows]
  BY DEF CreateReturn, Advance, TypeOK, ReturnRows
<1>3. /\ PassedUnits(ret', x) = PassedUnits(ret, x)
      /\ Total(Money(ret', x)) = Total(Money(ret, x))
  BY <1>2, SameLines
<1>4. ASSUME NEW v \in Variants
      PROVE  Total(Asked(ret', x, v)) <= order[x].items[v]
  <2> DEFINE before == Total(Asked(ret, x, v))
             old == Asked(ret, x, v)[r]
             now == Asked(ret', x, v)[r]
  <2>1. /\ Total(Asked(ret', x, v)) = before - old + now
        /\ before \in Nat /\ old \in Nat /\ now \in Nat
    BY <1>2, AskedType, AskedChange
  <2>2. before <= order[x].items[v] /\ order[x].items[v] \in Nat
    BY DEF Settled, TypeOK, OrderRows, Quantities
  <2>3. ret[r].quantity[v] \in Nat
    BY DEF TypeOK, ReturnRows, Quantities
  <2>4. ASSUME NEW o \in Orders, CreateReturn(r, o)
        PROVE  before - old + now <= order[x].items[v]
    <3>1. old = 0
      BY <1>2, <2>4, NullIsNoRow DEF CreateReturn, FreshRequests, Asked
    <3>2. CASE o # x
      <4>1. now = 0
        BY <1>2, <2>4, <3>2 DEF CreateReturn, Asked
      <4> HIDE DEF before, old, now
      <4> QED BY <2>1, <2>2, <3>1, <4>1
    <3>3. CASE o = x
      <4>1. PICK q \in ReturnChoices(x) : now = q[v]
        BY <1>2, <2>4, <3>3 DEF CreateReturn, Asked
      <4>2. AlreadyReturned(x, v) = before
        BY DEF AlreadyReturned, DeadReturnStatuses, Asked
      <4> HIDE DEF before, old, now
      <4>3. q[v] > 0 => q[v] <= order[x].items[v] - before
        BY <4>1, <4>2 DEF ReturnChoices, Contents
      <4> QED BY <2>1, <2>2, <3>1, <4>1, <4>3
    <3> QED BY <3>2, <3>3
  <2>5. ASSUME NEW from \in {"pending_review", "approved"}, NEW to,
               Advance(r, from, to)
        PROVE  before - old + now <= order[x].items[v]
    <3>1. /\ ret'[r].order = ret[r].order
          /\ ret'[r].quantity = ret[r].quantity
          /\ ret[r].status = from
      BY <1>2, <2>5 DEF Advance, ReturnRows
    <3>2. now <= old
      BY <2>3, <2>5, <3>1 DEF Asked
    <3> HIDE DEF before, old, now
    <3> QED BY <2>1, <2>2, <3>2
  <2> HIDE DEF before, old, now
  <2> QED BY <2>1, <2>4, <2>5
<1> QED BY <1>1, <1>3, <1>4 DEF Settled

\* What an inspection leaves of the request and of the others.
LEMMA InspectedRow ==
    ASSUME TypeOK, NEW r \in ReturnIds, NEW inspection,
           InspectAndResolve(r, inspection)
    PROVE  /\ ret[r].status = "goods_received" /\ ret'[r].status = "completed"
           /\ ret'[r].order = ret[r].order
           /\ ret'[r].quantity = ret[r].quantity
           /\ ret'[r].amount = ret[r].amount
           /\ \A x \in ReturnIds \ {r} : ret'[x] = ret[x]
BY DEF InspectAndResolve, TypeOK, ReturnRows

\* What it writes, in terms of the requests as they are afterwards.
LEMMA InspectionWrites ==
    ASSUME NEW r \in ReturnIds, NEW inspection,
           InspectAndResolve(r, inspection)
    PROVE  /\ GrantRefund(ret[r].order, Total(Passed(ret'[r], ret'[r].amount)))
           /\ IF FullyReturned(ret', ret[r].order)
              THEN CloseReturnedOrder(ret[r].order)
              ELSE UNCHANGED status
<1> DEFINE rows == [ret EXCEPT ![r].status = "completed",
                               ![r].inspection = inspection]
<1>1. /\ ret' = rows
      /\ GrantRefund(ret[r].order, Total(Passed(rows[r], rows[r].amount)))
      /\ IF FullyReturned(rows, ret[r].order)
         THEN CloseReturnedOrder(ret[r].order)
         ELSE UNCHANGED status
  BY DEF InspectAndResolve
<1> HIDE DEF rows
<1> QED BY <1>1

LEMMA InspectBooks ==
    ASSUME StatusInv, TypeOK', NEW r \in ReturnIds, NEW inspection,
           InspectAndResolve(r, inspection),
           NEW x \in Orders, Settled(ret, x, status[x], order[x], refund[x])
    PROVE  Settled(ret', x, status'[x], order'[x], refund'[x])
<1>0. /\ TypeOK /\ UNCHANGED order
      /\ ret \in [ReturnIds -> ReturnRows] /\ ret' \in [ReturnIds -> ReturnRows]
      /\ refund \in [Orders -> Nat] /\ order[x] \in OrderRows
      /\ status \in [Orders -> Statuses]
  BY DEF StatusInv, InspectAndResolve, TypeOK
<1>1. ASSUME NEW v \in Variants
      PROVE  Total(Asked(ret', x, v)) <= order[x].items[v]
  <2>1. Asked(ret', x, v)[r] = Asked(ret, x, v)[r]
    BY <1>0, InspectedRow DEF Asked
  <2>2. Total(Asked(ret', x, v)) = Total(Asked(ret, x, v))
    <3>1. Asked(ret, x, v)[r] \in Nat /\ Total(Asked(ret, x, v)) \in Nat
      BY <1>0, AskedType
    <3> QED BY <1>0, <2>1, <3>1, InspectedRow, AskedChange
  <2> QED BY <2>2 DEF Settled
<1>2. CASE x # ret[r].order
  <2>1. status'[x] = status[x] /\ refund'[x] = refund[x]
    BY <1>0, <1>2 DEF InspectAndResolve, GrantRefund, CloseReturnedOrder
  <2>2. /\ PassedUnits(ret', x) = PassedUnits(ret, x)
        /\ Total(Money(ret', x)) = Total(Money(ret, x))
    BY <1>0, <1>2, InspectedRow, SameLines
  <2> QED BY <1>0, <1>1, <2>1, <2>2 DEF Settled
<1>3. CASE x = ret[r].order
  <2> DEFINE amount == Total(Passed(ret'[r], ret'[r].amount))
             units == Total(order[x].items)
             was == PassedUnits(ret, x)
             is == PassedUnits(ret', x)
             paid == Total(Money(ret, x))
  <2>1. /\ status[x] \in AtTheBuyer
        /\ \/ is >= units /\ status'[x] = "returned"
           \/ ~ (is >= units) /\ status'[x] = status[x]
        /\ refund'[x] = IF amount > 0
                        THEN Lesser(order[x].total, refund[x] + amount)
                        ELSE refund[x]
    <3>1. status[x] \in AtTheBuyer
      BY <1>3, InspectionMoves
    <3>2. /\ GrantRefund(x, amount)
          /\ IF is >= units THEN CloseReturnedOrder(x) ELSE UNCHANGED status
      BY <1>3, InspectionWrites DEF FullyReturned
    <3> HIDE DEF amount, units, is
    <3> QED BY <1>0, <3>1, <3>2 DEF GrantRefund, CloseReturnedOrder
  <2>2. was <= is /\ Total(Money(ret', x)) = paid + amount
    <3>1. /\ \A y \in ReturnIds \ {r} : ret'[y] = ret[y]
          /\ ret'[r].order = x /\ ret'[r].status = "completed"
          /\ ret[r].status # "completed"
      BY <1>0, <1>3, InspectedRow
    <3> QED BY ONLY r \in ReturnIds, <1>0, <3>1, InspectionAdds
  <2>3. /\ was \in Nat /\ is \in Nat /\ units \in Nat
        /\ paid \in Nat /\ amount \in Nat
    <3>1. Passed(ret'[r], ret'[r].amount) \in Quantities
      BY <1>0, PassedType DEF ReturnRows
    <3> QED BY <1>0, <3>1, LineTypes, BasketTotal DEF OrderRows
  <2>4. is <= units
    BY <1>0, <1>1, PassedWithin DEF OrderRows
  <2>5. /\ status[x] = "returned" <=> was = units
        /\ \E v \in Variants : order[x].items[v] > 0
        /\ refund[x] = Lesser(order[x].total, paid)
        /\ refund[x] \in Nat /\ order[x].total \in Nat
    BY <1>0, <2>1 DEF Settled, AtTheBuyer, OrderRows
  <2> HIDE DEF amount, units, was, is, paid
  <2>6. status'[x] = "returned" <=> is = units
    BY <2>1, <2>2, <2>3, <2>4, <2>5
  <2>7. refund'[x] = Lesser(order[x].total, paid + amount)
    BY <2>1, <2>3, <2>5 DEF Lesser
  <2>8. status'[x] \in AtTheBuyer
    BY <2>1 DEF AtTheBuyer
  <2> QED BY <1>0, <1>1, <2>2, <2>5, <2>6, <2>7, <2>8
          DEF Settled, AtTheBuyer, units, is
<1> QED BY <1>2, <1>3

LEMMA StepFresh ==
    ASSUME StatusInv, FreshRequests, [Next]_vars
    PROVE  FreshRequests'
<1>0. ret \in [ReturnIds -> ReturnRows]
  BY DEF StatusInv, TypeOK
<1>1. CASE UNCHANGED ret
  BY <1>1 DEF FreshRequests
<1>2. ASSUME NEW r \in ReturnIds, ReturnStep(r) PROVE FreshRequests'
  <2>1. \A x \in ReturnIds \ {r} : ret'[x] = ret[x]
    BY <1>0, <1>2 DEF ReturnStep, CreateReturn, CancelReturn, ReviewReturn,
       ReceiveReturn, Advance, Resolve, InspectAndResolve
  <2>2. ret'[r].status # "none"
    <3>1. ASSUME NEW o, CreateReturn(r, o) PROVE ret'[r].status # "none"
      BY <1>0, <3>1 DEF CreateReturn
    <3>2. ASSUME NEW from, NEW to, to # "none", Advance(r, from, to)
          PROVE  ret'[r].status # "none"
      BY <1>0, <3>2 DEF Advance, ReturnRows
    <3>3. ASSUME NEW i, InspectAndResolve(r, i) PROVE ret'[r].status # "none"
      BY <1>0, <3>3 DEF InspectAndResolve, ReturnRows
    <3> QED BY <1>2, <3>1, <3>2, <3>3 DEF ReturnStep, CancelReturn,
            ReviewReturn, ReceiveReturn, Resolve
  <2> QED BY <2>1, <2>2 DEF FreshRequests
<1>3. ASSUME NEW o \in Orders, Sale(o) \/ Fulfil(o) PROVE UNCHANGED ret
  BY <1>3, OrderMoves
<1>4. CASE \/ \E o : WindowElapses(o)
           \/ \E c, p : ReinstateCustomerCod(c, p)
           \/ \E lot : CreateInboundReceipt(lot)
           \/ \E v, p : UpdateVariantPrice(v, p)
           \/ \E row : Switch(row)
           \/ UNCHANGED vars
  BY <1>1, <1>4 DEF WindowElapses, ReinstateCustomerCod, CreateInboundReceipt,
     UpdateVariantPrice, Switch, vars
<1> QED BY <1>1, <1>2, <1>3, <1>4 DEF Next

\* A step of one order leaves the rows of the others alone.
LEMMA OthersSettled ==
    ASSUME TypeOK, NEW o \in Orders, Sale(o) \/ Fulfil(o),
           NEW x \in Orders, x # o,
           Settled(ret, x, status[x], order[x], refund[x])
    PROVE  Settled(ret', x, status'[x], order'[x], refund'[x])
<1>1. /\ status'[x] = status[x] /\ order'[x] = order[x]
      /\ refund'[x] = refund[x] /\ UNCHANGED ret
  <2>1. CASE Sale(o)
    BY <2>1 DEF TypeOK, Sale, PlaceOrder, CreatePosTransaction
  <2>2. CASE Fulfil(o)
    BY <2>2 DEF TypeOK, Fulfil, ConfirmOrder, CompleteOrder, CancelOrder,
       DispatchOrder, DeliverOrder, FailDeliveryOrder, FailAttempt,
       FailLastAttempt
  <2> QED BY <2>1, <2>2
<1> QED BY <1>1

LEMMA StepReturns == ReturnInv /\ [Next]_vars => ReturnInv'
<1> SUFFICES ASSUME ReturnInv, [Next]_vars PROVE ReturnInv'
  OBVIOUS
<1>1. /\ StatusInv /\ StatusInv' /\ TypeOK /\ TypeOK'
      /\ FreshRequests /\ FreshRequests'
  BY StepStatusInv, StepFresh DEF ReturnInv, StatusInv
<1>2. \A o \in Orders : Settled(ret, o, status[o], order[o], refund[o])
  BY BooksByOrder DEF ReturnInv, Books
<1> SUFFICES ASSUME NEW x \in Orders
             PROVE  Settled(ret', x, status'[x], order'[x], refund'[x])
  BY <1>1, NextBooksByOrder DEF ReturnInv, Books
<1> DEFINE Kept == Settled(ret', x, status'[x], order'[x], refund'[x])
<1>3. ASSUME NEW o \in Orders, Sale(o) \/ Fulfil(o) PROVE Kept
  <2>1. CASE x = o
    BY <1>1, <1>2, <1>3, <2>1, SaleBooks, FulfilBooks
  <2>2. CASE x # o
    BY <1>1, <1>2, <1>3, <2>2, OthersSettled
  <2> QED BY <2>1, <2>2
<1>4. ASSUME NEW r \in ReturnIds, ReturnStep(r) PROVE Kept
  <2>1. ASSUME NEW i, InspectAndResolve(r, i) PROVE Kept
    BY <1>1, <1>2, <2>1, InspectBooks
  <2>2. CASE ~ Resolve(r)
    <3>1. \/ \E o \in Orders : CreateReturn(r, o)
          \/ \E from \in {"pending_review", "approved"},
                to \in {"approved", "rejected", "goods_received",
                        "cancelled"} : Advance(r, from, to)
      BY <1>4, <2>2 DEF ReturnStep, CancelReturn, ReviewReturn, ReceiveReturn
    <3> QED BY <1>1, <1>2, <3>1, EarlyBooks
  <2> QED BY <2>1, <2>2 DEF Resolve
<1>5. CASE \/ \E o : WindowElapses(o)
           \/ \E c, p : ReinstateCustomerCod(c, p)
           \/ \E lot : CreateInboundReceipt(lot)
           \/ \E v, p : UpdateVariantPrice(v, p)
           \/ \E row : Switch(row)
           \/ UNCHANGED vars
  <2>1. UNCHANGED <<status, order, refund, ret>>
    BY <1>5 DEF WindowElapses, ReinstateCustomerCod, CreateInboundReceipt,
       UpdateVariantPrice, Switch, orderVars, vars
  <2> QED BY <1>2, <2>1
<1> QED BY <1>3, <1>4, <1>5 DEF Next

LEMMA InitReturns == Init => ReturnInv
<1> SUFFICES ASSUME Init PROVE ReturnInv
  OBVIOUS
<1>1. TypeOK /\ StatusInv
  BY InitType, InitStatusInv
<1>2. FreshRequests
  BY DEF Init, FreshRequests, NoReturn
<1>3. ASSUME NEW o \in Orders
      PROVE  Settled(ret, o, status[o], order[o], refund[o])
  <2>1. \A r \in ReturnIds : ret[r].order # o
    BY NullIsNoRow DEF Init, NoReturn
  <2>2. /\ \A v \in Variants : Total(Asked(ret, o, v)) = 0
        /\ Total(Money(ret, o)) = 0
    BY <1>1, <2>1, NoRequests DEF TypeOK
  <2>3. /\ status[o] = "none" /\ refund[o] = 0 /\ order[o].total = 0
        /\ \A v \in Variants : order[o].items[v] = 0
    BY DEF Init, NoOrder, NoUnits
  <2> QED BY <2>2, <2>3 DEF Settled, Lesser
<1> QED BY <1>1, <1>2, <1>3, BooksByOrder DEF ReturnInv, Books

\* The invariant that the three theorems share.
LEMMA ReturnsInvariant == Spec => []ReturnInv
BY InitReturns, StepReturns, PTL DEF Spec

\* Over all the requests of an order that still stand, whatever their number
\* and their order, no line is asked back beyond what was bought.
THEOREM NeverOverReturned == Spec => []NoOverReturn
<1>1. ReturnInv => NoOverReturn
  BY DEF ReturnInv
<1> QED BY <1>1, ReturnsInvariant, PTL

\* An order is returned exactly when every unit came back and passed.
THEOREM AlwaysReturnedExactly == Spec => []ReturnedExactly
<1>1. ReturnInv => ReturnedExactly
  BY DEF ReturnInv
<1> QED BY <1>1, ReturnsInvariant, PTL

\* The refund of an order is its total if it was cancelled, and otherwise the
\* money of the lines that passed, capped at the total.
THEOREM RefundAlwaysExact == Spec => []RefundExact
<1>1. ReturnInv => RefundExact
  BY DEF ReturnInv
<1> QED BY <1>1, ReturnsInvariant, PTL
-----------------------------------------------------------------------------
(***************************************************************************)
(* Refunds pay back goods.                                                 *)
(*                                                                         *)
(* A passed line is paid with its units times a prorated unit price, which *)
(* is at most half a unit of money above the exact one.  Summed line by    *)
(* line, with each column bounded by what was bought, the refund stays     *)
(* below the price of the goods plus half a unit for each unit sold.       *)
(***************************************************************************)

\* The price of the goods of an order, at the prices of the sale.
Goods(row) == [v \in Variants |-> row.unitPrice[v] * row.items[v]]

\* What a sale writes down about its money.
SaleRecords ==
    \A o \in Orders :
        /\ order[o].subtotal = Total(Goods(order[o]))
        /\ order[o].discount <= order[o].subtotal

\* A request is paid by the unit, at a prorated price of its order.
FairRow(row, sold) ==
    \A v \in Variants :
        \E unit \in ProratedUnitPrice(sold.unitPrice[v], sold) :
            row.amount[v] = unit * row.quantity[v]

FairAmounts ==
    \A r \in ReturnIds :
        ret[r].status # "none" => FairRow(ret[r], order[ret[r].order])

MoneyInv == ReturnInv /\ SaleRecords /\ FairAmounts

\* If every passed line is worth at most c[v] / a for each of its units, the
\* passed lines together are worth at most the goods at that price.
LEMMA WeightedLines ==
    ASSUME NEW rows \in [ReturnIds -> ReturnRows], NEW o,
           NEW items \in Quantities, NEW a \in Nat,
           NEW c \in [Variants -> Nat],
           \A v \in Variants : Total(Asked(rows, o, v)) <= items[v],
           \A r \in ReturnIds, v \in Variants :
              a * Money(rows, o)[<<r, v>>] <= c[v] * Brought(rows, o)[<<r, v>>]
    PROVE  a * Total(Money(rows, o)) <= Total([v \in Variants |-> c[v] * items[v]])
<1> DEFINE m == Money(rows, o)
           b == Brought(rows, o)
           w == [l \in Lines |-> a * m[l]]
           h == [v \in Variants |-> Total(Column(w, ReturnIds, v))]
           goods == [v \in Variants |-> c[v] * items[v]]
<1>1. m \in [Lines -> Nat] /\ b \in [Lines -> Nat]
  BY LineTypes
<1>2. \A r \in ReturnIds, v \in Variants :
         /\ <<r, v>> \in Lines
         /\ a * m[<<r, v>>] <= c[v] * b[<<r, v>>]
  BY DEF Lines
<1>3. \A v \in Variants :
         /\ Column(b, ReturnIds, v) \in [ReturnIds -> Nat]
         /\ Total(Column(b, ReturnIds, v)) \in Nat
         /\ Total(Column(b, ReturnIds, v)) <= Total(Asked(rows, o, v))
         /\ Total(Asked(rows, o, v)) \in Nat
  BY PassedAmongAsked, AskedType
<1> HIDE DEF m, b
<1>4. w \in [Lines -> Nat]
  <2>1. \A l \in Lines : a * m[l] \in Nat
    BY <1>1
  <2> QED BY <2>1
<1>5. Total(w) = a * Total(m)
  BY <1>1, LinesFinite, TotalTimes
<1>6. ASSUME NEW v \in Variants
      PROVE  /\ Total(Column(w, ReturnIds, v)) \in Nat
             /\ Total(Column(w, ReturnIds, v)) <= c[v] * items[v]
  <2> DEFINE part == Column(b, ReturnIds, v)
             line == Column(w, ReturnIds, v)
             most == [r \in ReturnIds |-> c[v] * part[r]]
  <2>1. \A r \in ReturnIds : /\ part[r] = b[<<r, v>>]
                             /\ line[r] = a * m[<<r, v>>]
    BY <1>2 DEF Column
  <2>2. line \in [ReturnIds -> Nat]
    BY <1>2, <1>4 DEF Column
  <2>3. part \in [ReturnIds -> Nat] /\ c[v] \in Nat /\ items[v] \in Nat
    BY <1>3 DEF Quantities
  <2> HIDE DEF part, line
  <2>4. Total(most) = c[v] * Total(part)
    BY <2>3, FiniteTables, TotalTimes
  <2>5. most \in [ReturnIds -> Nat] /\ \A r \in ReturnIds : line[r] <= most[r]
    <3>1. \A r \in ReturnIds : c[v] * part[r] \in Nat
      BY <2>3
    <3>2. \A r \in ReturnIds : line[r] <= c[v] * part[r]
      BY <1>2, <2>1
    <3> QED BY <3>1, <3>2
  <2> HIDE DEF most
  <2>6. Total(line) <= Total(most) /\ Total(line) \in Nat
    BY <2>2, <2>5, FiniteTables, TotalMonotone, TotalType
  <2>7. Total(part) \in Nat /\ Total(part) <= items[v]
    <3>1. /\ Total(part) \in Nat /\ Total(part) <= Total(Asked(rows, o, v))
          /\ Total(Asked(rows, o, v)) \in Nat
      BY <1>3 DEF part
    <3> QED BY <2>3, <3>1
  <2>8. \A x, y, z \in Nat : x <= y => z * x <= z * y /\ z * x \in Nat
                                       /\ z * y \in Nat
    OBVIOUS
  <2>9. /\ c[v] * Total(part) <= c[v] * items[v]
        /\ c[v] * Total(part) \in Nat /\ c[v] * items[v] \in Nat
    BY <2>3, <2>7, <2>8
  <2>10. Total(line) <= c[v] * items[v]
    BY <2>4, <2>6, <2>9
  <2> QED BY <2>6, <2>10 DEF line
<1>7. h \in [Variants -> Nat]
  BY <1>6
<1>8. Total(w) = Total(h)
  <2>1. \A v \in Variants : h[v] = Total(Column(w, ReturnIds, v))
    OBVIOUS
  <2> HIDE DEF w, h
  <2> QED BY <1>4, <1>7, <2>1, LinesByVariant
<1>9. goods \in [Variants -> Nat]
  <2>1. \A v \in Variants : c[v] * items[v] \in Nat
    BY DEF Quantities
  <2> QED BY <2>1
<1>10. Total(h) <= Total(goods)
  <2>1. \A v \in Variants : h[v] <= goods[v]
    BY <1>6
  <2> HIDE DEF h, goods
  <2> QED BY <1>7, <1>9, <2>1, FiniteTables, TotalMonotone
<1> QED BY <1>5, <1>8, <1>10 DEF m

\* What a prorated unit price may be: the price itself without a discount,
\* else at most half a unit of money above the exact share.
LEMMA ProratedBound ==
    ASSUME NEW row, row.subtotal \in Nat, row.discount \in Nat,
           row.discount <= row.subtotal, NEW price0 \in Nat,
           NEW unit \in ProratedUnitPrice(price0, row)
    PROVE  /\ unit \in Nat
           /\ row.discount = 0 => unit = price0
           /\ row.discount > 0 =>
                 2 * row.subtotal * unit
                    <= 2 * (row.subtotal - row.discount) * price0 + row.subtotal
<1>1. CASE row.subtotal > 0 /\ row.discount > 0
  <2> DEFINE S == row.subtotal
             D == row.discount
  <2>1. unit \in 0 .. price0 /\ 2 * (unit * S - price0 * (S - D)) <= S
    BY <1>1 DEF ProratedUnitPrice
  <2>2. unit \in Nat /\ S \in Nat /\ D \in Nat /\ S - D \in Nat
    BY <2>1
  <2> HIDE DEF S, D
  <2>3. /\ unit * S \in Int /\ price0 * (S - D) \in Int
        /\ 2 * S * unit = 2 * (unit * S)
        /\ 2 * (S - D) * price0 = 2 * (price0 * (S - D))
    BY <2>2
  <2>4. 2 * S * unit <= 2 * (S - D) * price0 + S
    BY <2>1, <2>2, <2>3
  <2> QED BY <1>1, <2>2, <2>4 DEF S, D
<1>2. CASE ~ (row.subtotal > 0 /\ row.discount > 0)
  <2>1. unit = price0 /\ row.discount = 0
    BY <1>2 DEF ProratedUnitPrice
  <2> QED BY <2>1
<1> QED BY <1>1, <1>2

\* A line of order o brought nothing back, or is paid by the unit.
LEMMA LineMoney ==
    ASSUME TypeOK, FairAmounts, NEW o \in Orders, NEW r \in ReturnIds,
           NEW v \in Variants
    PROVE  \/ Money(ret, o)[<<r, v>>] = 0 /\ Brought(ret, o)[<<r, v>>] = 0
           \/ \E unit \in ProratedUnitPrice(order[o].unitPrice[v], order[o]) :
                 Money(ret, o)[<<r, v>>] = unit * Brought(ret, o)[<<r, v>>]
<1> DEFINE counts == /\ ret[r].order = o /\ ret[r].status = "completed"
                     /\ ret[r].inspection[v] = "passed"
<1>1. /\ Money(ret, o)[<<r, v>>] = IF counts THEN ret[r].amount[v] ELSE 0
      /\ Brought(ret, o)[<<r, v>>] = IF counts THEN ret[r].quantity[v] ELSE 0
  BY LineValues
<1>2. CASE counts
  <2>1. PICK unit \in ProratedUnitPrice(order[o].unitPrice[v], order[o]) :
           ret[r].amount[v] = unit * ret[r].quantity[v]
    BY <1>2 DEF FairAmounts, FairRow
  <2>2. /\ Money(ret, o)[<<r, v>>] = ret[r].amount[v]
        /\ Brought(ret, o)[<<r, v>>] = ret[r].quantity[v]
    BY <1>1, <1>2
  <2> QED BY <2>1, <2>2
<1>3. CASE ~ counts
  BY <1>1, <1>3
<1> QED BY <1>2, <1>3

\* The same, with what the price of a unit is bounded by.
LEMMA LinePrice ==
    ASSUME TypeOK, SaleRecords, FairAmounts, NEW o \in Orders,
           NEW r \in ReturnIds, NEW v \in Variants
    PROVE  LET row == order[o]
           IN  /\ Brought(ret, o)[<<r, v>>] \in Nat
               /\ \E unit \in Nat :
                     /\ Money(ret, o)[<<r, v>>]
                           = unit * Brought(ret, o)[<<r, v>>]
                     /\ Brought(ret, o)[<<r, v>>] > 0 =>
                           /\ row.discount = 0 => unit = row.unitPrice[v]
                           /\ row.discount > 0 =>
                                 2 * row.subtotal * unit
                                    <= 2 * (row.subtotal - row.discount)
                                         * row.unitPrice[v] + row.subtotal
<1> DEFINE row == order[o]
<1>1. /\ row.subtotal \in Nat /\ row.discount \in Nat
      /\ row.discount <= row.subtotal /\ row.unitPrice[v] \in Nat
  BY DEF TypeOK, OrderRows, Quantities, SaleRecords
<1>2. Brought(ret, o)[<<r, v>>] \in Nat
  BY LineTypes DEF Lines, TypeOK
<1>3. CASE Money(ret, o)[<<r, v>>] = 0 /\ Brought(ret, o)[<<r, v>>] = 0
  BY <1>2, <1>3
<1>4. ASSUME NEW unit \in ProratedUnitPrice(row.unitPrice[v], row),
             Money(ret, o)[<<r, v>>] = unit * Brought(ret, o)[<<r, v>>]
      PROVE  /\ unit \in Nat
             /\ row.discount = 0 => unit = row.unitPrice[v]
             /\ row.discount > 0 =>
                   2 * row.subtotal * unit
                      <= 2 * (row.subtotal - row.discount)
                           * row.unitPrice[v] + row.subtotal
  BY <1>1, ProratedBound
<1> QED BY <1>2, <1>3, <1>4, LineMoney

\* The money of the passed lines of an order against the price of its goods.
LEMMA PassedMoneyBound ==
    ASSUME TypeOK, SaleRecords, FairAmounts, NEW o \in Orders,
           \A v \in Variants : Total(Asked(ret, o, v)) <= order[o].items[v]
    PROVE  2 * Total(Money(ret, o))
              <= 2 * (order[o].subtotal - order[o].discount)
                    + Total(order[o].items)
<1> DEFINE p == order[o].unitPrice
           i == order[o].items
           S == order[o].subtotal
           D == order[o].discount
           M == Total(Money(ret, o))
           T == Total(i)
           goods == [v \in Variants |-> p[v] * i[v]]
<1>1. /\ p \in Quantities /\ i \in Quantities /\ S \in Nat /\ D \in Nat
      /\ ret \in [ReturnIds -> ReturnRows]
  BY DEF TypeOK, OrderRows
<1>2. /\ D <= S /\ S = Total(goods)
      /\ T \in Nat /\ M \in Nat
  BY <1>1, LineTypes, BasketTotal DEF SaleRecords, Goods
<1>3. goods \in [Variants -> Nat]
  <2>1. \A v \in Variants : p[v] * i[v] \in Nat
    BY <1>1 DEF Quantities
  <2> QED BY <2>1
<1>4. ASSUME NEW r \in ReturnIds, NEW v \in Variants
      PROVE  \E unit \in Nat :
                /\ Money(ret, o)[<<r, v>>] = unit * Brought(ret, o)[<<r, v>>]
                /\ Brought(ret, o)[<<r, v>>] \in Nat
                /\ Brought(ret, o)[<<r, v>>] > 0 =>
                      /\ D = 0 => unit = p[v]
                      /\ D > 0 => 2 * S * unit <= 2 * (S - D) * p[v] + S
  BY LinePrice
<1> HIDE DEF S, D, p, i, M
<1>5. CASE D = 0
  <2>1. ASSUME NEW r \in ReturnIds, NEW v \in Variants
        PROVE  1 * Money(ret, o)[<<r, v>>] <= p[v] * Brought(ret, o)[<<r, v>>]
    <3>1. PICK unit \in Nat :
             /\ Money(ret, o)[<<r, v>>] = unit * Brought(ret, o)[<<r, v>>]
             /\ Brought(ret, o)[<<r, v>>] \in Nat
             /\ Brought(ret, o)[<<r, v>>] > 0 => unit = p[v]
      BY <1>4, <1>5
    <3>2. p[v] \in Nat
      BY <1>1 DEF Quantities
    <3>3. CASE Brought(ret, o)[<<r, v>>] > 0
      BY <3>1, <3>2, <3>3
    <3>4. CASE Brought(ret, o)[<<r, v>>] = 0
      BY <3>1, <3>2, <3>4
    <3> QED BY <3>1, <3>3, <3>4
  <2>2. 1 * Total(Money(ret, o)) <= Total(goods)
    BY <1>1, <2>1, WeightedLines DEF Quantities, i
  <2>3. M <= S
    BY <1>2, <2>2 DEF M
  <2> QED BY <1>1, <1>2, <1>5, <2>3 DEF M, S, D, i
<1>6. CASE D > 0
  <2> DEFINE c == [v \in Variants |-> 2 * (S - D) * p[v] + S]
             a == 2 * S
             E == 2 * (S - D)
             dear == [v \in Variants |-> c[v] * i[v]]
             one == [v \in Variants |-> E * goods[v]]
             two == [v \in Variants |-> S * i[v]]
  <2>1. a \in Nat /\ E \in Nat /\ S > 0
    BY <1>1, <1>2, <1>6
  <2>2. c \in [Variants -> Nat]
    <3>1. \A v \in Variants : 2 * (S - D) * p[v] + S \in Nat
      BY <1>1, <1>2 DEF Quantities
    <3> QED BY <3>1
  <2>3. ASSUME NEW r \in ReturnIds, NEW v \in Variants
        PROVE  a * Money(ret, o)[<<r, v>>] <= c[v] * Brought(ret, o)[<<r, v>>]
    <3>1. PICK unit \in Nat :
             /\ Money(ret, o)[<<r, v>>] = unit * Brought(ret, o)[<<r, v>>]
             /\ Brought(ret, o)[<<r, v>>] \in Nat
             /\ Brought(ret, o)[<<r, v>>] > 0 => 2 * S * unit <= c[v]
      BY <1>4, <1>6
    <3>2. c[v] \in Nat
      BY <2>2
    <3> DEFINE q == Brought(ret, o)[<<r, v>>]
    <3>3. CASE q > 0
      <4>1. a * unit <= c[v] /\ a * unit \in Nat
        BY <2>1, <3>1, <3>3
      <4>2. \A x, y, z \in Nat : x <= y => x * z <= y * z
        OBVIOUS
      <4> HIDE DEF a, c, q
      <4>3. q \in Nat /\ Money(ret, o)[<<r, v>>] = unit * q
        BY <3>1 DEF q
      <4>4. (a * unit) * q <= c[v] * q
        BY <3>2, <4>1, <4>2, <4>3
      <4>5. a * (unit * q) = (a * unit) * q
        BY <2>1, <3>1, <4>3
      <4> QED BY <4>3, <4>4, <4>5 DEF q
    <3>4. CASE q = 0
      BY <2>1, <3>1, <3>2, <3>4
    <3> QED BY <3>1, <3>3, <3>4
  <2>4. a * M <= Total(dear)
    <3> HIDE DEF a, c
    <3>1. a * Total(Money(ret, o)) <= Total([v \in Variants |-> c[v] * i[v]])
      BY <1>1, <2>1, <2>2, <2>3, WeightedLines DEF i
    <3> QED BY <3>1 DEF M
  <2>5. Total(dear) = Total(one) + Total(two)
    <3>1. one \in [Variants -> Nat] /\ two \in [Variants -> Nat]
      <4>1. \A v \in Variants : E * goods[v] \in Nat /\ S * i[v] \in Nat
        BY <1>1, <1>3, <2>1 DEF Quantities
      <4> QED BY <4>1
    <3>2. Total([v \in Variants |-> one[v] + two[v]]) = Total(one) + Total(two)
      <4> HIDE DEF one, two
      <4> QED BY <3>1, FiniteTables, TotalPlus
    <3>3. ASSUME NEW v \in Variants PROVE dear[v] = one[v] + two[v]
      <4>1. /\ dear[v] = (E * p[v] + S) * i[v]
            /\ one[v] = E * (p[v] * i[v]) /\ two[v] = S * i[v]
        OBVIOUS
      <4>2. p[v] \in Nat /\ i[v] \in Nat
        BY <1>1 DEF Quantities
      <4> HIDE DEF dear, one, two, E
      <4> QED BY <1>1, <2>1, <4>1, <4>2
    <3>4. dear = [v \in Variants |-> one[v] + two[v]]
      BY <3>3
    <3> QED BY <3>2, <3>4
  <2>6. Total(one) = E * S /\ Total(two) = S * T
    <3> HIDE DEF E, goods
    <3>1. Total(one) = E * Total(goods)
      BY <1>3, <2>1, FiniteTables, TotalTimes
    <3>2. Total(two) = S * Total(i)
      BY <1>1, FiniteTables, TotalTimes DEF Quantities
    <3> QED BY <1>2, <3>1, <3>2
  <2> HIDE DEF dear, one, two
  <2>7. S * (2 * M) <= S * (E + T)
    <3>1. a * M <= E * S + S * T
      BY <2>4, <2>5, <2>6
    <3> HIDE DEF E, T
    <3>2. (2 * S) * M = S * (2 * M) /\ E * S + S * T = S * (E + T)
      BY <1>1, <1>2, <2>1
    <3> QED BY <3>1, <3>2
  <2>8. \A x, y \in Nat, z \in Nat \ {0} : z * x <= z * y => x <= y
    OBVIOUS
  <2>9. 2 * M <= E + T
    <3>1. 2 * M \in Nat /\ E + T \in Nat /\ S \in Nat \ {0}
      BY <1>1, <1>2, <2>1
    <3> HIDE DEF E, T
    <3> QED BY <2>7, <2>8, <3>1
  <2> QED BY <2>9 DEF M, S, D, i
<1> QED BY <1>1, <1>5, <1>6

LEMMA OrderWriters ==
    ASSUME [Next]_vars
    PROVE  UNCHANGED order \/ \E o \in Orders : Sale(o)
<1>1. ASSUME NEW o \in Orders, Fulfil(o) PROVE UNCHANGED order
  BY <1>1 DEF Fulfil, ConfirmOrder, CompleteOrder, CancelOrder, DispatchOrder,
     DeliverOrder, FailDeliveryOrder, FailAttempt, FailLastAttempt
<1>2. ASSUME NEW r \in ReturnIds, ReturnStep(r) PROVE UNCHANGED order
  BY <1>2 DEF ReturnStep, CreateReturn, CancelReturn, ReviewReturn,
     ReceiveReturn, Advance, Resolve, InspectAndResolve, orderVars
<1>3. CASE \/ \E o : WindowElapses(o)
           \/ \E c, p : ReinstateCustomerCod(c, p)
           \/ \E lot : CreateInboundReceipt(lot)
           \/ \E v, p : UpdateVariantPrice(v, p)
           \/ \E row : Switch(row)
           \/ UNCHANGED vars
  BY <1>3 DEF WindowElapses, ReinstateCustomerCod, CreateInboundReceipt,
     UpdateVariantPrice, Switch, orderVars, vars
<1> QED BY <1>1, <1>2, <1>3 DEF Next

LEMMA StepSaleRecords ==
    ASSUME TypeOK, SaleRecords, [Next]_vars
    PROVE  SaleRecords'
<1> DEFINE Right(row) == /\ row.subtotal = Total(Goods(row))
                         /\ row.discount <= row.subtotal
<1>1. ASSUME \A o \in Orders : Right(order'[o]) PROVE SaleRecords'
  BY <1>1 DEF SaleRecords, Goods, Total, Units
<1>2. \A o \in Orders : Right(order[o])
  BY DEF SaleRecords
<1>3. ASSUME NEW o \in Orders, Sale(o) PROVE SaleRecords'
  <2>1. \A x \in Orders \ {o} : order'[x] = order[x]
    BY <1>3 DEF TypeOK, Sale, PlaceOrder, CreatePosTransaction
  <2>2. PICK basket \in Baskets :
           /\ order'[o].unitPrice = price /\ order'[o].items = basket
           /\ order'[o].subtotal = Subtotal(basket)
           /\ \/ order'[o].discount <= order'[o].subtotal
              \/ order'[o].discount = 0
    BY <1>3 DEF TypeOK, Sale, PlaceOrder, CreatePosTransaction
  <2>3. Subtotal(basket) \in Nat
    BY PayloadsValid, SubtotalType
  <2>4. Goods(order'[o]) = [v \in Variants |-> price[v] * basket[v]]
    BY <2>2 DEF Goods
  <2>5. Right(order'[o])
    BY <2>2, <2>3, <2>4 DEF Subtotal
  <2> HIDE DEF Right
  <2> QED BY <1>1, <1>2, <2>1, <2>5
<1>4. CASE UNCHANGED order
  <2> HIDE DEF Right
  <2> QED BY <1>1, <1>2, <1>4
<1> QED BY <1>3, <1>4, OrderWriters

LEMMA StepFairAmounts ==
    ASSUME StatusInv, FairAmounts, [Next]_vars
    PROVE  FairAmounts'
<1>0. /\ ret \in [ReturnIds -> ReturnRows]
      /\ status \in [Orders -> Statuses]
      /\ order \in [Orders -> OrderRows]
  BY DEF StatusInv, TypeOK
<1>1. ASSUME \A r \in ReturnIds :
                ret'[r].status # "none" =>
                   FairRow(ret'[r], order'[ret'[r].order])
      PROVE  FairAmounts'
  BY <1>1 DEF FairAmounts, FairRow, ProratedUnitPrice
<1>2. CASE UNCHANGED <<ret, order>>
  BY <1>1, <1>2 DEF FairAmounts
<1>3. ASSUME NEW o \in Orders, Sale(o) PROVE FairAmounts'
  <2>1. /\ status[o] = "none" /\ UNCHANGED ret
        /\ \A x \in Orders \ {o} : order'[x] = order[x]
    BY <1>0, <1>3 DEF Sale, PlaceOrder, CreatePosTransaction
  <2>2. ASSUME NEW r \in ReturnIds, ret[r].status # "none"
        PROVE  order'[ret[r].order] = order[ret[r].order]
    BY <2>1, <2>2 DEF StatusInv, ReturnsFollowDelivery, AtTheBuyer
  <2> QED BY <1>1, <2>1, <2>2 DEF FairAmounts
<1>4. ASSUME NEW o \in Orders, Fulfil(o) PROVE UNCHANGED <<ret, order>>
  BY <1>4 DEF Fulfil, ConfirmOrder, CompleteOrder, CancelOrder, DispatchOrder,
     DeliverOrder, FailDeliveryOrder, FailAttempt, FailLastAttempt
<1>5. ASSUME NEW r \in ReturnIds, ReturnStep(r) PROVE FairAmounts'
  <2>1. UNCHANGED order /\ \A x \in ReturnIds \ {r} : ret'[x] = ret[x]
    BY <1>0, <1>5 DEF ReturnStep, CreateReturn, CancelReturn, ReviewReturn,
       ReceiveReturn, Advance, Resolve, InspectAndResolve, orderVars
  <2>2. SUFFICES FairRow(ret'[r], order[ret'[r].order])
    BY <1>1, <2>1 DEF FairAmounts
  <2>3. ASSUME NEW o \in Orders, CreateReturn(r, o)
        PROVE  FairRow(ret'[r], order[ret'[r].order])
    <3>1. PICK q \in ReturnChoices(o), unit \in UnitRefunds(o) :
             /\ ret'[r].order = o /\ ret'[r].quantity = q
             /\ ret'[r].amount = [v \in Variants |-> unit[v] * q[v]]
      BY <1>0, <2>3 DEF CreateReturn
    <3>2. \A v \in Variants :
             unit[v] \in ProratedUnitPrice(order[o].unitPrice[v], order[o])
      BY DEF UnitRefunds
    <3> QED BY <3>1, <3>2 DEF FairRow
  <2>4. ASSUME \/ \E from, to : from # "none" /\ Advance(r, from, to)
               \/ \E i : InspectAndResolve(r, i)
        PROVE  FairRow(ret'[r], order[ret'[r].order])
    <3>1. /\ ret[r].status # "none" /\ ret'[r].order = ret[r].order
          /\ ret'[r].quantity = ret[r].quantity
          /\ ret'[r].amount = ret[r].amount
      <4>1. CASE \E from, to : from # "none" /\ Advance(r, from, to)
        BY <1>0, <4>1 DEF Advance, ReturnRows
      <4>2. CASE \E i : InspectAndResolve(r, i)
        BY <4>2, InspectedRow DEF StatusInv
      <4> QED BY <2>4, <4>1, <4>2
    <3>2. FairRow(ret[r], order[ret[r].order])
      BY <3>1 DEF FairAmounts
    <3> QED BY <3>1, <3>2 DEF FairRow
  <2> QED BY <1>5, <2>3, <2>4 DEF ReturnStep, CancelReturn, ReviewReturn,
          ReceiveReturn, Resolve
<1>6. CASE \/ \E o : WindowElapses(o)
           \/ \E c, p : ReinstateCustomerCod(c, p)
           \/ \E lot : CreateInboundReceipt(lot)
           \/ \E v, p : UpdateVariantPrice(v, p)
           \/ \E row : Switch(row)
           \/ UNCHANGED vars
  BY <1>2, <1>6 DEF WindowElapses, ReinstateCustomerCod, CreateInboundReceipt,
     UpdateVariantPrice, Switch, orderVars, vars
<1> QED BY <1>2, <1>3, <1>4, <1>5, <1>6 DEF Next

LEMMA InitMoney == Init => MoneyInv
<1> SUFFICES ASSUME Init PROVE MoneyInv
  OBVIOUS
<1>1. FairAmounts
  BY DEF Init, FairAmounts, NoReturn
<1>2. ASSUME NEW o \in Orders
      PROVE  /\ order[o].subtotal = Total(Goods(order[o]))
             /\ order[o].discount <= order[o].subtotal
  <2> DEFINE g == Goods(order[o])
  <2>1. g \in [Variants -> Nat] /\ \A v \in Variants : g[v] = 0
    BY DEF Init, NoOrder, NoUnits, Goods
  <2>2. order[o].subtotal = 0 /\ order[o].discount = 0
    BY DEF Init, NoOrder
  <2> HIDE DEF g
  <2>3. Total(g) = 0
    BY <2>1, TotalZero
  <2> QED BY <2>2, <2>3 DEF g
<1> QED BY <1>1, <1>2, InitReturns DEF MoneyInv, SaleRecords

LEMMA GoodsBoundRefunds ==
    ASSUME MoneyInv
    PROVE  RefundOnlyGoods
<1> SUFFICES ASSUME NEW o \in Orders, status[o] # "cancelled"
             PROVE  2 * refund[o] <= 2 * (order[o].subtotal - order[o].discount)
                                        + Total(order[o].items)
  BY DEF RefundOnlyGoods
<1>1. /\ TypeOK /\ SaleRecords /\ FairAmounts
      /\ Settled(ret, o, status[o], order[o], refund[o])
  BY BooksByOrder DEF MoneyInv, ReturnInv, StatusInv, Books
<1>2. refund[o] = Lesser(order[o].total, Total(Money(ret, o)))
  BY <1>1 DEF Settled
<1>3. 2 * Total(Money(ret, o))
         <= 2 * (order[o].subtotal - order[o].discount) + Total(order[o].items)
  BY <1>1, PassedMoneyBound DEF Settled
<1>4. /\ order[o] \in OrderRows /\ refund[o] \in Nat
      /\ ret \in [ReturnIds -> ReturnRows]
  BY <1>1 DEF TypeOK
<1>5. /\ Total(Money(ret, o)) \in Nat /\ order[o].total \in Nat
      /\ order[o].subtotal - order[o].discount \in Int
      /\ Total(order[o].items) \in Nat
  BY <1>4, LineTypes, BasketTotal DEF OrderRows
<1> QED BY <1>2, <1>3, <1>4, <1>5 DEF Lesser

\* Beyond half a unit of money of rounding for each unit sold, no sequence of
\* partial returns and price changes pays back more than the goods cost.
THEOREM RefundsPayGoodsOnly == Spec => []RefundOnlyGoods
<1>1. MoneyInv /\ [Next]_vars => MoneyInv'
  BY StepReturns, StepSaleRecords, StepFairAmounts
     DEF MoneyInv, ReturnInv, StatusInv
<1>2. MoneyInv => RefundOnlyGoods
  BY GoodsBoundRefunds
<1> QED BY <1>1, <1>2, InitMoney, PTL DEF Spec
-----------------------------------------------------------------------------
(***************************************************************************)
(* Room to put orders back.                                                *)
(*                                                                         *)
(* opening_on_hand covers what was there and what was received, and the    *)
(* units that online orders hold cover both those that may still be put    *)
(* back and those that came back.  Units of a counter sale that are        *)
(* returned land in the central warehouse without ever having been held    *)
(* there: the theorem holds until the first such return is completed.      *)
(***************************************************************************)
OpeningCovers ==
    \A v \in Variants : InitialStock[Central][v] + received[v] <= opening[v]

\* No request for a counter sale has been completed.
NoCounterReturns ==
    \A r \in ReturnIds :
        ret[r].status = "completed" => IsOnline(ret[r].order)

RoomInv == StockInv /\ ReturnInv /\ OpeningCovers

\* The units of v that order o may still have put back: a row of Restorable.
Open(v, o) ==
    IF status[o] \in {"paid", "confirmed", "shipping"}
    THEN order[o].items[v] ELSE 0

LEMMA OpenWithinHeld ==
    ASSUME TypeOK, UndeliveredAreOnline, NEW v \in Variants, NEW o \in Orders
    PROVE  /\ Open(v, o) \in Nat
           /\ Open(v, o) <= Held(Central, v, o)
           /\ Held(Central, v, o) - Open(v, o) \in Nat
<1>1. order[o].items[v] \in Nat
  BY DEF TypeOK, OrderRows, Quantities
<1>2. CASE status[o] \in {"paid", "confirmed", "shipping"}
  <2>1. Held(Central, v, o) = order[o].items[v] /\ Open(v, o) = order[o].items[v]
    BY <1>2 DEF UndeliveredAreOnline, Held, Holds, Open
  <2> QED BY <1>1, <2>1
<1>3. CASE status[o] \notin {"paid", "confirmed", "shipping"}
  <2>1. Open(v, o) = 0 /\ Held(Central, v, o) \in Nat
    BY <1>3, HeldType DEF Open
  <2> QED BY <2>1
<1> QED BY <1>2, <1>3

\* What came back of one order is held by it and cannot be put back again.
LEMMA TakenOfOrder ==
    ASSUME StatusInv, UndeliveredAreOnline, FreshRequests, NoOverReturn,
           NoCounterReturns, NEW v \in Variants, NEW o \in Orders
    PROVE  Total([r \in ReturnIds |->
                    IF ret[r].order = o THEN Taken(v, r) ELSE 0])
              <= Held(Central, v, o) - Open(v, o)
<1> DEFINE part == [r \in ReturnIds |->
                      IF ret[r].order = o THEN Taken(v, r) ELSE 0]
           room == Held(Central, v, o) - Open(v, o)
<1>0. TypeOK /\ ret \in [ReturnIds -> ReturnRows]
  BY DEF StatusInv, TypeOK
<1>1. part \in [ReturnIds -> Nat]
  BY <1>0, TakenType
<1>2. room \in Nat
  BY <1>0, OpenWithinHeld
<1>3. CASE status[o] \in AtTheBuyer /\ IsOnline(o)
  <2>1. room = order[o].items[v]
    BY <1>0, <1>3 DEF Held, Holds, Open, AtTheBuyer, TypeOK, OrderRows,
       Quantities
  <2>2. \A r \in ReturnIds : part[r] <= Asked(ret, o, v)[r]
    <3> TAKE r \in ReturnIds
    <3>1. ret[r].quantity[v] \in Nat
      BY <1>0 DEF ReturnRows, Quantities
    <3>2. part[r] = IF /\ ret[r].order = o /\ ret[r].status = "completed"
                       /\ ret[r].inspection[v] = "passed"
                    THEN ret[r].quantity[v] ELSE 0
      BY DEF Taken, Passed
    <3>3. Asked(ret, o, v)[r] =
             IF /\ ret[r].order = o
                /\ ret[r].status \notin {"cancelled", "rejected"}
             THEN ret[r].quantity[v] ELSE 0
      BY DEF Asked
    <3> HIDE DEF part
    <3>4. CASE ret[r].status = "completed"
      BY <3>1, <3>2, <3>3, <3>4
    <3>5. CASE ret[r].status # "completed"
      BY <3>1, <3>2, <3>3, <3>5
    <3> QED BY <3>4, <3>5
  <2>3. Total(Asked(ret, o, v)) <= order[o].items[v]
    BY DEF NoOverReturn, Asked
  <2>4. /\ Asked(ret, o, v) \in [ReturnIds -> Nat]
        /\ Total(Asked(ret, o, v)) \in Nat
    BY <1>0, AskedType
  <2> HIDE DEF part, room
  <2>5. Total(part) <= Total(Asked(ret, o, v)) /\ Total(part) \in Nat
    BY <1>1, <2>2, <2>4, FiniteTables, TotalMonotone, TotalType
  <2> SUFFICES Total(part) <= room
    BY DEF part, room
  <2> QED BY <1>2, <2>1, <2>3, <2>4, <2>5
<1>4. CASE ~ (status[o] \in AtTheBuyer /\ IsOnline(o))
  <2>1. \A r \in ReturnIds : part[r] = 0
    <3>1. ASSUME NEW r \in ReturnIds, ret[r].order = o PROVE Taken(v, r) = 0
      <4>1. ret[r].status # "completed"
        BY <1>4, <3>1 DEF StatusInv, ReturnsFollowDelivery, NoCounterReturns
      <4> QED BY <4>1 DEF Taken
    <3> QED BY <3>1
  <2> HIDE DEF part, room
  <2>2. Total(part) = 0
    BY <1>1, <2>1, TotalZero
  <2> SUFFICES Total(part) <= room
    BY DEF part, room
  <2> QED BY <1>2, <2>2
<1> QED BY <1>3, <1>4

LEMMA OpenAndTakenAreHeld ==
    ASSUME RoomInv, NoCounterReturns, NEW v \in Variants
    PROVE  /\ Restorable(v) \in Nat /\ TakenBack(v) \in Nat
           /\ Restorable(v) + TakenBack(v) <= HeldFrom(Central, v)
<1> DEFINE held == [o \in Orders |-> Held(Central, v, o)]
           open == [o \in Orders |-> Open(v, o)]
           room == [o \in Orders |-> Held(Central, v, o) - Open(v, o)]
           back == [r \in ReturnIds |-> Taken(v, r)]
           key == [r \in ReturnIds |-> ret[r].order]
<1>1. /\ TypeOK /\ StatusInv /\ UndeliveredAreOnline /\ FreshRequests
      /\ NoOverReturn
  BY DEF RoomInv, StockInv, StatusInv, ReturnInv
<1>2. /\ open \in [Orders -> Nat] /\ room \in [Orders -> Nat]
      /\ back \in [ReturnIds -> Nat]
  BY <1>1, OpenWithinHeld, TakenType
<1>3. /\ HeldFrom(Central, v) = Total(held)
      /\ Restorable(v) = Total(open) /\ TakenBack(v) = Total(back)
  BY DEF HeldFrom, Held, Restorable, Open, TakenBack, Taken
<1>4. \A o \in Orders : Total(Group(back, key, o)) <= room[o]
  <2> TAKE o \in Orders
  <2>1. Group(back, key, o)
           = [r \in ReturnIds |-> IF ret[r].order = o THEN Taken(v, r) ELSE 0]
    BY DEF Group
  <2> QED BY <1>1, <2>1, TakenOfOrder
<1>5. \A r \in ReturnIds : back[r] > 0 => key[r] \in Orders
  <2> SUFFICES ASSUME NEW r \in ReturnIds, Taken(v, r) > 0
               PROVE  ret[r].order \in Orders
    OBVIOUS
  <2>1. ret[r].status # "none"
    BY DEF Taken
  <2> QED BY <1>1, <2>1 DEF StatusInv, ReturnsFollowDelivery
<1>6. held = [o \in Orders |-> open[o] + room[o]]
  <2>1. ASSUME NEW o \in Orders
        PROVE  Held(Central, v, o)
                  = Open(v, o) + (Held(Central, v, o) - Open(v, o))
    <3>1. Held(Central, v, o) \in Nat /\ Open(v, o) \in Nat
      BY <1>1, HeldType, OpenWithinHeld
    <3> QED BY <3>1
  <2> QED BY <2>1
<1> HIDE DEF held, open, room, back, key
<1>7. Total(back) <= Total(room)
  BY <1>2, <1>4, <1>5, FiniteTables, TotalOfGroups
<1>8. Total(held) = Total(open) + Total(room)
  BY <1>2, <1>6, FiniteTables, TotalPlus
<1>9. Total(back) \in Nat /\ Total(open) \in Nat /\ Total(room) \in Nat
  BY <1>2, FiniteTables, TotalType
<1> QED BY <1>3, <1>7, <1>8, <1>9

LEMMA StepOpening ==
    ASSUME TypeOK, TypeOK', OpeningCovers, [Next]_vars
    PROVE  OpeningCovers'
<1>0. \A v \in Variants : /\ InitialStock[Central][v] \in Nat
                          /\ received[v] \in Nat /\ opening[v] \in Nat
                          /\ opening'[v] \in Nat
  BY InitialTables DEF TypeOK, Quantities, Locations
<1>1. CASE UNCHANGED <<received, opening>>
  BY <1>1 DEF OpeningCovers
<1>2. ASSUME NEW lot \in Lots, CreateInboundReceipt(lot) PROVE OpeningCovers'
  <2>1. \A v \in Variants : /\ lot[v] \in Nat
                            /\ received'[v] = received[v] + lot[v]
                            /\ opening'[v] = opening[v] + lot[v]
    BY <1>2, PayloadsValid DEF CreateInboundReceipt, Quantities
  <2> QED BY <1>0, <2>1 DEF OpeningCovers
<1>3. ASSUME NEW r \in ReturnIds, NEW i, InspectAndResolve(r, i)
      PROVE  OpeningCovers'
  <2>1. /\ UNCHANGED received
        /\ \E units : opening' = [v \in Variants |-> IF units[v] > 0
                         THEN Greater(opening[v], stock[Central][v] + units[v])
                         ELSE opening[v]]
    BY <1>3 DEF InspectAndResolve, Restock
  <2>2. \A v \in Variants : opening[v] <= opening'[v]
    <3> TAKE v \in Variants
    <3>1. \/ opening'[v] = opening[v]
          \/ \E x : opening'[v] = Greater(opening[v], x)
      BY <2>1
    <3> QED BY <1>0, <3>1 DEF Greater
  <2> QED BY <1>0, <2>1, <2>2 DEF OpeningCovers
<1>4. ASSUME NEW o \in Orders, Sale(o) \/ Fulfil(o)
      PROVE  UNCHANGED <<received, opening>>
  BY <1>4 DEF Sale, PlaceOrder, CreatePosTransaction, Fulfil, ConfirmOrder,
     CompleteOrder, CancelOrder, DispatchOrder, DeliverOrder,
     FailDeliveryOrder, FailAttempt, FailLastAttempt, stockVars
<1>5. ASSUME NEW r \in ReturnIds, ReturnStep(r), ~ Resolve(r)
      PROVE  UNCHANGED <<received, opening>>
  BY <1>5 DEF ReturnStep, CreateReturn, CancelReturn, ReviewReturn,
     ReceiveReturn, Advance, stockVars
<1>6. CASE \/ \E o : WindowElapses(o)
           \/ \E c, p : ReinstateCustomerCod(c, p)
           \/ \E v, p : UpdateVariantPrice(v, p)
           \/ \E row : Switch(row)
           \/ UNCHANGED vars
  BY <1>1, <1>6 DEF WindowElapses, ReinstateCustomerCod, UpdateVariantPrice,
     Switch, stockVars, vars
<1> QED BY <1>1, <1>2, <1>3, <1>4, <1>5, <1>6 DEF Next, Resolve

LEMMA StepRoom == RoomInv /\ [Next]_vars => RoomInv'
<1> SUFFICES ASSUME RoomInv, [Next]_vars PROVE RoomInv'
  OBVIOUS
<1>1. StockInv /\ ReturnInv /\ TypeOK /\ OpeningCovers
  BY DEF RoomInv, StockInv, StatusInv
<1>2. StockInv'
  BY <1>1, StepBalance, StepUndelivered, StepStatusInv DEF StockInv
<1>3. ReturnInv' /\ TypeOK'
  BY <1>1, StepReturns DEF ReturnInv, StatusInv
<1> QED BY <1>1, <1>2, <1>3, StepOpening DEF RoomInv

LEMMA InitRoom == Init => RoomInv
<1> SUFFICES ASSUME Init PROVE RoomInv
  OBVIOUS
<1>1. OpeningCovers
  <2>1. \A v \in Variants : InitialStock[Central][v] \in Nat
    BY InitialTables DEF Locations, Quantities
  <2> QED BY <2>1 DEF Init, OpeningCovers, NoUnits
<1> QED BY <1>1, InitStockInv, InitReturns DEF RoomInv

LEMMA RoomFromInv ==
    ASSUME RoomInv, NoCounterReturns
    PROVE  RoomToRestore
<1> SUFFICES ASSUME NEW v \in Variants
             PROVE  stock[Central][v] + Restorable(v) <= opening[v]
  BY DEF RoomToRestore
<1>1. /\ stock[Central][v] \in Nat /\ opening[v] \in Nat
      /\ received[v] \in Nat /\ InitialStock[Central][v] \in Nat
  BY InitialTables DEF RoomInv, StockInv, StatusInv, TypeOK, Quantities,
     Locations
<1>2. stock[Central][v] + HeldFrom(Central, v)
         = InitialStock[Central][v] + received[v] + TakenBack(v)
  BY DEF RoomInv, StockInv, StockConserved
<1>3. InitialStock[Central][v] + received[v] <= opening[v]
  BY DEF RoomInv, OpeningCovers
<1>4. HeldFrom(Central, v) \in Nat
  BY SumTypes DEF RoomInv, StockInv, StatusInv
<1> QED BY <1>1, <1>2, <1>3, <1>4, OpenAndTakenAreHeld

\* Until a counter sale is returned, every undelivered order can be put back
\* under opening_on_hand: no cancellation and no third failed delivery is
\* ever stopped for want of room.
THEOREM RoomWithoutCounterReturns ==
    Spec => [](NoCounterReturns => RoomToRestore)
<1>1. RoomInv => (NoCounterReturns => RoomToRestore)
  BY RoomFromInv
<1> QED BY <1>1, InitRoom, StepRoom, PTL DEF Spec

\* A shop without stores has no counter sales, and always has room.
THEOREM OnlineShopHasRoom ==
    ASSUME Stores = {}
    PROVE  Spec => []RoomToRestore
<1>1. RoomInv => NoCounterReturns
  <2> SUFFICES ASSUME RoomInv, NEW r \in ReturnIds, ret[r].status = "completed"
               PROVE  IsOnline(ret[r].order)
    BY DEF NoCounterReturns
  <2>1. ret[r].order \in Orders /\ order \in [Orders -> OrderRows]
    BY DEF RoomInv, StockInv, StatusInv, TypeOK, ReturnsFollowDelivery
  <2> QED BY <2>1 DEF OrderRows, IsOnline
<1>2. RoomInv => RoomToRestore
  BY <1>1, RoomFromInv
<1> QED BY <1>2, InitRoom, StepRoom, PTL DEF Spec
=============================================================================
