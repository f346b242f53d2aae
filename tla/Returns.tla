------------------------------ MODULE Returns -------------------------------
(***************************************************************************)
(* Customer returns (returns/service.py): a request is created by the      *)
(* owner of a delivered order, cancelled by the owner or reviewed by an    *)
(* admin, received at the warehouse, and resolved by an inspection that    *)
(* restocks, refunds, and may turn the order into "returned".              *)
(***************************************************************************)
EXTENDS ShopTables

ActiveReturnStatuses == {"pending_review", "approved", "goods_received"}
DeadReturnStatuses == {"cancelled", "rejected"}

ReturnsOf(o) == {r \in ReturnIds : ret[r].order = o}

\* _compute_prorated_unit_price: round(unit * (1 - discount / subtotal)) in
\* floating point, which on an exact half may give either neighbour.
ProratedUnitPrice(unit, row) ==
    IF row.subtotal > 0 /\ row.discount > 0
    THEN LET error(n) == 2 * (n * row.subtotal
                                - unit * (row.subtotal - row.discount))
         IN  {n \in 0 .. unit :
                -row.subtotal <= error(n) /\ error(n) <= row.subtotal}
    ELSE {unit}

\* Mutant: completed requests no longer count.
AlreadyReturning(o, v) ==
    Total([r \in ReturnIds |->
             IF ret[r].order = o /\ ret[r].status \in ActiveReturnStatuses
             THEN ret[r].quantity[v] ELSE 0])

\* The units of variant v of order o in a request that may still stand.
AlreadyReturned(o, v) ==
    Total([r \in ReturnIds |->
             IF ret[r].order = o /\ ret[r].status \notin DeadReturnStatuses
             THEN ret[r].quantity[v] ELSE 0])

\* The quantities a payload may ask for: some line, none above what is left.
ReturnChoices(o) ==
    {q \in [Variants -> 0 .. Total(order[o].items)] :
        /\ q # NoUnits
        /\ \A v \in Contents(q) :
              q[v] <= order[o].items[v] - AlreadyReturned(o, v)}

\* Mutant: the price of today instead of the price paid.
UnitRefundsToday(o) ==
    {unit \in [Variants -> 0 .. Total(price)] :
        \A v \in Variants :
            unit[v] \in ProratedUnitPrice(price[v], order[o])}

\* What one unit of each line may be refunded with.
UnitRefunds(o) ==
    {unit \in [Variants -> 0 .. Total(order[o].unitPrice)] :
        \A v \in Variants :
            unit[v] \in ProratedUnitPrice(order[o].unitPrice[v], order[o])}

\* create_customer_return_request
CreateReturn(r, o) ==
    /\ ret[r].status = "none"
    /\ order[o].customer \in active
    /\ status[o] \in {"delivered", "completed"}
    /\ window[o] \in {"open", "reopened"}
    /\ \A r2 \in ReturnsOf(o) : ret[r2].status \notin ActiveReturnStatuses
    /\ \E q \in ReturnChoices(o), unit \in UnitRefunds(o) :
          ret' = [ret EXCEPT ![r] =
             [order |-> o, status |-> "pending_review", quantity |-> q,
              amount |-> [v \in Variants |-> unit[v] * q[v]],
              inspection |-> [v \in Variants |-> "pending"]]]
    /\ UNCHANGED <<catalogVars, stockVars, couponVars, codVars, orderVars>>

Advance(r, from, to) ==
    /\ ret[r].status = from
    /\ ret' = [ret EXCEPT ![r].status = to]
    /\ UNCHANGED <<catalogVars, stockVars, couponVars, codVars, orderVars>>

\* cancel_customer_return_request, by the owner.
CancelReturn(r) ==
    /\ Advance(r, "pending_review", "cancelled")
    /\ order[ret[r].order].customer \in active

\* review_admin_return
ReviewReturn(r) ==
    \E action \in {"approved", "rejected"} :
        Advance(r, "pending_review", action)

\* receive_admin_return
ReceiveReturn(r) == Advance(r, "approved", "goods_received")

\* The units and the money of the lines of a request that passed inspection.
Passed(row, column) ==
    [v \in Variants |-> IF row.inspection[v] = "passed" THEN column[v] ELSE 0]

\* The units of order o that its completed requests brought back.
PassedUnits(rows, o) ==
    Total([rv \in ReturnIds \X Variants |->
             IF rows[rv[1]].order = o /\ rows[rv[1]].status = "completed"
             THEN Passed(rows[rv[1]], rows[rv[1]].quantity)[rv[2]] ELSE 0])

\* Mutant: a failed inspection counts as a unit brought back.
FullyInspected(rows, o) ==
    Total([rv \in ReturnIds \X Variants |->
             IF rows[rv[1]].order = o /\ rows[rv[1]].status = "completed"
             THEN rows[rv[1]].quantity[rv[2]] ELSE 0])
        >= Total(order[o].items)

FullyReturned(rows, o) == PassedUnits(rows, o) >= Total(order[o].items)

\* An inspection payload: a verdict for some lines of the request.  A line
\* it does not list stays "pending".
Verdicts(r) ==
    {i \in [Variants -> {"pending", "passed", "failed"}] :
        /\ \E v \in Variants : i[v] # "pending"
        /\ \A v \in Variants : i[v] # "pending" => ret[r].quantity[v] > 0}

\* Restocking passed lines, which lifts opening_on_hand when it is exceeded.
Restock(units) ==
    /\ Move(Central, units)
    /\ opening' = [v \in Variants |-> IF units[v] > 0
                     THEN Greater(opening[v], stock[Central][v] + units[v])
                     ELSE opening[v]]

\* Mutant: a later request overwrites the refund of an earlier one.
RefundOverwritten(o, amount) ==
    refund' = [refund EXCEPT ![o] =
        IF amount > 0 THEN Lesser(order[o].total, amount) ELSE @]

\* One refund row for each payment: created with, or raised by, the amount.
GrantRefund(o, amount) ==
    refund' = [refund EXCEPT ![o] =
        IF amount > 0 THEN Lesser(order[o].total, @ + amount) ELSE @]

\* Mutant: a return of an order that the buyer has not completed is refused.
CloseCompletedOrder(o) ==
    /\ status[o] = "completed"
    /\ IsOnline(o)
    /\ status' = [status EXCEPT ![o] = "returned"]

\* The order of the last unit to come back.  The CHECK pos_completion on
\* orders allows no status but "completed" to a counter sale, and rolls back
\* the transaction that would write "returned" there.
CloseReturnedOrder(o) ==
    /\ IsOnline(o)
    /\ status' = [status EXCEPT ![o] = "returned"]

\* inspect_and_resolve_admin_return
InspectAndResolve(r, inspection) ==
    LET o == ret[r].order
        rows == [ret EXCEPT ![r].status = "completed",
                            ![r].inspection = inspection]
    IN
    /\ ret[r].status = "goods_received"
    /\ ret' = rows
    /\ Restock(Passed(rows[r], rows[r].quantity))
    /\ GrantRefund(o, Total(Passed(rows[r], rows[r].amount)))
    /\ IF FullyReturned(rows, o)
       THEN CloseReturnedOrder(o)
       ELSE UNCHANGED status
    /\ UNCHANGED <<catalogVars, received, couponVars, codVars, order, window,
                   payment, shipment>>

Resolve(r) == \E i \in Verdicts(r) : InspectAndResolve(r, i)

ReturnStep(r) ==
    \/ \E o \in Orders : CreateReturn(r, o)
    \/ CancelReturn(r)
    \/ ReviewReturn(r)
    \/ ReceiveReturn(r)
    \/ Resolve(r)
=============================================================================
