---------------------------- MODULE OrderService ----------------------------
(***************************************************************************)
(* What the API does to an order and to its return request when a page asks *)
(* for it: the guards of modules/orders and modules/returns as a page meets *)
(* them, without stock, money and coupons, which are in Shop.               *)
(*                                                                         *)
(* server.orders maps an order number to                                   *)
(*   status, attempts   the order and its failed deliveries                *)
(*   old                its return window has closed                       *)
(*   reviewed           the lines with a review                            *)
(*   ret                its latest return request, or None                 *)
(*   back, good         units in completed requests, and those that passed *)
(*   active             how many of its requests stand at the same time    *)
(***************************************************************************)
EXTENDS Tab

CONSTANTS
    OrderNumbers,
    Lines,          \* of an order
    Bought,         \* [Lines -> quantities]
    Couriers        \* delivery staff

ASSUME SomeOrders == OrderNumbers # {}
ASSUME BoughtCounted == Bought \in [Lines -> Nat]

\* What a request for a return may be.
ReturnRequests ==
    [status : {"pending_review", "approved", "goods_received", "completed",
               "rejected", "cancelled"},
     goods : [Lines -> Nat],
     verdict : [Lines -> {"pending", "passed", "failed"}]]

ASSUME NoneIsNoRequest == None \notin ReturnRequests

\* The order of a page that shows one.
MyOrder == CHOOSE n \in OrderNumbers : TRUE

NoGoods == [l \in Lines |-> 0]

StandingReturn(r) ==
    r # None /\ r.status \in {"pending_review", "approved", "goods_received"}

NewOrder(status) ==
    [status |-> status, attempts |-> 0, old |-> FALSE, reviewed |-> {},
     ret |-> None, back |-> NoGoods, good |-> NoGoods, active |-> 0]

\* A request of a page: what to do to which order, and with what.
Op(do, n, what) == [do |-> do, order |-> n, what |-> what]

\* Mutant: requests that stand are not looked for.
NoneLookedFor(row) == TRUE

\* Only one request of an order stands at a time.
NoneStands(row) == row.active = 0

Accepted(op) ==
    LET row == server.orders[op.order]
        status == row.status
    IN  CASE op.do = "confirm" -> status \in {"paid", "confirmed"}
          [] op.do = "cancel" -> status \in {"paid", "cancelled"}
          [] op.do = "dispatch" ->
                status \in {"paid", "confirmed"} /\ op.what \in server.couriers
          [] op.do = "deliver" -> status \in {"shipping", "delivered"}
          [] op.do = "fail" -> status \in {"shipping", "failed_delivery"}
          [] op.do = "complete" -> status \in {"delivered", "completed"}
          [] op.do = "review" -> status = "completed" /\ op.what \notin row.reviewed
          [] op.do = "return" ->
                /\ status \in {"delivered", "completed"} /\ ~row.old
                /\ NoneStands(row)
                /\ \A l \in Lines : op.what[l] <= Bought[l] - row.back[l]
          [] op.do \in {"cancelReturn", "approve", "reject"} ->
                row.ret # None /\ row.ret.status = "pending_review"
          [] op.do = "receive" -> row.ret # None /\ row.ret.status = "approved"
          [] op.do = "inspect" ->
                row.ret # None /\ row.ret.status \in {"goods_received", "completed"}

\* A third failed attempt is final.
Failed(row) ==
    IF row.status = "failed_delivery" THEN row
    ELSE [row EXCEPT !.attempts = @ + 1,
                     !.status = IF row.attempts = 2 THEN "failed_delivery" ELSE @]

Requested(row, goods) ==
    [row EXCEPT !.ret = [status |-> "pending_review", goods |-> goods,
                         verdict |-> [l \in Lines |-> "pending"]],
                !.active = @ + 1]

\* The verdicts are for some of the lines; "pending" stays.
Inspected(row, verdict) ==
    LET goods == row.ret.goods
        good == [l \in Lines |->
                    row.good[l] + IF verdict[l] = "passed" THEN goods[l] ELSE 0]
    IN  IF row.ret.status = "completed" THEN row
        ELSE [row EXCEPT
                !.ret = [status |-> "completed", goods |-> goods,
                         verdict |-> verdict],
                !.active = @ - 1,
                !.back = [l \in Lines |-> @[l] + goods[l]],
                !.good = good,
                !.status = IF \A l \in Lines : good[l] = Bought[l]
                           THEN "returned" ELSE @]

Closed(row, status) == [row EXCEPT !.ret.status = status, !.active = @ - 1]

\* The row after an accepted request.
After(op) ==
    LET row == server.orders[op.order]
    IN  CASE op.do = "confirm" -> [row EXCEPT !.status = "confirmed"]
          [] op.do = "cancel" -> [row EXCEPT !.status = "cancelled"]
          [] op.do = "dispatch" -> [row EXCEPT !.status = "shipping"]
          [] op.do = "deliver" -> [row EXCEPT !.status = "delivered"]
          [] op.do = "fail" -> Failed(row)
          [] op.do = "complete" ->
                [row EXCEPT !.status = "completed",
                            !.old = IF row.status = "completed" THEN @ ELSE FALSE]
          [] op.do = "review" -> [row EXCEPT !.reviewed = @ \cup {op.what}]
          [] op.do = "return" -> Requested(row, op.what)
          [] op.do = "cancelReturn" -> Closed(row, "cancelled")
          [] op.do = "approve" -> [row EXCEPT !.ret.status = "approved"]
          [] op.do = "reject" -> Closed(row, "rejected")
          [] op.do = "receive" -> [row EXCEPT !.ret.status = "goods_received"]
          [] op.do = "inspect" -> Inspected(row, op.what)

\* The API handles a change that a page has sent, whose handler may navigate.
ActServed(i, navigates) ==
    /\ calls[i].op = "act"
    /\ LET op == calls[i].arg.op
       IN  IF Accepted(op)
           THEN /\ server' = [server EXCEPT !.orders[op.order] = After(op)]
                /\ LET row == server'.orders[op.order]
                   IN  IF navigates THEN ActedLate(i, row) ELSE Acted(i, row)
           ELSE /\ Rejected(i)
                /\ UNCHANGED server
    /\ UNCHANGED <<area, view>>

\* get_order_detail, list_admin_orders and the details of a return, all of
\* which a page takes from the rows of its orders.
OrdersRead(i) ==
    /\ Asked(i, "rows")
    /\ Reply(i, server.orders)
    /\ UNCHANGED <<area, view, server>>

\* What anyone else may ask for in the meantime.
Elsewhere(ops) ==
    /\ \E op \in ops :
          /\ Accepted(op) /\ After(op) # server.orders[op.order]
          /\ server' = [server EXCEPT !.orders[op.order] = After(op)]
    /\ UNCHANGED <<area, view, calls>>

\* Seven days go by since an order was delivered, or completed.
WindowCloses ==
    /\ \E n \in DOMAIN server.orders :
          /\ server.orders[n].status \in {"delivered", "completed"}
          /\ ~server.orders[n].old
          /\ server' = [server EXCEPT !.orders[n].old = TRUE]
    /\ UNCHANGED <<area, view, calls>>
=============================================================================
