----------------------------- MODULE OrderPages -----------------------------
(***************************************************************************)
(* A customer's orders: the list, the page of an order with its reviews and *)
(* its return form (CreateReturnModal), and the page of a return.          *)
(*                                                                         *)
(* The customer has one order.  A page keeps the row it loaded last        *)
(* (`row`); the fields of a form that are only checked for being filled in  *)
(* are left out.                                                           *)
(***************************************************************************)
EXTENDS OrderService

CONSTANTS
    MaxActs,        \* bound on what the customer does
    MyStart         \* rows the order may be in when the tab is opened

ASSUME StartsUnreturned ==
    \A row \in MyStart : row.status \in STRING /\ row = NewOrder(row.status)

Idle == [l \in Lines |-> FALSE]

OrderMounted ==
    [page |-> "order", row |-> None, cancelling |-> FALSE, completing |-> FALSE,
     reviewing |-> Idle, form |-> None, acts |-> view.acts]

ReturnMounted(acts) ==
    [page |-> "return", row |-> None, loading |-> TRUE, asking |-> FALSE,
     cancelling |-> FALSE, acts |-> acts]

Act(do, what, for) == [op |-> Op(do, MyOrder, what), for |-> for]

\* The customer does something, once more.
May(page) == view.page = page /\ view.acts < MaxActs

Acts == [view EXCEPT !.acts = @ + 1]

-----------------------------------------------------------------------------
(* Going from page to page.  What was asked for is still done.             *)

OpenOrders ==
    /\ view.page = "blank"
    /\ Send("rows", [for |-> "mount"])
    /\ view' = [page |-> "orders", row |-> None, loading |-> TRUE, acts |-> 0]
    /\ UNCHANGED <<area, server>>

OrdersListed(i) ==
    /\ view.page = "orders"
    /\ Returns(i, "rows") \/ Throws(i, "rows")
    /\ Finish(i)
    /\ view' = [view EXCEPT
                  !.row = IF Returns(i, "rows") THEN calls[i].ans[MyOrder] ELSE @,
                  !.loading = FALSE]
    /\ UNCHANGED <<area, server>>

Mounts(v) ==
    /\ calls' = Sent(Orphaned(calls), "rows", [for |-> "mount"])
    /\ \E i \in Slots : Orphaned(calls)[i].op = "none"
    /\ view' = v
    /\ UNCHANGED <<area, server>>

\* Links: from the list and from a return to the order, from the order to
\* its return request.
GoToOrder ==
    /\ view.page \in {"orders", "return"}
    /\ view.row # None
    /\ Mounts(OrderMounted)

GoToReturn ==
    /\ May("order")
    /\ view.row # None /\ view.row.ret # None
    /\ Mounts(ReturnMounted(view.acts + 1))

-----------------------------------------------------------------------------
(* The page of an order.                                                   *)

\* Mutant: the request that stands is not looked at.
EligibleAnyway(row, isWithin7Days) ==
    row.status \in {"delivered", "completed"} /\ isWithin7Days

\* isEligibleForReturn.  The page counts the seven days by itself: from
\* completed_at, delivered_at or created_at, which it reads as local times
\* although they are UTC, to the clock of the browser.  The API counts from
\* completed_at or updated_at, in UTC (`old` of its row).  Neither result
\* follows from the other, so isWithin7Days may be either at any time.
EligibleForReturn(row, isWithin7Days) ==
    /\ row.status \in {"delivered", "completed"}
    /\ isWithin7Days
    /\ row.ret # None => row.ret.status \in {"cancelled", "rejected"}

CanCancel(v) == v.row # None /\ v.row.status = "paid"
CanComplete(v) == v.row # None /\ v.row.status = "delivered"
CanReview(v, l) == v.row # None /\ v.row.status = "completed" /\ l \notin v.row.reviewed
CanReturn(v, isWithin7Days) ==
    v.row # None /\ EligibleForReturn(v.row, isWithin7Days)

CancelMyOrder ==
    /\ May("order")
    /\ CanCancel(view) /\ ~view.cancelling
    /\ Send("act", Act("cancel", None, "cancel"))
    /\ view' = [Acts EXCEPT !.cancelling = TRUE]
    /\ UNCHANGED <<area, server>>

CompleteMyOrder ==
    /\ May("order")
    /\ CanComplete(view) /\ ~view.completing
    /\ Send("act", Act("complete", None, "complete"))
    /\ view' = [Acts EXCEPT !.completing = TRUE]
    /\ UNCHANGED <<area, server>>

\* ReviewForm, one for each line.
SubmitReview ==
    /\ May("order")
    /\ \E l \in Lines :
          /\ CanReview(view, l) /\ ~view.reviewing[l]
          /\ Send("act", Act("review", l, "review"))
          /\ view' = [Acts EXCEPT !.reviewing[l] = TRUE]
    /\ UNCHANGED <<area, server>>

\* The `finally` of the handler whose request was a.
Settled(v, a) ==
    CASE a.for = "cancel" -> [v EXCEPT !.cancelling = FALSE]
      [] a.for = "complete" -> [v EXCEPT !.completing = FALSE]
      [] a.for = "review" -> [v EXCEPT !.reviewing[a.op.what] = FALSE]
      [] a.for = "form" ->
            [v EXCEPT !.form = IF @ = None THEN None
                               ELSE [@ EXCEPT !.submitting = FALSE]]
      [] a.for = "mount" -> v

OrderActSettles(i) ==
    /\ view.page = "order"
    /\ \/ /\ Returns(i, "act") /\ calls[i].arg.for # "form"
          /\ Continue(i, "rows", calls[i].arg)
          /\ UNCHANGED view
       \/ /\ Throws(i, "act")
          /\ Finish(i)
          /\ view' = Settled(view, calls[i].arg)
    /\ UNCHANGED <<area, server>>

\* What the form starts with when it is opened or the order was loaded anew.
FreshForm == [goods |-> Bought, submitting |-> FALSE]

\* load; it catches what its request throws.  An order of the shop has its
\* shipment in the answer from the day it is dispatched.
OrderLoads(i) ==
    /\ view.page = "order"
    /\ Returns(i, "rows") \/ Throws(i, "rows")
    /\ Finish(i)
    /\ view' = Settled(IF Throws(i, "rows") THEN view
                       ELSE [view EXCEPT
                               !.row = calls[i].ans[MyOrder],
                               !.form = IF @ = None THEN None ELSE FreshForm],
                       calls[i].arg)
    /\ UNCHANGED <<area, server>>

-----------------------------------------------------------------------------
(* CreateReturnModal.  It stays open when the order is no longer eligible,  *)
(* and it can be closed while it is submitting.                            *)

OpenReturnForm ==
    /\ view.page = "order"
    /\ \E isWithin7Days \in BOOLEAN : CanReturn(view, isWithin7Days)
    /\ view.form = None
    /\ view' = [view EXCEPT !.form = FreshForm]
    /\ UNCHANGED <<area, calls, server>>

CloseReturnForm ==
    /\ view.page = "order" /\ view.form # None
    /\ view' = [view EXCEPT !.form = None]
    /\ UNCHANGED <<area, calls, server>>

\* toggleItem and handleQuantityChange; a line not selected has no units.
ChangeGoods ==
    /\ May("order") /\ view.form # None
    /\ \E l \in Lines :
          \E q \in (0 .. Bought[l]) \ {view.form.goods[l]} :
              view' = [Acts EXCEPT !.form.goods[l] = q]
    /\ UNCHANGED <<area, calls, server>>

\* handleSubmit, with a new key each time.
SubmitReturn ==
    /\ May("order") /\ view.form # None
    /\ ~view.form.submitting
    /\ view.form.goods # NoGoods
    /\ Send("act", Act("return", view.form.goods, "form"))
    /\ view' = [Acts EXCEPT !.form.submitting = TRUE]
    /\ UNCHANGED <<area, server>>

\* onClose, onSuccess and router.push to the return, wherever the tab is.
ReturnCreated(i) ==
    /\ Returns(i, "act") /\ calls[i].arg.for = "form"
    /\ calls' = [Orphaned(calls) EXCEPT ![i] =
                    [op |-> "rows", arg |-> [for |-> "mount"], phase |-> "sent"]]
    /\ view' = ReturnMounted(view.acts)
    /\ UNCHANGED <<area, server>>

-----------------------------------------------------------------------------
(* The page of a return.                                                   *)

ReturnLoads(i) ==
    /\ view.page = "return"
    /\ Returns(i, "rows") \/ Throws(i, "rows")
    /\ Finish(i)
    /\ view' = [view EXCEPT
                  !.row = IF Returns(i, "rows") THEN calls[i].ans[MyOrder] ELSE @,
                  !.loading = FALSE]
    /\ UNCHANGED <<area, server>>

\* The bar that asks again is not closed when the request changes under it.
AskToCancel ==
    /\ view.page = "return" /\ view.row # None
    /\ IF view.asking THEN ~view.cancelling
       ELSE view.row.ret.status = "pending_review"
    /\ view' = [view EXCEPT !.asking = ~@]
    /\ UNCHANGED <<area, calls, server>>

CancelReturnRequest ==
    /\ May("return") /\ view.row # None
    /\ view.asking /\ ~view.cancelling
    /\ Send("act", Act("cancelReturn", None, "bar"))
    /\ view' = [Acts EXCEPT !.cancelling = TRUE]
    /\ UNCHANGED <<area, server>>

ReturnActSettles(i) ==
    /\ view.page = "return"
    /\ calls[i].op = "act" /\ calls[i].arg.for = "bar"
    /\ \/ /\ Returns(i, "act")
          /\ view' = [view EXCEPT !.row = calls[i].ans, !.asking = FALSE,
                                  !.cancelling = FALSE]
       \/ /\ Throws(i, "act")
          /\ view' = [view EXCEPT !.cancelling = FALSE]
    /\ Finish(i)
    /\ UNCHANGED <<area, server>>

-----------------------------------------------------------------------------
\* What the staff does with the order and its return meanwhile.
StaffOps ==
    {Op(do, MyOrder, None) : do \in {"confirm", "cancel", "deliver", "fail",
                                     "approve", "reject", "receive"}}
    \cup {Op("dispatch", MyOrder, c) : c \in Couriers}
    \cup {Op("inspect", MyOrder, v) : v \in [Lines -> {"passed", "failed"}]}

MyOrdersInit ==
    /\ view = [page |-> "blank", acts |-> 0]
    /\ calls = NoCalls
    /\ \E row \in MyStart :
          server = [orders |-> [n \in {MyOrder} |-> row], couriers |-> Couriers]

MyOrdersNext ==
    \/ OpenOrders \/ GoToOrder \/ GoToReturn
    \/ CancelMyOrder \/ CompleteMyOrder \/ SubmitReview
    \/ OpenReturnForm \/ CloseReturnForm \/ ChangeGoods \/ SubmitReturn
    \/ AskToCancel \/ CancelReturnRequest
    \/ \E i \in Slots :
          \/ OrdersListed(i) \/ OrderActSettles(i) \/ OrderLoads(i)
          \/ ReturnCreated(i) \/ ReturnLoads(i) \/ ReturnActSettles(i)
          \/ ActServed(i, calls[i].arg.for = "form") \/ OrdersRead(i)
    \/ Elsewhere(StaffOps) \/ WindowCloses

-----------------------------------------------------------------------------
(* Properties.                                                             *)

\* The return form can be closed during a submission and sent again with
\* another key, its button comes back when the order is loaded anew: still an
\* order has one request that stands, and all its requests ask for no more
\* than was bought.
ReturnsStayWithinOrder ==
    area = "myOrders" =>
        LET row == server.orders[MyOrder]
        IN  /\ row.active <= 1
            /\ \A l \in Lines :
                  row.back[l] + (IF StandingReturn(row.ret)
                                 THEN row.ret.goods[l] ELSE 0) <= Bought[l]

\* Nobody has changed the order since it was loaded; time may have passed.
RowUnchanged ==
    LET row == server.orders[MyOrder]
    IN  \A f \in DOMAIN row \ {"old"} : view.row[f] = row[f]

\* What the pages offer and the API accepts are two sets of rules: as long as
\* nobody has changed the order since it was loaded, what is offered is
\* accepted.  Two cases are left out.  The seven days of a return: page and
\* API count them on different clocks (EligibleForReturn), so the page may
\* offer a return that the API refuses as too late; the statement is that
\* within the API's seven days whatever the page's clock offers is accepted.
\* And units that are back: the return form offers all that was bought, so
\* when a second submission was rejected after the first had been completed,
\* it would offer units that are back already.
OffersKept ==
    (area = "myOrders" /\ view.page \in {"order", "return"} /\ view.row # None
        /\ RowUnchanged)
    =>
    /\ view.page = "order" =>
          /\ CanCancel(view) => Accepted(Op("cancel", MyOrder, None))
          /\ CanComplete(view) => Accepted(Op("complete", MyOrder, None))
          /\ \A l \in Lines :
                CanReview(view, l) => Accepted(Op("review", MyOrder, l))
          /\ \A isWithin7Days \in BOOLEAN :
                (/\ CanReturn(view, isWithin7Days) /\ ~server.orders[MyOrder].old
                 /\ view.row.back = NoGoods
                 /\ view.form # None /\ view.form.goods # NoGoods) =>
                   Accepted(Op("return", MyOrder, view.form.goods))
    /\ (view.page = "return" /\ view.asking) =>
          Accepted(Op("cancelReturn", MyOrder, None))
=============================================================================
