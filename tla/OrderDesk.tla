------------------------------ MODULE OrderDesk ------------------------------
(***************************************************************************)
(* Where the staff works on orders: the list and the page of an order in   *)
(* the administration (app/admin/orders) and the orders of a store         *)
(* (app/store/orders).  What a list filters, pages through, counts and     *)
(* exports is left out.                                                    *)
(***************************************************************************)
EXTENDS OrderService

CONSTANTS
    DeskStart,      \* statuses in which the orders may be found
    MaxJobs         \* bound on what the staff member does

DeskPages == {"adminOrders", "adminOrder", "storeOrders"}

\* The orders on a page.
OrdersOn(page) ==
    IF page = "adminOrder" THEN {MyOrder}
    ELSE OrderNumbers

\* Mutant: an order that is confirmed is taken for one that is on its way.
OffersDelivery(page, status) ==
    CASE status = "paid" -> {"cancel", "confirm"}
      [] status \in {"confirmed", "shipping"} /\ page # "storeOrders" ->
            {"dispatch", "fail", "deliver"}
      [] OTHER -> {}

\* The buttons of a row, or of the page of an order.
Offers(page, status) ==
    CASE status = "paid" -> {"cancel", "confirm"}
      [] status = "confirmed" /\ page = "adminOrders" -> {"cancel", "dispatch"}
      [] status = "confirmed" /\ page = "adminOrder" -> {"dispatch"}
      [] status = "shipping" /\ page # "storeOrders" -> {"fail", "deliver"}
      [] OTHER -> {}

\* What is asked for in a dialog first.
InDialog == {"cancel", "dispatch", "fail"}

\* The rows on the screen.  While the orders of a store are loading there are
\* none, and the page of an order has none after an error.
Rows(v) ==
    IF v.orders = None \/ v.loading \/ v.error THEN {} ELSE OrdersOn(v.page)

Offered(v, n) == Offers(v.page, v.orders[n].status)

Working == view.page \in DeskPages /\ view.jobs < MaxJobs

\* Mutant: the buttons stay enabled.
NeverBusy(v, n) == FALSE

\* busyOrder, or busy: the page of an order is busy with its only order.
Busy(v, n) == v.busy = n

-----------------------------------------------------------------------------
OpenDesk ==
    /\ view.page = "blank"
    /\ \E page \in DeskPages :
          view' = [page |-> page, orders |-> None, loading |-> TRUE,
                   error |-> FALSE, busy |-> None, dialog |-> None,
                   staff |-> None, courier |-> None, fetching |-> FALSE,
                   jobs |-> 0]
    /\ Send("rows", [after |-> "mount"])
    /\ UNCHANGED <<area, server>>

\* mutate: busy until the change is made and the rows are loaded again.
Mutate(do, n, what) ==
    /\ Send("act", [op |-> Op(do, n, what), for |-> view.page])
    /\ view' = [view EXCEPT !.busy = n, !.jobs = @ + 1]
    /\ UNCHANGED <<area, server>>

\* Rows can be clicked under the panel of a store, not under a dialog.
PressButton ==
    /\ Working
    /\ view.dialog = None \/ view.page = "storeOrders"
    /\ \E n \in Rows(view) :
          /\ ~Busy(view, n)
          /\ \E do \in Offered(view, n) \ InDialog : Mutate(do, n, None)

\* handleOpenCancel, handleOpenBoom
OpenDialog ==
    /\ view.page \in DeskPages
    /\ view.dialog = None \/ view.page = "storeOrders"
    /\ \E n \in Rows(view) :
          /\ ~Busy(view, n)
          /\ \E do \in (Offered(view, n) \cap InDialog) \ {"dispatch"} :
                /\ view.dialog # [do |-> do, order |-> n]
                /\ view' = [view EXCEPT !.dialog = [do |-> do, order |-> n]]
    /\ UNCHANGED <<area, calls, server>>

\* The staff member selected when the list is there: any of the active ones
\* stands for the first.
SelectedOf(staff) == IF staff = {} THEN {None} ELSE staff

\* handleOpenDispatch: the list is loaded once.
OpenDispatch ==
    /\ view.page \in DeskPages /\ view.dialog = None
    /\ \E n \in Rows(view) :
          /\ ~Busy(view, n) /\ "dispatch" \in Offered(view, n)
          /\ IF view.staff = None
             THEN /\ Send("staff", None)
                  /\ view' = [view EXCEPT !.fetching = TRUE,
                                !.dialog = [do |-> "dispatch", order |-> n]]
             ELSE /\ UNCHANGED calls
                  /\ view' = [view EXCEPT
                                !.dialog = [do |-> "dispatch", order |-> n]]
    /\ UNCHANGED <<area, server>>

StaffArrives(i) ==
    /\ view.page \in DeskPages
    /\ \/ /\ Returns(i, "staff")
          /\ \E c \in SelectedOf(calls[i].ans) :
                view' = [view EXCEPT !.staff = calls[i].ans, !.courier = c,
                                     !.fetching = FALSE]
       \/ /\ Throws(i, "staff")
          /\ view' = [view EXCEPT !.fetching = FALSE]
    /\ Finish(i)
    /\ UNCHANGED <<area, server>>

ChooseCourier ==
    /\ view.page \in DeskPages /\ view.dialog # None
    /\ view.dialog.do = "dispatch" /\ view.staff # None
    /\ \E c \in view.staff \ {view.courier} :
          view' = [view EXCEPT !.courier = c]
    /\ UNCHANGED <<area, calls, server>>

\* A dialog is not closed while its order is busy; the panel of a store is.
CloseDialog ==
    /\ view.page \in DeskPages /\ view.dialog # None
    /\ ~Busy(view, view.dialog.order) \/ view.page = "storeOrders"
    /\ view' = [view EXCEPT !.dialog = None]
    /\ UNCHANGED <<area, calls, server>>

\* submitCancel, submitBoom, submitDispatch
SubmitDialog ==
    /\ Working /\ view.dialog # None
    /\ ~Busy(view, view.dialog.order)
    /\ view.dialog.do = "dispatch" => view.courier # None
    /\ Mutate(view.dialog.do, view.dialog.order,
              IF view.dialog.do = "dispatch" THEN view.courier ELSE None)

\* Success closes the dialog of its kind, in a store the panel.
ClosesDialog(v, do) ==
    v.dialog # None /\ (v.dialog.do = do \/ v.page = "storeOrders")

\* Mutant: finally is forgotten.
StillBusy(v) == v

\* finally
NotBusy(v) == [v EXCEPT !.busy = None]

DeskActSettles(i) ==
    /\ view.page \in DeskPages
    /\ \/ /\ Returns(i, "act")
          /\ Continue(i, "rows", [after |-> "act"])
          /\ view' = [view EXCEPT
                        !.dialog = IF ClosesDialog(view, calls[i].arg.op.do)
                                   THEN None ELSE @,
                        !.loading = @ \/ view.page = "storeOrders",
                        !.error = FALSE]
       \/ /\ Throws(i, "act")
          /\ Finish(i)
          /\ view' = NotBusy(view)
    /\ UNCHANGED <<area, server>>

\* load.  The page of an order loads its shipment after it, which may fail.
DeskLoads(i) ==
    /\ view.page \in DeskPages
    /\ Returns(i, "rows") \/ Throws(i, "rows")
    /\ LET shown == [view EXCEPT
                       !.orders = IF Returns(i, "rows") THEN calls[i].ans ELSE @,
                       !.loading = FALSE,
                       !.error = Throws(i, "rows") /\ view.page = "adminOrder"]
           over == IF calls[i].arg.after = "act" THEN NotBusy(shown) ELSE shown
       IN  IF Returns(i, "rows") /\ view.page = "adminOrder"
           THEN Continue(i, "shipment", calls[i].arg) /\ view' = shown
           ELSE Finish(i) /\ view' = over
    /\ UNCHANGED <<area, server>>

ShipmentSettles(i) ==
    /\ view.page \in DeskPages
    /\ Returns(i, "shipment") \/ Throws(i, "shipment")
    /\ Finish(i)
    /\ view' = IF calls[i].arg.after = "act" THEN NotBusy(view) ELSE view
    /\ UNCHANGED <<area, server>>

\* getDeliveryStaffList, getShipmentByOrderNumber
DeskRead(i) ==
    /\ \/ Asked(i, "staff") /\ Reply(i, server.couriers)
       \/ Asked(i, "shipment") /\ Reply(i, None)
    /\ UNCHANGED <<area, view, server>>

\* Meanwhile: the customers, other members of the staff, the end of a job.
OthersOps ==
    {Op(do, n, None) : do \in {"cancel", "deliver"}, n \in OrderNumbers}

CourierLeaves ==
    /\ \E c \in server.couriers :
          server' = [server EXCEPT !.couriers = @ \ {c}]
    /\ UNCHANGED <<area, view, calls>>

DeskInit ==
    /\ view = [page |-> "blank"]
    /\ calls = NoCalls
    /\ \E f \in [OrderNumbers -> DeskStart] :
          server = [orders |-> [n \in OrderNumbers |-> NewOrder(f[n])],
                    couriers |-> Couriers]

DeskNext ==
    \/ OpenDesk \/ PressButton \/ OpenDialog \/ OpenDispatch \/ ChooseCourier
    \/ CloseDialog \/ SubmitDialog
    \/ \E i \in Slots :
          \/ StaffArrives(i) \/ DeskActSettles(i) \/ DeskLoads(i)
          \/ ShipmentSettles(i) \/ DeskRead(i)
          \/ ActServed(i, FALSE) \/ OrdersRead(i)
    \/ Elsewhere(OthersOps) \/ CourierLeaves

-----------------------------------------------------------------------------
(* Properties.                                                             *)

\* As long as nobody else has changed an order and the list of the delivery
\* staff is right, what a desk offers is accepted; but the list of the
\* administration offers to cancel confirmed orders, which the API refuses.
DeskOffersKept ==
    (area = "desk" /\ view.page \in DeskPages) =>
        \A n \in Rows(view) :
            view.orders[n] = server.orders[n] =>
                \A do \in Offered(view, n) :
                    \/ do = "cancel" /\ view.orders[n].status = "confirmed"
                    \/ do = "dispatch" /\ view.staff # server.couriers
                    \/ do = "dispatch" /\ view.courier = None
                    \/ Accepted(Op(do, n, view.courier))
=============================================================================
