---------------------------- MODULE CheckoutPage ----------------------------
(***************************************************************************)
(* The checkout page (app/checkout/page.tsx) and the page of its result.   *)
(*                                                                         *)
(* Each time the page is mounted is a form, numbered from 1.  `server`     *)
(* keeps the orders with the form they came from; what else an order says  *)
(* (address, coupon, method, lines) is left out.                           *)
(***************************************************************************)
EXTENDS Tab

CONSTANTS
    MaxForms,           \* bound on how often the page is mounted
    MaxSubmits,         \* bound on how often a form is submitted
    OfferedCodes        \* coupons

ASSUME FormsCounted == MaxForms \in Nat

Forms == 1 .. MaxForms

Methods == {"vietqr", "cod"}

\* Mutant: crypto.randomUUID() with every submission.
KeyPerSubmit(v) == <<v.form, v.submits>>

\* idempotencyKey.current, set once by the effect.
KeyOfForm(v) == v.form

OrdersOf(f) == {o \in server.orders : o.form = f}

-----------------------------------------------------------------------------
(* The page.                                                               *)

\* The effect on is_cod_blocked.
AllowedMethod(v, method) == IF v.codBlocked THEN "vietqr" ELSE method

\* A link to the page may name a coupon; the customer of AuthProvider may be
\* older than the block.
OpenCheckout ==
    /\ view.page = "blank" /\ server.forms < MaxForms
    /\ \E urlCoupon \in OfferedCodes \cup {None}, blocked \in {FALSE, server.blocked} :
          view' = [page |-> "checkout", form |-> server.forms + 1,
                   urlCoupon |-> urlCoupon, codBlocked |-> blocked,
                   cart |-> None, applied |-> None, couponBusy |-> FALSE,
                   method |-> "vietqr", submitting |-> FALSE, submits |-> 0,
                   loading |-> TRUE]
    /\ Send("loadCart", None)
    /\ server' = [server EXCEPT !.forms = @ + 1]
    /\ UNCHANGED area

CheckoutCartLoads(i) ==
    /\ view.page = "checkout"
    /\ \/ /\ Returns(i, "loadCart") /\ view.urlCoupon # None
          /\ Continue(i, "price", [by |-> "load", code |-> view.urlCoupon])
          /\ view' = [view EXCEPT !.cart = calls[i].ans]
       \/ /\ Returns(i, "loadCart") /\ view.urlCoupon = None
          /\ Finish(i)
          /\ view' = [view EXCEPT !.cart = calls[i].ans, !.loading = FALSE]
       \/ /\ Throws(i, "loadCart")
          /\ Finish(i)
          /\ view' = [view EXCEPT !.loading = FALSE]
    /\ UNCHANGED <<area, server>>

\* A quote of the load that fails is replaced by the amounts of the cart.
LoadQuoteSettles(i) ==
    /\ view.page = "checkout"
    /\ calls[i].op = "price" /\ calls[i].arg.by = "load"
    /\ Returns(i, "price") \/ Throws(i, "price")
    /\ Finish(i)
    /\ view' = [view EXCEPT !.loading = FALSE,
                   !.applied = IF Returns(i, "price") THEN calls[i].ans ELSE @]
    /\ UNCHANGED <<area, server>>

\* The form is shown, also when the cart could not be loaded; not when the
\* cart is empty or one of its lines is out of stock.
FormShown ==
    view.page = "checkout" /\ ~view.loading /\ view.cart \in {None, "ready"}

\* applyCoupon, by the button of the form or from the list of coupons; no
\* code removes the coupon.  It is possible during a submission.
ApplyCodeAtCheckout ==
    /\ FormShown /\ ~view.couponBusy
    /\ \E code \in OfferedCodes \cup {None} :
          code # view.applied /\ Send("price", [by |-> "apply", code |-> code])
    /\ view' = [view EXCEPT !.couponBusy = TRUE]
    /\ UNCHANGED <<area, server>>

CodeAtCheckoutSettles(i) ==
    /\ view.page = "checkout"
    /\ calls[i].op = "price" /\ calls[i].arg.by = "apply"
    /\ \/ /\ Returns(i, "price")
          /\ view' = [view EXCEPT !.couponBusy = FALSE, !.applied = calls[i].ans]
       \/ /\ Throws(i, "price")
          /\ view' = [view EXCEPT !.couponBusy = FALSE]
    /\ Finish(i)
    /\ UNCHANGED <<area, server>>

ChooseMethod ==
    /\ FormShown
    /\ \E method \in Methods :
          method # view.method /\ AllowedMethod(view, method) = method
          /\ view' = [view EXCEPT !.method = method]
    /\ UNCHANGED <<area, calls, server>>

\* handleSubmit
SubmitOrder ==
    /\ FormShown /\ ~view.submitting /\ ~view.couponBusy
    /\ view.submits < MaxSubmits
    /\ Send("checkout", [form |-> view.form, key |-> KeyOfForm(view),
                         method |-> view.method])
    /\ view' = [view EXCEPT !.submitting = TRUE, !.submits = @ + 1]
    /\ UNCHANGED <<area, server>>

\* router.push to the result, which loads the order, even when the form was
\* left by a link in the meantime.
OrderPlaced(i) ==
    /\ Returns(i, "checkout")
    /\ calls' = [Orphaned(calls) EXCEPT ![i] =
                    [op |-> "order", arg |-> calls[i].ans, phase |-> "sent"]]
    /\ view' = [page |-> "result", form |-> calls[i].arg.form,
                order |-> calls[i].ans, state |-> "loading"]
    /\ UNCHANGED <<area, server>>

OrderFails(i) ==
    /\ view.page = "checkout"
    /\ Throws(i, "checkout")
    /\ Finish(i)
    /\ view' = [view EXCEPT !.submitting = FALSE]
    /\ UNCHANGED <<area, server>>

ResultSettles(i) ==
    /\ view.page = "result"
    /\ \/ Returns(i, "order") /\ view' = [view EXCEPT !.state = "shown"]
       \/ Throws(i, "order") /\ view' = [view EXCEPT !.state = "failed"]
    /\ Finish(i)
    /\ UNCHANGED <<area, server>>

\* A link, the back button, a reload.
LeaveCheckout ==
    /\ view.page \in {"checkout", "result"}
    /\ view' = [page |-> "blank"]
    /\ calls' = Orphaned(calls)
    /\ UNCHANGED <<area, server>>

-----------------------------------------------------------------------------
(* The API.                                                                *)

\* Mutant: the key is not looked up.
NeverSeen(key) == {}

\* The order that was placed with a key.
SeenBefore(key) == {o \in server.orders : o.key = key}

\* checkout: the block comes first, then the key, then the cart, of which one
\* order is made and which is closed with it.
CheckoutServed(i) ==
    /\ calls[i].op = "checkout"
    /\ LET arg == calls[i].arg
           refused == arg.method = "cod" /\ server.blocked
           order == [number |-> Cardinality(server.orders) + 1,
                     form |-> arg.form, key |-> arg.key]
       IN  \/ /\ ~refused
              /\ \E o \in SeenBefore(arg.key) : ActedLate(i, o)
              /\ UNCHANGED server
           \/ /\ ~refused /\ SeenBefore(arg.key) = {} /\ server.cart = "ready"
              /\ ActedLate(i, order)
              /\ server' = [server EXCEPT !.orders = @ \cup {order}, !.cart = "empty"]
    /\ UNCHANGED <<area, view>>

\* get_cart, quote_checkout, get_order; a quote may be refused (RequestLost).
CheckoutRead(i) ==
    /\ \/ Asked(i, "loadCart") /\ Reply(i, server.cart)
       \/ Asked(i, "price") /\ server.cart = "ready" /\ Reply(i, calls[i].arg.code)
       \/ Asked(i, "order") /\ Reply(i, None)
    /\ UNCHANGED <<area, view, server>>

\* Elsewhere: the customer fills the cart again or empties it (a line that is
\* sold out counts like an empty cart), or is blocked.
CartElsewhere ==
    /\ server' = [server EXCEPT !.cart = IF @ = "ready" THEN "empty" ELSE "ready"]
    /\ UNCHANGED <<area, view, calls>>

BlockElsewhere ==
    /\ ~server.blocked
    /\ server' = [server EXCEPT !.blocked = TRUE]
    /\ UNCHANGED <<area, view, calls>>

-----------------------------------------------------------------------------
CheckoutInit ==
    /\ view = [page |-> "blank"]
    /\ calls = NoCalls
    /\ server = [cart |-> "ready", orders |-> {}, forms |-> 0, blocked |-> FALSE]

CheckoutNext ==
    \/ OpenCheckout \/ ApplyCodeAtCheckout \/ ChooseMethod \/ SubmitOrder
    \/ LeaveCheckout
    \/ \E i \in Slots :
          \/ CheckoutCartLoads(i) \/ LoadQuoteSettles(i)
          \/ CodeAtCheckoutSettles(i) \/ OrderPlaced(i) \/ OrderFails(i)
          \/ ResultSettles(i) \/ CheckoutServed(i) \/ CheckoutRead(i)
    \/ CartElsewhere \/ BlockElsewhere

-----------------------------------------------------------------------------
(* Properties.                                                             *)

\* A form makes at most one order: after a lost answer the customer submits it
\* again, with another coupon or method if they like, and the cart may have
\* been filled again in the meantime.
OneOrderPerForm ==
    area = "checkout" => \A f \in Forms : Cardinality(OrdersOf(f)) <= 1

\* The checkout implements the promise of AtMostOnce.
Promise ==
    INSTANCE AtMostOnce WITH
        Nobody <- 0,
        made <- [f \in Forms |->
                    IF area = "checkout" THEN Cardinality(OrdersOf(f)) ELSE 0],
        reported <- IF area = "checkout" /\ view.page = "result"
                    THEN view.order.form ELSE 0

\* The checkout implements the promise of AtMostOnce, from the click to the page
\* of the result, through lost answers, retries and the customer's leaving.
KeepsPromise == Promise!Spec
=============================================================================
