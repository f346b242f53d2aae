------------------------------ MODULE CartPages ------------------------------
(***************************************************************************)
(* The cart page (app/cart/page.tsx) with its variant switcher, its cross  *)
(* selling and its coupons.                                                *)
(*                                                                         *)
(* A cart is a function from variants to quantities, 0 when the variant is *)
(* not in it.  The amounts of a cart or of a quote are known by the cart   *)
(* they were computed from (`of`) and the coupon they include.             *)
(***************************************************************************)
EXTENDS Tab, Sequences

CONSTANTS
    Items,          \* variants
    ProductOf,      \* [Items -> products]
    MaxQuantity,    \* cart_item_max_quantity
    CouponCodes,
    MaxClicks       \* bound on what the customer does while the page is open

\* The setting is 20; a cart that may hold nothing is none.
ASSUME SomeQuantity == MaxQuantity \in Nat \ {0}

Products == {ProductOf[x] : x \in Items}

Carts == [Items -> 0 .. MaxQuantity]

Present(cart) == {x \in Items : cart[x] > 0}

Amounts(code, cart) == [coupon |-> code, of |-> cart]

\* `items` of the page.
ShownItems == IF view.cart = None THEN {} ELSE Present(view.cart)

\* The amounts of the summary: those of the quote go before those of the cart.
Summary == IF view.quote # None THEN view.quote ELSE Amounts(None, view.cart)

-----------------------------------------------------------------------------
(* Loading.  refresh holds the coupon that was applied when it was started. *)
(* While the page is loading its parts are unmounted and forget their state; *)
(* a switcher that was open loads its product again afterwards.             *)

CartMounted ==
    [page |-> "cart", cart |-> None, quote |-> None, loading |-> TRUE,
     busyItem |-> None, error |-> FALSE, applied |-> None, couponBusy |-> FALSE,
     switcher |-> None, menu |-> None, clicks |-> 0]

\* The page is there and the customer does something, once more.
Ready == view.page = "cart" /\ ~view.loading /\ view.clicks < MaxClicks

Clicked == [view EXCEPT !.clicks = @ + 1]

\* The load in slot i is over with page state v.
Loaded(i, v) ==
    IF v.switcher # None
    THEN /\ Continue(i, "product", [by |-> "switcher", cart |-> None,
                                    product |-> ProductOf[v.switcher.item]])
         /\ view' = [v EXCEPT !.loading = FALSE, !.switcher.loaded = FALSE,
                              !.switcher.submitting = None]
    ELSE Finish(i) /\ view' = [v EXCEPT !.loading = FALSE]

CartLoads(i) ==
    /\ Returns(i, "getCart")
    /\ IF calls[i].arg.coupon # None
       THEN /\ Continue(i, "quote", [by |-> "refresh", code |-> calls[i].arg.coupon,
                                     cart |-> calls[i].ans])
            /\ view' = [view EXCEPT !.cart = calls[i].ans, !.error = FALSE]
       ELSE Loaded(i, [view EXCEPT !.cart = calls[i].ans, !.error = FALSE,
                                   !.quote = Amounts(None, calls[i].ans)])
    /\ UNCHANGED <<area, server>>

CartFails(i) ==
    /\ Throws(i, "getCart")
    /\ Loaded(i, [view EXCEPT !.error = TRUE])
    /\ UNCHANGED <<area, server>>

\* The request in slot i has ended with page state v: the effect on
\* appliedCouponCode runs refresh again when the coupon has changed.
Rendered(i, v) ==
    IF v.applied # view.applied
    THEN /\ Continue(i, "getCart", [coupon |-> v.applied])
         /\ view' = [v EXCEPT !.loading = TRUE, !.menu = None]
    ELSE IF view.loading /\ ~v.loading THEN Loaded(i, v)
    ELSE Finish(i) /\ view' = v

QuoteOfRefresh(i) ==
    /\ calls[i].op = "quote" /\ calls[i].arg.by = "refresh"
    /\ \/ /\ Returns(i, "quote")
          /\ Rendered(i, [view EXCEPT !.quote = calls[i].ans, !.loading = FALSE])
       \/ /\ Throws(i, "quote")
          /\ Rendered(i, [view EXCEPT !.quote = Amounts(None, calls[i].arg.cart),
                                      !.applied = None, !.loading = FALSE])
    /\ UNCHANGED <<area, server>>

-----------------------------------------------------------------------------
(* Coupons.                                                                *)

\* A code typed in, or picked from the list.
ApplyCoupon ==
    /\ Ready /\ ~view.couponBusy
    /\ ShownItems # {}
    /\ \E code \in CouponCodes \ {view.applied} :
          /\ Send("quote", [by |-> "apply", code |-> code, cart |-> None])
          /\ view' = [Clicked EXCEPT !.couponBusy = TRUE, !.error = FALSE]
    /\ UNCHANGED <<area, server>>

CouponSettles(i) ==
    /\ calls[i].op = "quote" /\ calls[i].arg.by = "apply"
    /\ \/ /\ Returns(i, "quote")
          /\ Rendered(i, [view EXCEPT !.quote = calls[i].ans,
                                      !.applied = calls[i].ans.coupon,
                                      !.couponBusy = FALSE])
       \/ /\ Throws(i, "quote")
          /\ Rendered(i, [view EXCEPT !.error = TRUE, !.couponBusy = FALSE])
    /\ UNCHANGED <<area, server>>

ClearCoupon ==
    /\ Ready
    /\ view.applied # None /\ ShownItems # {}
    /\ Send("getCart", [coupon |-> None])
    /\ view' = [Clicked EXCEPT !.applied = None, !.loading = TRUE, !.menu = None,
                            !.quote = Amounts(None, view.cart)]
    /\ UNCHANGED <<area, server>>

-----------------------------------------------------------------------------
(* Changes of the cart.  A handler is a sequence of requests; each starts   *)
(* when the one before has succeeded.  The handler holds the coupon that    *)
(* was applied when it was started.                                         *)

SetItem(x, n) == [do |-> "set", item |-> x, quantity |-> n]
RemoveItem(x) == [do |-> "remove", item |-> x, quantity |-> 0]
Wish(x) == [do |-> "wish", item |-> x, quantity |-> 0]

\* Mutant: the line goes first.
MoveRemovesFirst(x) == <<RemoveItem(x), Wish(x)>>

\* moveToWishlist
MoveSteps(x) == <<Wish(x), RemoveItem(x)>>

\* handleSwitchVariant: variant x is replaced by y in the quantity n.
SwitchSteps(x, y, n) == <<SetItem(x, 0), SetItem(y, n)>>

Handler(by, steps) == [by |-> by, steps |-> steps, coupon |-> view.applied]

OnLine(x, by, steps) ==
    /\ Send("change", Handler(by, steps))
    /\ view' = [Clicked EXCEPT !.busyItem = x, !.error = FALSE]
    /\ UNCHANGED <<area, server>>

\* The buttons of a line, disabled while it is the last one that was used.
UpdateQuantity ==
    /\ Ready
    /\ \E x \in ShownItems \ {view.busyItem}, n \in 1 .. MaxQuantity + 1 :
          /\ n \in {view.cart[x] - 1, view.cart[x] + 1}
          /\ OnLine(x, "update", <<SetItem(x, n)>>)

RemoveLine ==
    /\ Ready
    /\ \E x \in ShownItems \ {view.busyItem} :
          OnLine(x, "remove", <<RemoveItem(x)>>)

MoveToWishlist ==
    /\ Ready
    /\ \E x \in ShownItems \ {view.busyItem} : OnLine(x, "move", MoveSteps(x))

\* VariantSwitcherModal: open, load the product, confirm, close.
OpenSwitcher ==
    /\ Ready /\ view.switcher = None
    /\ \E x \in ShownItems \ {view.busyItem} :
          /\ Send("product", [by |-> "switcher", product |-> ProductOf[x], cart |-> None])
          /\ view' = [Clicked EXCEPT !.switcher =
                         [item |-> x, quantity |-> view.cart[x], loaded |-> FALSE,
                          submitting |-> None]]
    /\ UNCHANGED <<area, server>>

\* The flag `active` in the effect's closure.
SwitcherAwaits(i) ==
    view.switcher # None /\ ~view.switcher.loaded
        /\ calls[i].arg.product = ProductOf[view.switcher.item]

SwitcherLoads(i) ==
    /\ Returns(i, "product") \/ Throws(i, "product")
    /\ calls[i].arg.by = "switcher"
    /\ Finish(i)
    /\ view' = IF Returns(i, "product") /\ SwitcherAwaits(i)
               THEN [view EXCEPT !.switcher.loaded = TRUE] ELSE view
    /\ UNCHANGED <<area, server>>

CloseSwitcher ==
    /\ view.page = "cart" /\ ~view.loading /\ view.switcher # None
    /\ view' = [view EXCEPT !.switcher = None]
    /\ UNCHANGED <<area, calls, server>>

ConfirmSwitch ==
    /\ Ready
    /\ view.switcher # None /\ view.switcher.loaded /\ view.switcher.submitting = None
    /\ \E y \in Items \ {view.switcher.item} :
          /\ ProductOf[y] = ProductOf[view.switcher.item]
          /\ Send("change", Handler("switch",
                 SwitchSteps(view.switcher.item, y, view.switcher.quantity)))
    /\ view' = [Clicked EXCEPT !.switcher.submitting = NextSlot(calls), !.error = FALSE,
                            !.busyItem = view.switcher.item]
    /\ UNCHANGED <<area, server>>

\* CartCrossSell: a product that was not in the cart when the suggestions
\* were loaded, which may be long ago.  The quantity is the one on the screen
\* when the button is pressed.
QuickAdd ==
    /\ Ready /\ ShownItems # {}
    /\ \E p \in Products :
          /\ \A i \in InFlight("product") : calls[i].arg.product # p
          /\ Send("product", [by |-> "crossSell", product |-> p, cart |-> view.cart])
    /\ view' = Clicked
    /\ UNCHANGED <<area, server>>

AddOne(x, cart) == <<SetItem(x, cart[x] + 1)>>

\* The only variant is added, of several one is chosen from a menu.
QuickAddLoads(i) ==
    /\ Returns(i, "product") \/ Throws(i, "product")
    /\ calls[i].arg.by = "crossSell"
    /\ LET variants == {x \in Items : ProductOf[x] = calls[i].arg.product}
       IN  IF Throws(i, "product") THEN Finish(i) /\ view' = view
           ELSE IF Cardinality(variants) = 1
           THEN /\ Continue(i, "change",
                     Handler("add", AddOne(CHOOSE x \in variants : TRUE,
                                           calls[i].arg.cart)))
                /\ view' = [view EXCEPT !.error = FALSE]
           ELSE Finish(i) /\ view' = [view EXCEPT !.menu = calls[i].arg.product]
    /\ UNCHANGED <<area, server>>

SelectVariant ==
    /\ Ready /\ view.menu # None
    /\ \E x \in Items :
          /\ ProductOf[x] = view.menu
          /\ Send("change", Handler("add", AddOne(x, view.cart)))
    /\ view' = [Clicked EXCEPT !.error = FALSE]
    /\ UNCHANGED <<area, server>>

\* `finally`, and what the modals do when their handler is through.
Through(v, by) ==
    CASE by = "add" -> [v EXCEPT !.menu = None]
      [] by = "switch" -> [v EXCEPT !.busyItem = None, !.switcher = None]
      [] OTHER -> [v EXCEPT !.busyItem = None]

ThrownOut(i, v) ==
    CASE calls[i].arg.by = "add" -> [v EXCEPT !.error = TRUE, !.menu = None]
      [] v.switcher # None /\ v.switcher.submitting = i ->
            [v EXCEPT !.error = TRUE, !.busyItem = None,
                      !.switcher.submitting = None]
      [] OTHER -> [v EXCEPT !.error = TRUE, !.busyItem = None]

\* updateQuantity puts the new amounts into the quote it has, the other
\* handlers leave the quote alone unless they ask for one.
QuotePatched(by, quote, cart) ==
    IF by = "update" /\ quote # None THEN Amounts(quote.coupon, cart) ELSE quote

CartChanges(i) ==
    /\ Returns(i, "change")
    /\ LET h == calls[i].arg
           shown == [view EXCEPT !.cart = calls[i].ans,
                                 !.menu = IF Present(calls[i].ans) = {}
                                          THEN None ELSE @]
       IN  IF Len(h.steps) > 1
           THEN /\ Continue(i, "change", [h EXCEPT !.steps = Tail(@)])
                /\ view' = view
           ELSE IF h.coupon # None
           THEN /\ Continue(i, "quote", [by |-> h.by, code |-> h.coupon, cart |-> None])
                /\ view' = shown
           ELSE /\ Finish(i)
                /\ view' = Through([shown EXCEPT
                               !.quote = QuotePatched(h.by, @, calls[i].ans)], h.by)
    /\ UNCHANGED <<area, server>>

CartChangeFails(i) ==
    /\ Throws(i, "change")
    /\ Finish(i)
    /\ view' = ThrownOut(i, view)
    /\ UNCHANGED <<area, server>>

QuoteOfChange(i) ==
    /\ calls[i].op = "quote" /\ calls[i].arg.by \notin {"refresh", "apply"}
    /\ \/ /\ Returns(i, "quote")
          /\ view' = Through([view EXCEPT !.quote = calls[i].ans], calls[i].arg.by)
       \/ /\ Throws(i, "quote")
          /\ view' = ThrownOut(i, view)
    /\ Finish(i)
    /\ UNCHANGED <<area, server>>

-----------------------------------------------------------------------------
(* The API.                                                                *)

\* SetItemRequest: quantity is at least 1.
ValidQuantity(step) == step.do = "set" => step.quantity >= 1

Limited(n) == IF n > MaxQuantity THEN MaxQuantity ELSE n

\* set_item, remove_item, add_to_wishlist
CartAfter(step) ==
    CASE step.do = "set" ->
           [server EXCEPT !.cart[step.item] = Limited(step.quantity)]
      [] step.do = "remove" -> [server EXCEPT !.cart[step.item] = 0]
      [] step.do = "wish" -> [server EXCEPT !.wishlist = @ \cup {ProductOf[step.item]}]

ChangeServed(i) ==
    /\ calls[i].op = "change"
    /\ LET step == Head(calls[i].arg.steps)
       IN  IF ValidQuantity(step)
           THEN server' = CartAfter(step) /\ Acted(i, server'.cart)
           ELSE Rejected(i) /\ UNCHANGED server
    /\ UNCHANGED <<area, view>>

\* getCart, quote_checkout, getProduct
CartRead(i) ==
    /\ \/ Asked(i, "getCart") /\ Reply(i, server.cart)
       \/ /\ Asked(i, "quote")
          /\ IF Present(server.cart) # {}
             THEN Reply(i, Amounts(calls[i].arg.code, server.cart)) ELSE Refuse(i)
       \/ Asked(i, "product") /\ Reply(i, None)
    /\ UNCHANGED <<area, view, server>>

-----------------------------------------------------------------------------
CartInit ==
    /\ view = CartMounted
    /\ calls = Sent(NoCalls, "getCart", [coupon |-> None])
    /\ \E cart \in [Items -> 0 .. 1] : server = [cart |-> cart, wishlist |-> {}]

CartNext ==
    \/ ApplyCoupon \/ ClearCoupon
    \/ UpdateQuantity \/ RemoveLine \/ MoveToWishlist
    \/ OpenSwitcher \/ CloseSwitcher \/ ConfirmSwitch
    \/ QuickAdd \/ SelectVariant
    \/ \E i \in Slots :
          \/ CartLoads(i) \/ CartFails(i) \/ QuoteOfRefresh(i) \/ CouponSettles(i)
          \/ SwitcherLoads(i) \/ QuickAddLoads(i)
          \/ CartChanges(i) \/ CartChangeFails(i) \/ QuoteOfChange(i)
          \/ ChangeServed(i) \/ CartRead(i)

-----------------------------------------------------------------------------
(* Properties.                                                             *)

\* The cart is a part of what the customer wants to buy: whatever fails or is
\* lost on the way, a line leaves it only because the customer removed it, or
\* moved it to the wishlist and it has arrived there.
NothingVanishes ==
    [][ area = "cart" =>
        \A x \in Items :
            (server.cart[x] > 0 /\ server'.cart[x] = 0) =>
                \/ ProductOf[x] \in server'.wishlist
                \/ \E i \in InFlight("change") :
                      calls[i].arg.by = "remove"
                      /\ Head(calls[i].arg.steps).item = x ]_tab

\* The summary shows the amounts of the cart on the page as soon as nothing is
\* on its way.
SummaryFollowsCart ==
    (/\ area = "cart" /\ calls = NoCalls /\ ~view.loading /\ ~view.error
     /\ ShownItems # {})
    => Summary.of = view.cart
=============================================================================
