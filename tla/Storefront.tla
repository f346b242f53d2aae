----------------------------- MODULE Storefront -----------------------------
(***************************************************************************)
(* The storefront (apps/storefront): a tab that is in one of its areas.    *)
(* What an area keeps in React state is gone when the tab goes to another  *)
(* one, so that each is looked at from the moment its page is mounted, with*)
(* the API in any state that its Init says.                                *)
(***************************************************************************)
EXTENDS Navigation, CartPages, CheckoutPage, CataloguePages, OrderPages,
        OrderDesk, ReturnDesk, Receiving, Till, PagedLists, SwitchLists

CONSTANT Areas      \* the areas to look at

AreaNames ==
    {"dashboards", "navigation", "cart", "checkout", "catalogue", "myOrders", "desk",
     "returnDesk", "receiving", "till", "pagedLists", "switchLists"}

ASSUME AreasNamed == Areas \subseteq AreaNames

Init ==
    /\ area \in Areas
    /\ CASE area = "dashboards" -> DashboardsInit
         [] area = "navigation" -> NavigationInit
         [] area = "cart" -> CartInit
         [] area = "checkout" -> CheckoutInit
         [] area = "catalogue" -> CatalogueInit
         [] area = "myOrders" -> MyOrdersInit
         [] area = "desk" -> DeskInit
         [] area = "returnDesk" -> ReturnDeskInit
         [] area = "receiving" -> ReceivingInit
         [] area = "till" -> TillInit
         [] area = "pagedLists" -> PagedInit
         [] area = "switchLists" -> SwitchInit

\* Nothing is under way; the tab may stay open like this for ever.
Resting == calls = NoCalls /\ UNCHANGED tab

\* What an area is left to, another page of the application, is not looked at.
In(a) == area = a /\ area' = a

Next ==
    \/ In("dashboards") /\ DashboardsNext
    \/ In("navigation") /\ NavigationNext
    \/ In("cart") /\ CartNext
    \/ In("checkout") /\ CheckoutNext
    \/ In("catalogue") /\ CatalogueNext
    \/ In("myOrders") /\ MyOrdersNext
    \/ In("desk") /\ DeskNext
    \/ In("returnDesk") /\ ReturnDeskNext
    \/ In("receiving") /\ ReceivingNext
    \/ In("till") /\ TillNext
    \/ In("pagedLists") /\ PagedNext
    \/ In("switchLists") /\ SwitchNext
    \/ RequestLost \/ OrphanLost
    \/ Resting

Spec == Init /\ [][Next]_tab

-----------------------------------------------------------------------------
(* Properties of every page.                                               *)

\* What shows a spinner, a skeleton or a disabled button while TRUE.
Flags == {"loading", "pending", "refreshing", "authLoading", "submitting",
          "loggingOut", "couponBusy", "adding", "quickLoading", "cancelling",
          "completing", "searching", "fetching", "deciding", "sending"}

\* When no request is under way, no page shows that it is busy and none of its
\* buttons is disabled for good, whichever requests were lost or overtook each
\* other: every handler comes to its `finally`.
QuietMeansIdle ==
    calls = NoCalls =>
        /\ \A f \in Flags \cap DOMAIN view : ~view[f]
        /\ \A f \in {"busy", "busyItem"} \cap DOMAIN view : view[f] = None
        /\ \A f \in {"busyRows", "wishBusy"} \cap DOMAIN view : view[f] = {}
        /\ (view.page = "analytics" => ~view.trend.loading)
        /\ (area = "cart" /\ view.switcher # None => view.switcher.submitting = None)
        /\ (area = "myOrders" /\ view.page = "order" =>
                /\ \A l \in Lines : ~view.reviewing[l]
                /\ view.form # None => ~view.form.submitting)
        /\ (view.page = "receiving" =>
                /\ view.dialog.open => ~view.dialog.loading
                /\ ~view.dialog.submitting)
        /\ (view.page = "result" => view.state # "loading")

\* Two requests of one page that ask for the same.
SameAgain(i, j) ==
    /\ {calls[i].phase, calls[j].phase} \subseteq {"sent", "answered", "failed"}
    /\ calls[i].op = calls[j].op
    /\ \/ calls[i].op \in {"logout", "book", "sell"}
       \/ calls[i].op = "checkout" /\ calls[i].arg.form = calls[j].arg.form
       \/ /\ calls[i].op = "act"
          /\ calls[i].arg.op = calls[j].arg.op
          /\ calls[i].arg.op.do # "return"
          /\ view.page \notin {"adminOrders", "storeOrders"}
       \/ calls[i].op \in {"switch", "create", "archive"} /\ view.page = "coupons"

\* While a change is under way the page does not ask for it again: busy flags
\* are not reset by other requests.  Not so in the form of a return, which a
\* reload of the order resets, and on pages with one flag for all their rows,
\* where the end of one change frees the row of another one.
NothingSentTwice ==
    \A i, j \in Slots : i # j => ~SameAgain(i, j)
=============================================================================
