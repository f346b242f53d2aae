----------------------------- MODULE SwitchLists -----------------------------
(***************************************************************************)
(* The pages of the administration whose rows are switched on and off:     *)
(* coupons, customers, delivery staff ("couriers", app/admin/logistics),   *)
(* reviews (shown or hidden) and products.  A switch asks for the opposite *)
(* of what the row shows and loads the list again; dialogs create a row or *)
(* archive it.  Pages differ in what they disable while a request is under *)
(* way.  Other fields of a row are left out.                               *)
(***************************************************************************)
EXTENDS Tab

CONSTANTS
    Entries,        \* rows there are at first
    Extra,          \* the row that is created
    MaxChanges      \* bound on what the staff member does

SwitchPages == {"coupons", "customers", "couriers", "reviews", "products"}

\* `dialog` holds null, "create" or the row that is to be archived.
ASSUME NoRowIsCreate == {None, "create"} \cap Entries = {}

AllEntries == Entries \cup {Extra}

\* Where the list gives way to a skeleton.  That of the customers is only
\* there until the first load is over; coupons and reviews have none.
Hides(page) == page \in {"couriers", "products"}

\* The rows on the screen, as they were loaded.
Seen(v) == IF v.rows = None \/ v.loading THEN {} ELSE DOMAIN v.rows

\* What disables the switch of row e: one flag of the page, one of the last
\* row that was switched, or one of each row of products.
SwitchBusy(v, e) ==
    CASE v.page = "coupons" -> v.busyRows # {}
      [] OTHER -> e \in v.busyRows

Changing(pages) == view.page \in pages /\ view.changes < MaxChanges

-----------------------------------------------------------------------------
OpenSwitches ==
    /\ view.page = "blank"
    /\ \E page \in SwitchPages :
          view' = [page |-> page, rows |-> None,
                   loading |-> Hides(page) \/ page = "customers",
                   busyRows |-> {}, dialog |-> None, sending |-> FALSE,
                   mounted |-> 0, changes |-> 0]
    /\ Send("list", [after |-> "mount", row |-> None])
    /\ UNCHANGED <<area, server>>

\* busy of a coupon page and of a product, busyCustomer, busyStaffId and busy
\* of the reviews, which hold one row.
Busied(v, e) ==
    IF v.page = "products" THEN [v EXCEPT !.busyRows = @ \cup {e}]
    ELSE [v EXCEPT !.busyRows = {e}]

Freed(v, e) ==
    IF v.page = "products" THEN [v EXCEPT !.busyRows = @ \ {e}]
    ELSE [v EXCEPT !.busyRows = {}]

\* toggle, handleToggleStaff, updateVisibility, toggleActive.  Dialogs cover
\* the page.
Switch ==
    /\ Changing(SwitchPages) /\ view.dialog = None
    /\ \E e \in Seen(view) :
          /\ view.rows[e] # "archived" /\ ~SwitchBusy(view, e)
          /\ Send("switch", [after |-> "switch", row |-> e, mounted |-> view.mounted,
                             to |-> IF view.rows[e] = "on" THEN "off" ELSE "on"])
          /\ view' = [Busied(view, e) EXCEPT !.changes = @ + 1]
    /\ UNCHANGED <<area, server>>

\* The dialogs to create (coupons, couriers, products) and to archive
\* (coupons, products).
OpenListDialog ==
    /\ Changing({"coupons", "couriers", "products"})
    /\ view.dialog = None
    /\ \E d \in {"create"} \cup Seen(view) :
          /\ d # "create" =>
                /\ view.page # "couriers" /\ view.rows[d] # "archived"
                /\ ~SwitchBusy(view, d)
          /\ view' = [view EXCEPT !.dialog = d]
    /\ UNCHANGED <<area, calls, server>>

\* AdminModal: neither Escape nor the backdrop nor a button closes it while it
\* is busy.
DialogBusy(v) ==
    IF v.page = "coupons" THEN v.busyRows # {}
    ELSE IF v.dialog = "create" THEN v.sending
    ELSE v.dialog \in v.busyRows

CloseListDialog ==
    /\ view.page \in SwitchPages /\ view.dialog # None /\ ~DialogBusy(view)
    /\ view' = [view EXCEPT !.dialog = None]
    /\ UNCHANGED <<area, calls, server>>

\* createCoupon, handleCreateStaff, submit
Create ==
    /\ Changing(SwitchPages) /\ view.dialog = "create" /\ ~DialogBusy(view)
    /\ Send("create", [after |-> "create", row |-> Extra])
    /\ view' = [view EXCEPT
                  !.changes = @ + 1, !.sending = TRUE,
                  !.busyRows = IF view.page = "coupons" THEN {Extra} ELSE @]
    /\ UNCHANGED <<area, server>>

\* submitArchive
Archive ==
    /\ Changing(SwitchPages) /\ view.dialog \in Entries /\ ~DialogBusy(view)
    /\ Send("archive", [after |-> "archive", row |-> view.dialog,
                        mounted |-> view.mounted])
    /\ view' = [Busied(view, view.dialog) EXCEPT !.changes = @ + 1]
    /\ UNCHANGED <<area, server>>

\* `finally` of the handler whose request had argument a.  The editor of a
\* product that was unmounted with the list has nothing to reset any more.
Ended(v, a) ==
    CASE a.after = "mount" -> v
      [] /\ v.page = "products" /\ a.after \in {"switch", "archive"}
         /\ a.mounted # v.mounted -> v
      [] a.after = "create" ->
            [v EXCEPT !.sending = FALSE,
                      !.busyRows = IF v.page = "coupons" THEN {} ELSE @]
      [] OTHER -> Freed(v, a.row)

\* The change is made: the list is loaded again.  A dialog to archive is
\* closed before, and the one for delivery staff; others after.  Where the
\* list gives way the editors of the products are unmounted, with their
\* dialogs and flags.
ChangeMade(i) ==
    /\ view.page \in SwitchPages
    /\ calls[i].op \in {"switch", "create", "archive"}
    /\ calls[i].phase = "answered"
    /\ Continue(i, "list", calls[i].arg)
    /\ LET closes == \/ calls[i].op = "archive"
                     \/ calls[i].op = "create" /\ view.page = "couriers"
       IN  view' = [view EXCEPT
                      !.loading = @ \/ Hides(view.page),
                      !.dialog = IF closes \/ (view.page = "products" /\ @ # "create")
                                 THEN None ELSE @,
                      !.busyRows = IF view.page = "products" THEN {} ELSE @]
    /\ UNCHANGED <<area, server>>

ChangeFails(i) ==
    /\ view.page \in SwitchPages
    /\ calls[i].op \in {"switch", "create", "archive"}
    /\ calls[i].phase = "failed"
    /\ Finish(i)
    /\ view' = Ended(view, calls[i].arg)
    /\ UNCHANGED <<area, server>>

\* load, which catches what its request throws, and the end of the handler
\* that waits for it.
ListLoads(i) ==
    /\ view.page \in SwitchPages
    /\ Returns(i, "list") \/ Throws(i, "list")
    /\ Finish(i)
    /\ LET shown == [view EXCEPT
                       !.rows = IF Returns(i, "list") THEN calls[i].ans ELSE @,
                       !.loading = FALSE,
                       !.mounted = IF view.page = "products" /\ view.loading
                                  THEN @ + 1 ELSE @,
                       !.dialog = IF calls[i].arg.after = "create"
                                        /\ view.page # "couriers"
                                  THEN None ELSE @]
       IN  view' = Ended(shown, calls[i].arg)
    /\ UNCHANGED <<area, server>>

-----------------------------------------------------------------------------
(* The API: a switch says what the row shall be; nothing is archived twice. *)

RowAfter(op, arg) ==
    CASE op = "switch" -> [server.rows EXCEPT ![arg.row] = arg.to]
      [] op = "archive" -> [server.rows EXCEPT ![arg.row] = "archived"]
      [] op = "create" -> [e \in DOMAIN server.rows \cup {Extra} |->
                              IF e = Extra THEN "on" ELSE server.rows[e]]

Permitted(op, arg) ==
    CASE op = "create" -> Extra \notin DOMAIN server.rows
      [] OTHER -> server.rows[arg.row] # "archived"

ChangeOfList(i) ==
    /\ calls[i].op \in {"switch", "create", "archive"}
    /\ IF Permitted(calls[i].op, calls[i].arg)
       THEN /\ server' = [rows |-> RowAfter(calls[i].op, calls[i].arg)]
            /\ Acted(i, None)
       ELSE /\ Rejected(i)
            /\ UNCHANGED server
    /\ UNCHANGED <<area, view>>

ListRead(i) ==
    /\ Asked(i, "list")
    /\ Reply(i, server.rows)
    /\ UNCHANGED <<area, view, server>>

SwitchInit ==
    /\ view = [page |-> "blank"]
    /\ calls = NoCalls
    /\ server = [rows |-> [e \in Entries |-> "on"]]

SwitchNext ==
    \/ OpenSwitches \/ Switch \/ OpenListDialog \/ CloseListDialog \/ Create
    \/ Archive
    \/ \E i \in Slots :
          \/ ChangeMade(i) \/ ChangeFails(i) \/ ListLoads(i)
          \/ ChangeOfList(i) \/ ListRead(i)
=============================================================================
