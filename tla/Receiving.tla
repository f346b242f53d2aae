------------------------------ MODULE Receiving ------------------------------
(***************************************************************************)
(* Inbound receipts in the administration: the page with the list          *)
(* (app/admin/inbound/page.tsx) and the dialog in which a receipt is       *)
(* staged and booked (components/admin/CreateInboundModal.tsx).  The       *)
(* dialog shows what each line will do to the cost price of its variant;   *)
(* the API books it (inbound/service.py) with a formula of its own, on the *)
(* stock as it is by then.                                                 *)
(***************************************************************************)
EXTENDS Tab, Integers, SequencesExt

CONSTANTS
    Goods,          \* variants
    StockFound,     \* [qty, cost] of a variant when the tab is opened
    LotSizes,       \* quantities that may be typed in
    UnitCosts,      \* unit costs that may be typed in
    MaxStagings,    \* bound on the lines that are staged
    MaxSold,        \* bound on the units sold meanwhile
    MaxBookings     \* bound on the receipts that are submitted

\* on_hand and cost_price_vnd are unsigned, and the payload of a receipt is valid.
Stocks == [qty : Nat, cost : Nat]

ASSUME AmountsCounted ==
    StockFound \subseteq Stocks /\ LotSizes \subseteq Nat \ {0} /\ UnitCosts \subseteq Nat

-----------------------------------------------------------------------------
(* The moving average, on both sides.                                      *)

\* Math.round: a half goes up.
HalfUp(total, n) == (2 * total + n) \div (2 * n)

\* round of Python: a half goes to the even neighbour.
HalfEven(total, n) ==
    LET down == total \div n
        rest == 2 * (total % n)
    IN  IF rest < n \/ (rest = n /\ down % 2 = 0) THEN down ELSE down + 1

Value(stock, n, unit) == stock.qty * stock.cost + n * unit

\* calculateNewCostPrice
PreviewCost(stock, n, unit) ==
    IF stock.qty > 0 THEN HalfUp(Value(stock, n, unit), stock.qty + n) ELSE unit

\* Mutant: int() without round().
CutCost(stock, n, unit) ==
    IF stock.qty > 0 THEN Value(stock, n, unit) \div (stock.qty + n) ELSE unit

BookedCost(stock, n, unit) ==
    IF stock.qty > 0 THEN HalfEven(Value(stock, n, unit), stock.qty + n) ELSE unit

-----------------------------------------------------------------------------
(* The page and its dialog.  A staged line remembers the stock it was       *)
(* shown with.                                                              *)

NoDialog == [open |-> FALSE, goods |-> None, loading |-> FALSE, current |-> None,
             items |-> <<>>, submitting |-> FALSE]

DialogOpen == view.page = "receiving" /\ view.dialog.open

OpenReceiving ==
    /\ view.page = "blank"
    /\ Send("receipts", None)
    /\ view' = [page |-> "receiving", loading |-> TRUE, dialog |-> NoDialog,
                staged |-> 0, bookings |-> 0]
    /\ UNCHANGED <<area, server>>

\* The list loads at first, and again when a receipt has been created.
ReceiptsLoad(i) ==
    /\ view.page = "receiving"
    /\ Returns(i, "receipts") \/ Throws(i, "receipts")
    /\ Finish(i)
    /\ view' = [view EXCEPT !.loading = FALSE]
    /\ UNCHANGED <<area, server>>

\* The effect on isOpen: the products of the time before stay until the
\* request is answered, the list of variants is disabled meanwhile.
OpenDialogue ==
    /\ view.page = "receiving" /\ ~view.dialog.open
    /\ view.bookings < MaxBookings
    /\ Send("goods", None)
    /\ view' = [view EXCEPT !.dialog.open = TRUE, !.dialog.loading = TRUE,
                            !.dialog.current = NextSlot(calls)]
    /\ UNCHANGED <<area, server>>

GoodsLoad(i) ==
    /\ view.page = "receiving"
    /\ Returns(i, "goods") \/ Throws(i, "goods")
    /\ Finish(i)
    /\ view' = IF view.dialog.current # i THEN view
               ELSE [view EXCEPT
                       !.dialog.loading = FALSE, !.dialog.current = None,
                       !.dialog.goods = IF Returns(i, "goods") THEN calls[i].ans
                                        ELSE @]
    /\ UNCHANGED <<area, server>>

NotStaged(items, g) == \A k \in DOMAIN items : items[k].good # g

\* A variant is picked from the list, its quantity and its cost are typed in,
\* the preview is shown, and handleAddStagedItem adds the line.
Stage ==
    /\ DialogOpen /\ ~view.dialog.loading /\ view.dialog.goods # None
    /\ view.staged < MaxStagings
    /\ \E g \in Goods, n \in LotSizes, unit \in UnitCosts :
          LET saw == view.dialog.goods[g]
          IN  /\ NotStaged(view.dialog.items, g)
              /\ view' = [view EXCEPT
                            !.dialog.items = Append(@,
                                [good |-> g, n |-> n, unit |-> unit, saw |-> saw,
                                 shown |-> PreviewCost(saw, n, unit)]),
                            !.staged = @ + 1]
    /\ UNCHANGED <<area, calls, server>>

\* handleRemoveStagedItem, and the button that removes all of them; neither
\* is disabled while the receipt is being submitted.
Unstage ==
    /\ DialogOpen
    /\ \/ \E k \in DOMAIN view.dialog.items :
             view' = [view EXCEPT !.dialog.items = RemoveAt(@, k)]
       \/ Len(view.dialog.items) > 1 /\ view' = [view EXCEPT !.dialog.items = <<>>]
    /\ UNCHANGED <<area, calls, server>>

\* handleResetForm and onClose: the cleanup of the effect on isOpen drops the
\* answer that is still to come.
Shut(v) == [v EXCEPT !.dialog.open = FALSE, !.dialog.current = None,
                     !.dialog.items = <<>>]

CloseDialogue ==
    /\ DialogOpen /\ ~view.dialog.submitting
    /\ view' = Shut(view)
    /\ UNCHANGED <<area, calls, server>>

\* handleSubmit, with a key of its own each time.
Book ==
    /\ DialogOpen /\ ~view.dialog.submitting
    /\ view.dialog.items # <<>> /\ view.bookings < MaxBookings
    /\ Send("book", [items |-> view.dialog.items])
    /\ view' = [view EXCEPT !.dialog.submitting = TRUE, !.bookings = @ + 1]
    /\ UNCHANGED <<area, server>>

\* Whatever was staged meanwhile is reset with the form.
BookSettles(i) ==
    /\ view.page = "receiving"
    /\ \/ /\ Returns(i, "book")
          /\ Continue(i, "receipts", None)
          /\ view' = [Shut(view) EXCEPT !.dialog.submitting = FALSE, !.loading = TRUE]
       \/ /\ Throws(i, "book")
          /\ Finish(i)
          /\ view' = [view EXCEPT !.dialog.submitting = FALSE]
    /\ UNCHANGED <<area, server>>

-----------------------------------------------------------------------------
(* The API: one transaction.                                               *)

\* What a line of a receipt makes of the stock of its variant.
Received(stock, item) ==
    [qty |-> stock.qty + item.n, cost |-> BookedCost(stock, item.n, item.unit)]

\* validate_unique_variants: other receipts are refused (the dialog makes none).
NoneTwice(items) ==
    \A j, k \in DOMAIN items : items[j].good = items[k].good => j = k

\* No variant is in two lines, so that the order of the lines does not matter.
AfterReceipt(stock, items) ==
    [g \in Goods |->
        IF NotStaged(items, g) THEN stock[g]
        ELSE Received(stock[g], items[CHOOSE k \in DOMAIN items : items[k].good = g])]

\* Each booked line is kept with what its variant was found with and what its
\* cost became.
BookServed(i) ==
    /\ calls[i].op = "book"
    /\ LET items == calls[i].arg.items
           left == AfterReceipt(server.stock, items)
       IN  /\ NoneTwice(items)
           /\ server' = [server EXCEPT
                            !.stock = left,
                            !.booked = @ \cup
                                {[item |-> items[k],
                                  found |-> server.stock[items[k].good],
                                  cost |-> left[items[k].good].cost] :
                                    k \in DOMAIN items}]
           /\ Acted(i, None)
    /\ UNCHANGED <<area, view>>

ReceivingRead(i) ==
    /\ \/ Asked(i, "goods") /\ Reply(i, server.stock)
       \/ Asked(i, "receipts") /\ Reply(i, None)
    /\ UNCHANGED <<area, view, server>>

\* A unit is sold meanwhile.
SoldElsewhere ==
    /\ server.sold < MaxSold
    /\ \E g \in Goods :
          /\ server.stock[g].qty > 0
          /\ server' = [server EXCEPT !.stock[g].qty = @ - 1, !.sold = @ + 1]
    /\ UNCHANGED <<area, view, calls>>

ReceivingInit ==
    /\ view = [page |-> "blank"]
    /\ calls = NoCalls
    /\ \E f \in [Goods -> StockFound] :
          server = [stock |-> f, booked |-> {}, sold |-> 0]

ReceivingNext ==
    \/ OpenReceiving \/ OpenDialogue \/ Stage \/ Unstage \/ CloseDialogue
    \/ Book
    \/ \E i \in Slots :
          \/ ReceiptsLoad(i) \/ GoodsLoad(i) \/ BookSettles(i)
          \/ BookServed(i) \/ ReceivingRead(i)
    \/ SoldElsewhere

-----------------------------------------------------------------------------
(* Properties.                                                             *)

\* What the dialog says a line will do to a cost price is what the booking
\* does, unless the stock was changed since the dialog was opened: to the
\* unit, and exactly but where the average falls on a half.
PreviewKept ==
    area = "receiving" =>
        \A b \in server.booked :
            b.found = b.item.saw =>
                /\ b.cost \in {b.item.shown - 1, b.item.shown}
                /\ b.cost # b.item.shown =>
                      (2 * Value(b.found, b.item.n, b.item.unit))
                          % (b.found.qty + b.item.n) = 0
=============================================================================
