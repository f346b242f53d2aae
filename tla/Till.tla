-------------------------------- MODULE Till --------------------------------
(***************************************************************************)
(* The till of a store (app/store/pos/page.tsx): search by code or name, a *)
(* basket, and a sale at the prices and with the stock that the API has by *)
(* then (pos/service.py).  While a sale is under way only its button is    *)
(* disabled.                                                               *)
(***************************************************************************)
EXTENDS Tab, FiniteSetsExt

CONSTANTS
    Shelf,          \* variants of the store
    StorePrices,    \* prices that a variant may have
    OnShelf,        \* stock of each variant when the till is opened
    Searches,       \* sets of variants that a code or a name stands for
    SoldAtOnce,     \* quantities that may be typed in
    MaxMoves        \* bound on the lines that are added and the sales submitted

EmptyBasket == [w \in Shelf |-> [n |-> 0, price |-> 0]]

InBasket(basket) == {w \in Shelf : basket[w].n > 0}

\* total
BasketTotal(basket) ==
    MapThenSumSet(LAMBDA w : basket[w].n * basket[w].price, InBasket(basket))

Quantities(basket) == [w \in Shelf |-> basket[w].n]

AtTill == view.page = "till"

-----------------------------------------------------------------------------
OpenTill ==
    /\ view.page = "blank"
    /\ view' = [page |-> "till", searching |-> FALSE, results |-> {},
                selected |-> None, basket |-> EmptyBasket, submitting |-> FALSE,
                last |-> None, moves |-> 0]
    /\ UNCHANGED <<area, calls, server>>

\* searchProduct; the Enter key does not wait for the search before.
SearchProduct ==
    /\ AtTill /\ view.moves < MaxMoves
    /\ \E what \in Searches : Send("find", [what |-> what])
    /\ view' = [view EXCEPT !.searching = TRUE, !.selected = None]
    /\ UNCHANGED <<area, server>>

\* The only result is selected.
SearchSettles(i) ==
    /\ AtTill
    /\ Returns(i, "find") \/ Throws(i, "find")
    /\ Finish(i)
    /\ LET found == IF Returns(i, "find") THEN calls[i].ans ELSE {}
       IN  view' = [view EXCEPT
                      !.searching = FALSE, !.results = found,
                      !.selected = IF Cardinality(found) = 1
                                   THEN CHOOSE r \in found : TRUE ELSE @]
    /\ UNCHANGED <<area, server>>

SelectResult ==
    /\ AtTill /\ view.selected = None
    /\ \E r \in view.results : view' = [view EXCEPT !.selected = r]
    /\ UNCHANGED <<area, calls, server>>

\* addToCart: a line that is there keeps its price.
AddToBasket ==
    /\ AtTill /\ view.selected # None /\ view.moves < MaxMoves
    /\ \E n \in SoldAtOnce :
          view' = [view EXCEPT
                     !.basket[view.selected.ware] =
                        IF @.n > 0 THEN [@ EXCEPT !.n = @ + n]
                        ELSE [n |-> n, price |-> view.selected.price],
                     !.results = {}, !.selected = None, !.moves = @ + 1]
    /\ UNCHANGED <<area, calls, server>>

RemoveFromBasket ==
    /\ AtTill
    /\ \E w \in InBasket(view.basket) :
          view' = [view EXCEPT !.basket[w] = EmptyBasket[w]]
    /\ UNCHANGED <<area, calls, server>>

\* submitTransaction.  What a cash customer pays is the total on the screen.
SubmitSale ==
    /\ AtTill /\ ~view.submitting /\ view.moves < MaxMoves
    /\ InBasket(view.basket) # {}
    /\ \E cash \in BOOLEAN :
          Send("sell", [basket |-> view.basket,
                        paid |-> IF cash THEN BasketTotal(view.basket) ELSE None])
    /\ view' = [view EXCEPT !.submitting = TRUE, !.moves = @ + 1]
    /\ UNCHANGED <<area, server>>

\* Mutant: the receipt lists what is in the basket when the answer comes.
BasketOnArrival(arg) == view.basket

\* `cart` in the closure of submitTransaction.
BasketOfClosure(arg) == arg.basket

\* The basket is emptied, with what was added to it in the meantime.
SaleDone(i) ==
    /\ AtTill
    /\ Returns(i, "sell")
    /\ Finish(i)
    /\ view' = [view EXCEPT
                  !.submitting = FALSE, !.basket = EmptyBasket,
                  !.last = [number |-> calls[i].ans.number,
                            total |-> calls[i].ans.total,
                            items |-> BasketOfClosure(calls[i].arg)]]
    /\ UNCHANGED <<area, server>>

SaleFails(i) ==
    /\ AtTill
    /\ Throws(i, "sell")
    /\ Finish(i)
    /\ view' = [view EXCEPT !.submitting = FALSE]
    /\ UNCHANGED <<area, server>>

DismissReceipt ==
    /\ AtTill /\ view.last # None
    /\ view' = [view EXCEPT !.last = None]
    /\ UNCHANGED <<area, calls, server>>

-----------------------------------------------------------------------------
(* The API.                                                                *)

ProductsFound(i) ==
    /\ Asked(i, "find")
    /\ Reply(i, {[ware |-> w, price |-> server.price[w]] : w \in calls[i].arg.what})
    /\ UNCHANGED <<area, view, server>>

Due(basket) ==
    MapThenSumSet(LAMBDA w : basket[w].n * server.price[w], InBasket(basket))

\* create_pos_transaction
SaleServed(i) ==
    /\ calls[i].op = "sell"
    /\ LET basket == calls[i].arg.basket
           paid == calls[i].arg.paid
           total == Due(basket)
           sale == [number |-> Cardinality(server.sales), total |-> total,
                    sold |-> Quantities(basket), paid |-> paid]
       IN  IF /\ \A w \in Shelf : basket[w].n <= server.shelf[w]
              /\ paid # None => total <= paid
           THEN /\ server' = [server EXCEPT
                                !.shelf = [w \in Shelf |-> @[w] - basket[w].n],
                                !.sales = @ \cup {sale}]
                /\ Acted(i, sale)
           ELSE /\ Rejected(i)
                /\ UNCHANGED server
    /\ UNCHANGED <<area, view>>

\* Once, which is enough to come between a search and a sale.
PriceChanges ==
    /\ ~server.repriced
    /\ \E w \in Shelf, p \in StorePrices :
          /\ p # server.price[w]
          /\ server' = [server EXCEPT !.price[w] = p, !.repriced = TRUE]
    /\ UNCHANGED <<area, view, calls>>

TillInit ==
    /\ view = [page |-> "blank"]
    /\ calls = NoCalls
    /\ \E p \in StorePrices :
          server = [price |-> [w \in Shelf |-> p], repriced |-> FALSE,
                    shelf |-> [w \in Shelf |-> OnShelf], sales |-> {}]

TillNext ==
    \/ OpenTill \/ SearchProduct \/ SelectResult \/ AddToBasket
    \/ RemoveFromBasket \/ SubmitSale \/ DismissReceipt
    \/ \E i \in Slots :
          \/ SearchSettles(i) \/ SaleDone(i) \/ SaleFails(i)
          \/ ProductsFound(i) \/ SaleServed(i)
    \/ PriceChanges

-----------------------------------------------------------------------------
(* Properties.                                                             *)

\* The receipt on the screen lists the units that were sold under its number
\* and their total, although the basket may be changed while the sale is
\* under way; and a customer who pays cash is never charged more than the
\* total that was on the screen, although prices may change.
ReceiptIsSale ==
    (area = "till" /\ AtTill /\ view.last # None) =>
        \E s \in server.sales :
            /\ s.number = view.last.number
            /\ s.sold = Quantities(view.last.items)
            /\ s.total = view.last.total
            /\ s.paid # None => s.total <= BasketTotal(view.last.items)
=============================================================================
