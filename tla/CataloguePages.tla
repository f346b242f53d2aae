--------------------------- MODULE CataloguePages ---------------------------
(***************************************************************************)
(* The product list with its filters, hearts and quick view                *)
(* (app/products/page.tsx, components/QuickViewModal.tsx), the page of a   *)
(* product (app/products/[slug]/page.tsx) and the wishlist.                *)
(*                                                                         *)
(* A variant is a colour and a size.  Of the filters the prices, a set of  *)
(* sizes and the sorting are kept; the others are texts like these.        *)
(***************************************************************************)
EXTENDS Tab, Integers, Sequences

CONSTANTS
    Wares,          \* products
    Colours, Sizes, \* of every product; the sizes as a sequence
    StockShapes,    \* stocks of a product, [Colours \X Range(Sizes) -> Nat]
    MaxVisits       \* bound on what the visitor does on a page

SizeSet == {Sizes[k] : k \in DOMAIN Sizes}

\* A product that is sold has a variant, and a stock of each.
ASSUME VariantsStocked ==
    /\ Colours # {} /\ Sizes \in Seq(SizeSet) /\ Sizes # <<>>
    /\ StockShapes \subseteq [Colours \X SizeSet -> Nat]

Prices == {0, 1}

Sorts == {"newest", "price_asc"}

NoFilters == [min |-> None, max |-> None, sizes |-> {}, sort |-> "newest"]

-----------------------------------------------------------------------------
(* Filters and the address, a set of parameters with their values.         *)

\* Mutant: a price of 0 counts as no price.
PriceIfAny(name, price) == IF price \in {None, 0} THEN {} ELSE {<<name, price>>}

PriceParam(name, price) == IF price = None THEN {} ELSE {<<name, price>>}

\* filtersToSearchParams
ToParams(f) ==
    PriceParam("min_price", f.min) \cup PriceParam("max_price", f.max)
        \cup {<<"size", s>> : s \in f.sizes}
        \cup IF f.sort = "newest" THEN {} ELSE {<<"sort", f.sort>>}

\* parsePrice: what is no price, a negative number say, is ignored.
ParsedPrice(params, name) ==
    LET given == {p[2] : p \in {q \in params : q[1] = name}}
    IN  IF given = {} \/ given \cap {-1} # {} THEN None
        ELSE CHOOSE price \in given : TRUE

\* filtersFromSearchParams
FromParams(params) ==
    [min |-> ParsedPrice(params, "min_price"),
     max |-> ParsedPrice(params, "max_price"),
     sizes |-> {p[2] : p \in {q \in params : q[1] = "size"}},
     sort |-> IF <<"sort", "price_asc">> \in params THEN "price_asc" ELSE "newest"]

\* `applied`, derived from the address on the list page.
Applied(v) == FromParams(v.params)

-----------------------------------------------------------------------------
(* Choosing a variant, on the page of a product and in the quick view.     *)

InStock(c, colour, size) == c.stock[<<colour, size>>] > 0

FirstInStock(c, colour) ==
    LET k == CHOOSE n \in DOMAIN Sizes :
                /\ InStock(c, colour, Sizes[n])
                /\ \A m \in 1 .. n - 1 : ~InStock(c, colour, Sizes[m])
    IN  Sizes[k]

\* The effect that selects a size when the selected one is not in stock.
SizeSelected(c) ==
    IF ~InStock(c, c.colour, c.size) /\ \E s \in SizeSet : InStock(c, c.colour, s)
    THEN [c EXCEPT !.size = FirstInStock(c, c.colour)] ELSE c

\* Mutant: the quantity stays when the variant changes.
Unclamped(c) == c

\* The effect of the product page that limits the quantity to the stock.
Clamped(c) ==
    LET stock == c.stock[<<c.colour, c.size>>]
    IN  IF stock > 0 /\ c.quantity > stock THEN [c EXCEPT !.quantity = stock] ELSE c

\* After c was rendered; the quick view has no limit.
Chosen(v, c) == IF v.page = "product" THEN Clamped(SizeSelected(c)) ELSE SizeSelected(c)

\* getProduct has answered: the first variant in stock, or the first one.
FirstChoice(ware, stock) ==
    LET c0 == [ware |-> ware, stock |-> stock, colour |-> None, size |-> Sizes[1],
               quantity |-> 1]
        sellable == {colour \in Colours : \E s \in SizeSet : InStock(c0, colour, s)}
        colour == CHOOSE x \in IF sellable = {} THEN Colours ELSE sellable : TRUE
    IN  SizeSelected([c0 EXCEPT !.colour = colour])

-----------------------------------------------------------------------------
(* Mounting.                                                               *)

ListMounted(params) ==
    [page |-> "products", params |-> params, draft |-> FromParams(params),
     items |-> <<>>, cursor |-> None, loading |-> TRUE, wished |-> {},
     wishBusy |-> {}, quick |-> None, quickLoading |-> FALSE, choice |-> None,
     adding |-> FALSE, closing |-> FALSE, visits |-> 0]

ProductMounted ==
    [page |-> "product", wished |-> {}, wishBusy |-> {}, choice |-> None,
     adding |-> FALSE, visits |-> 0]

WishlistMounted ==
    [page |-> "wishlist", wished |-> {}, wishBusy |-> {}, loading |-> TRUE,
     visits |-> 0]

Visiting == view.visits < MaxVisits

Visited == [view EXCEPT !.visits = @ + 1]

-----------------------------------------------------------------------------
(* The list.                                                               *)

EditFilter ==
    /\ view.page = "products" /\ Visiting
    /\ \/ \E price \in Prices \cup {None} :
             view' = [Visited EXCEPT !.draft.min = price]
       \/ \E price \in Prices \cup {None} :
             view' = [Visited EXCEPT !.draft.max = price]
       \/ \E s \in SizeSet :
             view' = [Visited EXCEPT !.draft.sizes =
                         IF s \in @ THEN @ \ {s} ELSE @ \cup {s}]
       \/ \E sort \in Sorts : view' = [Visited EXCEPT !.draft.sort = sort]
    /\ UNCHANGED <<area, calls, server>>

\* router.replace: the filters and the list follow the address.
Replace(params) ==
    /\ params # view.params
    /\ Send("products", [filters |-> FromParams(params), cursor |-> None])
    /\ view' = [Visited EXCEPT !.params = params, !.draft = FromParams(params),
                               !.loading = TRUE]
    /\ UNCHANGED <<area, server>>

ApplyFilters ==
    /\ view.page = "products" /\ Visiting
    /\ ~(view.draft.min = 1 /\ view.draft.max = 0)
    /\ Replace(ToParams(view.draft))

\* Where the address has no parameters only the draft is reset.
ResetFilters ==
    /\ view.page = "products" /\ Visiting
    /\ \/ Replace({})
       \/ /\ view.params = {}
          /\ view' = [Visited EXCEPT !.draft = NoFilters]
          /\ UNCHANGED <<area, calls, server>>

\* removeSingleFilter starts from the applied filters, not from the draft.
RemoveFilter ==
    /\ view.page = "products" /\ Visiting
    /\ LET f == Applied(view)
       IN  \/ f.min # None /\ Replace(ToParams([f EXCEPT !.min = None]))
           \/ f.max # None /\ Replace(ToParams([f EXCEPT !.max = None]))
           \/ \E s \in f.sizes : Replace(ToParams([f EXCEPT !.sizes = @ \ {s}]))

LoadMore ==
    /\ view.page = "products" /\ Visiting
    /\ view.cursor # None /\ ~view.loading
    /\ Send("products", [filters |-> Applied(view), cursor |-> view.cursor])
    /\ view' = [Visited EXCEPT !.loading = TRUE]
    /\ UNCHANGED <<area, server>>

\* The continuation of load: whatever has been asked for since.
ListSettles(i) ==
    /\ view.page = "products"
    /\ \/ /\ Returns(i, "products")
          /\ view' = [view EXCEPT
                        !.items = IF calls[i].arg.cursor = None THEN <<calls[i].ans>>
                                  ELSE Append(@, calls[i].ans),
                        !.cursor = IF calls[i].arg.cursor = None THEN 2 ELSE None,
                        !.loading = FALSE]
       \/ /\ Throws(i, "products")
          /\ view' = [view EXCEPT !.loading = FALSE]
    /\ Finish(i)
    /\ UNCHANGED <<area, server>>

-----------------------------------------------------------------------------
(* Hearts: on the list, on the page of a product, and on the wishlist,      *)
(* where one can only be taken away.                                        *)

WishlistLoads(i) ==
    /\ \/ /\ Returns(i, "wishlist")
          /\ view' = [view EXCEPT !.wished = calls[i].ans]
       \/ /\ Throws(i, "wishlist")
          /\ view' = view
    /\ view.page # "wishlist"
    /\ Finish(i)
    /\ UNCHANGED <<area, server>>

WishlistPageLoads(i) ==
    /\ view.page = "wishlist"
    /\ \/ /\ Returns(i, "wishlist")
          /\ view' = [view EXCEPT !.wished = calls[i].ans, !.loading = FALSE]
       \/ /\ Throws(i, "wishlist")
          /\ view' = [view EXCEPT !.loading = FALSE]
    /\ Finish(i)
    /\ UNCHANGED <<area, server>>

\* The product page has one flag for its one product, the wishlist page
\* remembers only the last product that was clicked.
ToggleWish ==
    /\ Visiting
    /\ \E w \in CASE view.page = "products" -> Wares
                  [] view.page = "product" /\ view.choice # None -> {view.choice.ware}
                  [] view.page = "wishlist" /\ ~view.loading -> view.wished
                  [] OTHER -> {} :
          /\ w \notin view.wishBusy
          /\ Send("wish", [ware |-> w, to |-> w \notin view.wished])
          /\ view' = [Visited EXCEPT !.wishBusy =
                         IF view.page = "wishlist" THEN {w} ELSE @ \cup {w}]
    /\ UNCHANGED <<area, server>>

WishSettles(i) ==
    /\ \/ /\ Returns(i, "wish")
          /\ view' = [view EXCEPT
                        !.wished = IF calls[i].arg.to THEN @ \cup {calls[i].arg.ware}
                                   ELSE @ \ {calls[i].arg.ware},
                        !.wishBusy = IF view.page = "wishlist" THEN {}
                                     ELSE @ \ {calls[i].arg.ware}]
       \/ /\ Throws(i, "wish")
          /\ view' = [view EXCEPT !.wishBusy = IF view.page = "wishlist" THEN {}
                                               ELSE @ \ {calls[i].arg.ware}]
    /\ Finish(i)
    /\ UNCHANGED <<area, server>>

-----------------------------------------------------------------------------
(* The quick view and the page of a product.                               *)

OpenQuickView ==
    /\ view.page = "products" /\ Visiting /\ view.quick = None
    /\ \E w \in Wares :
          /\ Send("product", [ware |-> w])
          /\ view' = [Visited EXCEPT !.quick = w, !.quickLoading = TRUE,
                         !.choice = IF @ = None THEN @ ELSE [@ EXCEPT !.quantity = 1]]
    /\ UNCHANGED <<area, server>>

CloseQuickView ==
    /\ view.page = "products" /\ view.quick # None
    /\ view' = [view EXCEPT !.quick = None, !.choice = None]
    /\ UNCHANGED <<area, calls, server>>

\* The timer that closes the quick view after a success.
QuickViewTimer ==
    /\ view.page = "products" /\ view.closing
    /\ view' = [view EXCEPT !.closing = FALSE, !.quick = None, !.choice = None]
    /\ UNCHANGED <<area, calls, server>>

\* An answer for a quick view that was closed is taken as well.
QuickViewLoads(i) ==
    /\ view.page = "products"
    /\ \/ /\ Returns(i, "product")
          /\ view' = [view EXCEPT !.quickLoading = FALSE,
                         !.choice = [FirstChoice(calls[i].arg.ware, calls[i].ans)
                            EXCEPT !.quantity = IF view.choice = None THEN 1
                                                ELSE view.choice.quantity]]
       \/ /\ Throws(i, "product")
          /\ view' = [view EXCEPT !.quickLoading = FALSE]
    /\ Finish(i)
    /\ UNCHANGED <<area, server>>

\* The effect on the product asks for the wishlist.
ProductLoads(i) ==
    /\ view.page = "product"
    /\ \/ /\ Returns(i, "product")
          /\ Continue(i, "wishlist", None)
          /\ view' = [view EXCEPT !.choice =
                         FirstChoice(calls[i].arg.ware, calls[i].ans)]
       \/ Throws(i, "product") /\ Finish(i) /\ view' = view
    /\ UNCHANGED <<area, server>>

Choosing ==
    /\ Visiting
    /\ \/ view.page = "product" /\ view.choice # None
       \/ view.page = "products" /\ view.quick # None /\ ~view.quickLoading
          /\ view.choice # None

Choose(c) ==
    /\ c # view.choice
    /\ view' = [Visited EXCEPT !.choice = Chosen(view, c)]
    /\ UNCHANGED <<area, calls, server>>

ChooseColour ==
    Choosing /\ \E colour \in Colours : Choose([view.choice EXCEPT !.colour = colour])

ChooseSize ==
    /\ Choosing
    /\ \E s \in SizeSet :
          /\ InStock(view.choice, view.choice.colour, s)
          /\ Choose([view.choice EXCEPT !.size = s])

ChooseQuantity ==
    /\ Choosing
    /\ LET c == view.choice
       IN  \/ c.quantity > 1 /\ Choose([c EXCEPT !.quantity = @ - 1])
           \/ /\ c.quantity < c.stock[<<c.colour, c.size>>]
              /\ Choose([c EXCEPT !.quantity = @ + 1])

\* handleAddToCart and addItemAndOpen; `stock` is what the page says.
AddToCart ==
    /\ Choosing /\ ~view.adding
    /\ LET c == view.choice
       IN  /\ InStock(c, c.colour, c.size)
           /\ Send("add", [by |-> view.page, variant |-> <<c.ware, c.colour, c.size>>,
                           quantity |-> c.quantity,
                           stock |-> c.stock[<<c.colour, c.size>>]])
    /\ view' = [Visited EXCEPT !.adding = TRUE]
    /\ UNCHANGED <<area, server>>

AddSettles(i) ==
    /\ \/ /\ Returns(i, "add") /\ view.page = "products"
          /\ view' = [view EXCEPT !.adding = FALSE, !.closing = TRUE]
       \/ /\ Returns(i, "add") /\ view.page = "product"
          /\ view' = [view EXCEPT !.adding = FALSE]
       \/ /\ Throws(i, "add")
          /\ view' = [view EXCEPT !.adding = FALSE]
    /\ Finish(i)
    /\ UNCHANGED <<area, server>>

-----------------------------------------------------------------------------
(* The API.                                                                *)

CatalogueServed(i) ==
    /\ \/ /\ Asked(i, "products")
          /\ Reply(i, [of |-> calls[i].arg.filters, cursor |-> calls[i].arg.cursor])
          /\ UNCHANGED server
       \/ Asked(i, "wishlist") /\ Reply(i, server.wished) /\ UNCHANGED server
       \/ Asked(i, "product") /\ Reply(i, server.stock) /\ UNCHANGED server
       \/ Asked(i, "add") /\ Reply(i, None) /\ UNCHANGED server
       \/ /\ calls[i].op = "wish"
          /\ Acted(i, None)
          /\ server' = [server EXCEPT !.wished =
                           IF calls[i].arg.to THEN @ \cup {calls[i].arg.ware}
                           ELSE @ \ {calls[i].arg.ware}]
    /\ UNCHANGED <<area, view>>

-----------------------------------------------------------------------------
CatalogueInit ==
    /\ \/ \E params \in {{}, {<<"max_price", -1>>, <<"size", Sizes[1]>>}} :
             /\ view = ListMounted(params)
             /\ calls = Sent(Sent(NoCalls, "wishlist", None), "products",
                             [filters |-> FromParams(params), cursor |-> None])
       \/ /\ view = ProductMounted
          /\ \E w \in Wares : calls = Sent(NoCalls, "product", [ware |-> w])
       \/ view = WishlistMounted /\ calls = Sent(NoCalls, "wishlist", None)
    /\ \E stock \in StockShapes :
          server = [stock |-> stock,
                    wished |-> IF view.page = "wishlist" THEN Wares ELSE {}]

CatalogueNext ==
    \/ EditFilter \/ ApplyFilters \/ ResetFilters \/ RemoveFilter \/ LoadMore
    \/ ToggleWish \/ OpenQuickView \/ CloseQuickView \/ QuickViewTimer
    \/ ChooseColour \/ ChooseSize \/ ChooseQuantity \/ AddToCart
    \/ \E i \in Slots :
          \/ ListSettles(i) \/ WishlistLoads(i) \/ WishlistPageLoads(i)
          \/ WishSettles(i) \/ QuickViewLoads(i) \/ ProductLoads(i)
          \/ AddSettles(i) \/ CatalogueServed(i)

-----------------------------------------------------------------------------
(* Properties.                                                             *)

\* What the visitor chose in the filters survives its way through the
\* address: applying the draft selects what the draft says, 0 is a price.
AddressKeepsFilters ==
    (area = "catalogue" /\ view.page = "products") =>
        FromParams(ToParams(view.draft)) = view.draft

\* The page of a product never asks for more than it says is there, whatever
\* order colours, sizes and quantities were chosen in.
AddWithinStock ==
    area = "catalogue" =>
        \A i \in InFlight("add") :
            calls[i].phase = "sent" /\ calls[i].arg.by = "product" =>
                calls[i].arg.quantity \in 1 .. calls[i].arg.stock
=============================================================================
