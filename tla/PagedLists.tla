----------------------------- MODULE PagedLists -----------------------------
(***************************************************************************)
(* The long lists of the back office.  "orderList" and "stockList" load    *)
(* all rows, filter them and page through them on their own                *)
(* (app/admin/orders/page.tsx, app/store/inventory/page.tsx).  "returnList"*)
(* and "receiptList" ask the API for one page of the rows that match a     *)
(* status and a search that is typed in (app/admin/returns/page.tsx,       *)
(* app/admin/inbound/page.tsx).  Statuses, categories and searches alike   *)
(* are filters for a class of rows.                                        *)
(***************************************************************************)
EXTENDS Tab, Integers

CONSTANTS
    ListRows,       \* of a list
    Classes,        \* what can be looked for
    PageSize,       \* rows on a page
    MaxTurns        \* bound on what the staff member does

ASSUME RowsCounted == IsFiniteSet(ListRows)
ASSUME RowsOnPage == PageSize \in Nat \ {0}

OwnPaging == {"orderList", "stockList"}
ApiPaging == {"returnList", "receiptList"}

Turning(pages) == view.page \in pages /\ view.turns < MaxTurns

Turned == [view EXCEPT !.turns = @ + 1]

Matching(classOf, filter) == {r \in ListRows : filter \in {None, classOf[r]}}

\* Math.ceil(n / PAGE_SIZE)
PagesFor(n) == (n + PageSize - 1) \div PageSize

-----------------------------------------------------------------------------
(* Lists that page on their own.                                           *)

Filtered(v) == IF v.rows = None THEN {} ELSE Matching(v.rows, v.filter)

TotalPages(v) == IF Filtered(v) = {} THEN 1 ELSE PagesFor(Cardinality(Filtered(v)))

\* currentPage; the list of a store takes the page as it is.
CurrentPage(v) ==
    IF v.page = "orderList" /\ v.at > TotalPages(v) THEN TotalPages(v) ELSE v.at

\* There are rows on the page that is shown.
HasRows(v) == (CurrentPage(v) - 1) * PageSize < Cardinality(Filtered(v))

OpenOwnList ==
    /\ view.page = "blank"
    /\ \E page \in OwnPaging :
          view' = [page |-> page, rows |-> None, filter |-> None, at |-> 1,
                   loading |-> TRUE, refreshing |-> TRUE, error |-> FALSE,
                   turns |-> 0]
    /\ Send("allRows", None)
    /\ UNCHANGED <<area, server>>

\* The button is disabled meanwhile; the one under an error of the store's list
\* is not, and a change of an order loads the orders again at any time.
RefreshList ==
    /\ Turning(OwnPaging)
    /\ \/ ~view.refreshing
       \/ view.page = "stockList" /\ view.error
       \/ view.page = "orderList" /\ view.rows # None
    /\ Send("allRows", None)
    /\ view' = [Turned EXCEPT !.refreshing = TRUE,
                              !.error = @ /\ view.page = "stockList"]
    /\ UNCHANGED <<area, server>>

AllRowsSettle(i) ==
    /\ view.page \in OwnPaging
    /\ Returns(i, "allRows") \/ Throws(i, "allRows")
    /\ Finish(i)
    /\ view' = [view EXCEPT
                  !.rows = IF Returns(i, "allRows") THEN calls[i].ans ELSE @,
                  !.loading = FALSE, !.refreshing = FALSE,
                  !.error = Throws(i, "allRows")]
    /\ UNCHANGED <<area, server>>

\* Mutant: the page stays when another filter is chosen.
PageKept(v) == v.at

\* Each filter goes with setPage(1).
FirstPage(v) == 1

ChooseFilter ==
    /\ Turning(OwnPaging)
    /\ \E f \in (Classes \cup {None}) \ {view.filter} :
          view' = [Turned EXCEPT !.filter = f, !.at = FirstPage(view)]
    /\ UNCHANGED <<area, calls, server>>

\* The buttons below the list.  "Back" counts down from the page that was
\* chosen, which may be further on than the page that is shown.
TurnPage ==
    /\ Turning(OwnPaging)
    /\ TotalPages(view) > 1
    /\ \/ CurrentPage(view) > 1 /\ view' = [Turned EXCEPT !.at = @ - 1]
       \/ /\ CurrentPage(view) < TotalPages(view)
          /\ view' = [Turned EXCEPT !.at = @ + 1]
       \/ /\ view.page = "stockList"
          /\ \E p \in 1 .. TotalPages(view) : view' = [Turned EXCEPT !.at = p]
    /\ UNCHANGED <<area, calls, server>>

-----------------------------------------------------------------------------
(* Lists that the API pages.  A load is started whenever the filter or the *)
(* page is another one; nothing is cancelled.                              *)

OpenApiList ==
    /\ view.page = "blank"
    /\ \E page \in ApiPaging :
          LET v == [page |-> page, shown |-> None, total |-> 0, filter |-> None,
                    typed |-> None, timer |-> TRUE, at |-> 0, loading |-> TRUE,
                    turns |-> 0]
          IN  Send("somePage", [filter |-> v.filter, at |-> v.at]) /\ view' = v
    /\ UNCHANGED <<area, server>>

\* After v is rendered the effect on `load` runs if what it asks for changed.
Reloads(v) ==
    IF v.filter = view.filter /\ v.at = view.at
    THEN view' = v /\ UNCHANGED calls
    ELSE /\ Send("somePage", [filter |-> v.filter, at |-> v.at])
         /\ view' = [v EXCEPT !.loading = TRUE]

\* Something is typed into the search; 300 ms later it counts.
TypeSearch ==
    /\ Turning(ApiPaging)
    /\ \E f \in (Classes \cup {None}) \ {view.typed} :
          view' = [Turned EXCEPT !.typed = f, !.timer = TRUE]
    /\ UNCHANGED <<area, calls, server>>

SearchCounts ==
    /\ view.page \in ApiPaging /\ view.timer
    /\ Reloads([view EXCEPT !.timer = FALSE, !.filter = view.typed, !.at = 0])
    /\ UNCHANGED <<area, server>>

\* The pager of the returns is part of the table, that of the receipts is
\* below it and stays while the list is loading.
TurnApiPage ==
    /\ Turning(ApiPaging)
    /\ view.loading => view.page = "receiptList"
    /\ PagesFor(view.total) > 1
    /\ \/ view.at > 0 /\ Reloads([Turned EXCEPT !.at = @ - 1])
       \/ view.at < PagesFor(view.total) - 1 /\ Reloads([Turned EXCEPT !.at = @ + 1])
    /\ UNCHANGED <<area, server>>

SomePageSettles(i) ==
    /\ view.page \in ApiPaging
    /\ Finish(i)
    /\ \/ /\ Returns(i, "somePage")
          /\ view' = [view EXCEPT !.shown = calls[i].arg, !.total = calls[i].ans,
                                  !.loading = FALSE]
       \/ /\ Throws(i, "somePage")
          /\ view' = [view EXCEPT !.loading = FALSE]
    /\ UNCHANGED <<area, server>>

-----------------------------------------------------------------------------
\* A page of rows is known by what it was asked with, and counted.
RowsRead(i) ==
    /\ \/ Asked(i, "allRows") /\ Reply(i, server.classOf)
       \/ /\ Asked(i, "somePage")
          /\ Reply(i, Cardinality(Matching(server.classOf, calls[i].arg.filter)))
    /\ UNCHANGED <<area, view, server>>

RowChanges ==
    /\ \E r \in ListRows, c \in Classes :
          /\ server.classOf[r] # c
          /\ server' = [server EXCEPT !.classOf[r] = c]
    /\ UNCHANGED <<area, view, calls>>

PagedInit ==
    /\ view = [page |-> "blank"]
    /\ calls = NoCalls
    /\ server = [classOf |-> [r \in ListRows |-> CHOOSE c \in Classes : TRUE]]

PagedNext ==
    \/ OpenOwnList \/ RefreshList \/ ChooseFilter \/ TurnPage
    \/ OpenApiList \/ TypeSearch \/ SearchCounts \/ TurnApiPage
    \/ \E i \in Slots :
          AllRowsSettle(i) \/ SomePageSettles(i) \/ RowsRead(i)
    \/ RowChanges

-----------------------------------------------------------------------------
(* Properties.                                                             *)

\* No step leaves the staff with an empty page of a filter that has rows: in
\* the list of orders not even when a reload finds fewer of them, in the list
\* of a store when a filter is chosen.
PageHasRows ==
    [][ (/\ area = "pagedLists"
         /\ view'.page \in OwnPaging
         /\ Filtered(view') # {}
         /\ \/ view'.page = "orderList"
            \/ view.page = "stockList" /\ view.filter # view'.filter)
        => HasRows(view') ]_tab
=============================================================================
