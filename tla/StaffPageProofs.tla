-------------------------- MODULE StaffPageProofs ---------------------------
(***************************************************************************)
(* Proofs about the dashboards, the till, the lists with pages and the     *)
(* dialog for receipts.  Their pages take answers to requests that were    *)
(* sent in an earlier state of the page.  The dashboards tell them apart   *)
(* by the slot of the last request (its AbortController); the till waits   *)
(* for one sale at a time; the lists take whatever comes; the dialog keeps *)
(* with each line the stock that it was shown with.                        *)
(***************************************************************************)
EXTENDS Storefront, TLAPS, FiniteSetTheorems, WellFoundedInduction

-----------------------------------------------------------------------------
(* The till.                                                               *)

\* The units of the basket that was sent, for no more than its total.
SoldAs(s, basket) ==
    /\ s.sold = Quantities(basket)
    /\ s.paid # None => s.total <= BasketTotal(basket)

\* A request to sell is paid with the total of its basket, and is answered
\* with a sale of that basket.
SaleAsked(c) ==
    c.op = "sell" =>
        /\ c.arg.paid # None => c.arg.paid = BasketTotal(c.arg.basket)
        /\ c.phase = "answered" =>
              c.ans \in server.sales /\ SoldAs(c.ans, c.arg.basket)

SalesAsked == DOMAIN calls = Slots /\ \A i \in Slots : SaleAsked(calls[i])

\* What the receipt shows is a sale.
ReceiptKnown ==
    view.page = "till" =>
        /\ {"page", "basket", "selected", "last"} \subseteq DOMAIN view
        /\ view.last # None =>
              \E s \in server.sales :
                  /\ s.number = view.last.number
                  /\ s.total = view.last.total
                  /\ SoldAs(s, view.last.items)

TillInv ==
    /\ {"price", "shelf", "sales"} \subseteq DOMAIN server
    /\ SalesAsked
    /\ ReceiptKnown

LEMMA TillStarts == ASSUME TillInit PROVE TillInv
<1>1. SalesAsked
  BY DEF TillInit, NoCalls, NoCall, SalesAsked, SaleAsked
<1> QED BY <1>1 DEF TillInit, TillInv, ReceiptKnown

\* A slot is as it was, or holds no sale, or the one that was there without an
\* answer, or one that is paid as it should be.
OnlyAsks ==
    /\ DOMAIN calls' = Slots
    /\ \A j \in Slots :
          \/ calls'[j] = calls[j]
          \/ calls'[j].op # "sell"
          \/ /\ calls'[j].phase # "answered"
             /\ calls'[j].arg.paid # None =>
                   calls'[j].arg.paid = BasketTotal(calls'[j].arg.basket)

LEMMA TillKept ==
    ASSUME TillInv, OnlyAsks, ReceiptKnown', server.sales \subseteq server'.sales,
           DOMAIN server' = DOMAIN server
    PROVE  TillInv'
BY DEF TillInv, SalesAsked, SaleAsked, OnlyAsks, SoldAs

\* Steps of the page that leave the receipt alone, or put it away.
LEMMA TillPageSteps ==
    ASSUME TillInv, \/ OpenTill \/ SearchProduct \/ SelectResult \/ AddToBasket
                    \/ RemoveFromBasket \/ SubmitSale \/ DismissReceipt
    PROVE  TillInv'
<1> USE DEF TillInv
<1>1. server' = server
  BY DEF OpenTill, SearchProduct, SelectResult, AddToBasket, RemoveFromBasket,
     SubmitSale, DismissReceipt
<1>2. OnlyAsks
  <2>1. CASE calls' = calls
    BY <2>1 DEF OnlyAsks, SalesAsked
  <2>2. CASE SearchProduct
    BY <2>2 DEF SearchProduct, Send, Sent, OnlyAsks, SalesAsked
  <2>3. CASE SubmitSale
    BY <2>3 DEF SubmitSale, Send, Sent, OnlyAsks, SalesAsked
  <2> QED BY <2>1, <2>2, <2>3
       DEF OpenTill, SelectResult, AddToBasket, RemoveFromBasket, DismissReceipt
<1>3. ReceiptKnown'
  <2> USE <1>1 DEF ReceiptKnown, AtTill, SoldAs
  <2>1. CASE OpenTill
    BY <2>1 DEF OpenTill
  <2>2. CASE SearchProduct \/ SelectResult
    BY <2>2 DEF SearchProduct, SelectResult
  <2>3. CASE AddToBasket
    BY <2>3 DEF AddToBasket
  <2>4. CASE RemoveFromBasket
    BY <2>4 DEF RemoveFromBasket
  <2>5. CASE SubmitSale \/ DismissReceipt
    BY <2>5 DEF SubmitSale, DismissReceipt
  <2> QED BY <2>1, <2>2, <2>3, <2>4, <2>5
<1> QED BY <1>1, <1>2, <1>3, TillKept

\* The answer to a sale becomes the receipt.
LEMMA TillAnswers ==
    ASSUME TillInv, NEW i \in Slots,
           SearchSettles(i) \/ SaleDone(i) \/ SaleFails(i)
    PROVE  TillInv'
<1> USE DEF TillInv
<1>1. server' = server
  BY DEF SearchSettles, SaleDone, SaleFails
<1>2. OnlyAsks
  BY DEF SearchSettles, SaleDone, SaleFails, Finish, NoCall, OnlyAsks, SalesAsked
<1>3. ReceiptKnown'
  <2> USE <1>1 DEF ReceiptKnown, AtTill
  <2>1. CASE SearchSettles(i) \/ SaleFails(i)
    BY <2>1 DEF SearchSettles, SaleFails, SoldAs
  <2>2. CASE SaleDone(i)
    <3>1. calls[i].ans \in server.sales /\ SoldAs(calls[i].ans, calls[i].arg.basket)
      BY <2>2 DEF SaleDone, Returns, SalesAsked, SaleAsked
    <3>2. /\ view'.last = [number |-> calls[i].ans.number,
                           total |-> calls[i].ans.total,
                           items |-> calls[i].arg.basket]
          /\ DOMAIN view' = DOMAIN view
      BY <2>2 DEF SaleDone, BasketOfClosure
    <3> QED BY <2>2, <3>1, <3>2 DEF SaleDone, SoldAs
  <2> QED BY <2>1, <2>2
<1> QED BY <1>1, <1>2, <1>3, TillKept

\* create_pos_transaction: cash that does not cover the total is refused.
LEMMA SaleServedStep ==
    ASSUME TillInv, NEW i \in Slots, SaleServed(i) PROVE TillInv'
<1> DEFINE basket == calls[i].arg.basket
           paid == calls[i].arg.paid
           total == Due(basket)
           sale == [number |-> Cardinality(server.sales), total |-> total,
                    sold |-> Quantities(basket), paid |-> paid]
<1> USE DEF TillInv
<1>1. calls[i].op = "sell" /\ view' = view
  BY DEF SaleServed
<1>2. CASE Rejected(i) /\ UNCHANGED server
  <2>1. OnlyAsks
    BY <1>2 DEF Rejected, Refuse, Finish, NoCall, OnlyAsks, SalesAsked, SaleAsked
  <2>2. ReceiptKnown'
    BY <1>1, <1>2 DEF ReceiptKnown, SoldAs
  <2> QED BY <1>2, <2>1, <2>2, TillKept
<1>3. CASE /\ paid # None => total <= paid
           /\ server' = [server EXCEPT
                          !.shelf = [w \in Shelf |-> @[w] - basket[w].n],
                          !.sales = @ \cup {sale}]
           /\ Acted(i, sale)
  <2>1. SoldAs(sale, basket)
    BY <1>1, <1>3 DEF SalesAsked, SaleAsked, SoldAs
  <2> HIDE DEF sale
  <2>2. DOMAIN server' = DOMAIN server /\ server'.sales = server.sales \cup {sale}
    BY <1>3
  <2>3. \A j \in Slots \ {i} : calls'[j] = calls[j]
    BY <1>3 DEF Acted, Reply, Refuse, Finish, SalesAsked
  <2>4. /\ DOMAIN calls' = Slots
        /\ \/ calls'[i].op # "sell"
           \/ /\ calls'[i].arg = calls[i].arg
              /\ calls'[i].phase = "answered" => calls'[i].ans = sale
    BY <1>3 DEF Acted, Reply, Refuse, Finish, NoCall, SalesAsked
  <2>5. SalesAsked'
    <3> SUFFICES ASSUME NEW j \in Slots PROVE SaleAsked(calls[j])'
      BY <2>4 DEF SalesAsked
    <3>1. CASE j = i
      BY <1>1, <2>1, <2>2, <2>4, <3>1 DEF SalesAsked, SaleAsked, SoldAs
    <3>2. CASE j # i
      BY <2>2, <2>3, <3>2 DEF SalesAsked, SaleAsked, SoldAs
    <3> QED BY <3>1, <3>2
  <2>6. ReceiptKnown'
    BY <1>1, <2>2 DEF ReceiptKnown, SoldAs
  <2> QED BY <2>2, <2>5, <2>6
<1> QED BY <1>2, <1>3 DEF SaleServed

\* A search is answered, a price changes, a request is lost.
LEMMA AroundTheTill ==
    ASSUME TillInv, \/ \E i \in Slots : ProductsFound(i)
                    \/ PriceChanges \/ RequestLost \/ OrphanLost
    PROVE  TillInv'
<1> USE DEF TillInv
<1>1. /\ view' = view /\ server'.sales = server.sales
      /\ DOMAIN server' = DOMAIN server
  BY DEF ProductsFound, PriceChanges, RequestLost, OrphanLost
<1>2. OnlyAsks
  <2>1. CASE \E i \in Slots : ProductsFound(i)
    BY <2>1 DEF ProductsFound, Asked, Reply, OnlyAsks, SalesAsked
  <2>2. CASE PriceChanges
    BY <2>2 DEF PriceChanges, OnlyAsks, SalesAsked
  <2>3. CASE RequestLost \/ OrphanLost
    BY <2>3 DEF RequestLost, OrphanLost, Refuse, Finish, NoCall, OnlyAsks, SalesAsked,
       SaleAsked
  <2> QED BY <2>1, <2>2, <2>3
<1>3. ReceiptKnown'
  BY <1>1 DEF ReceiptKnown, SoldAs
<1> QED BY <1>1, <1>2, <1>3, TillKept

LEMMA TillSteps ==
    ASSUME TillInv, TillNext \/ RequestLost \/ OrphanLost \/ UNCHANGED tab
    PROVE  TillInv'
<1>1. CASE UNCHANGED tab
  BY <1>1 DEF tab, TillInv, SalesAsked, SaleAsked, ReceiptKnown, SoldAs
<1> QED BY <1>1, TillPageSteps, TillAnswers, SaleServedStep, AroundTheTill DEF TillNext

\* What a step does to the area it is in.
LEMMA StepInArea ==
    ASSUME [Next]_tab
    PROVE  /\ area' = area
           /\ area = "till" => \/ TillNext \/ RequestLost \/ OrphanLost
                               \/ UNCHANGED tab
BY DEF Next, In, RequestLost, OrphanLost, Resting, tab

\* The receipt on the screen is that of a sale that was made.
THEOREM ReceiptAlwaysOfSale == Spec => []ReceiptIsSale
<1> DEFINE Inv == area = "till" => TillInv
<1>1. Init => Inv
  BY TillStarts DEF Init
<1>2. Inv /\ [Next]_tab => Inv'
  BY StepInArea, TillSteps
<1>3. Inv => ReceiptIsSale
  BY DEF TillInv, ReceiptKnown, SoldAs, ReceiptIsSale, AtTill
<1> QED BY <1>1, <1>2, <1>3, PTL DEF Spec

-----------------------------------------------------------------------------
(* The slots.                                                              *)

FreeIn(cs) == {i \in Slots : cs[i].op = "none"}

\* A request is put into a slot that is free.
LEMMA NextSlotFree ==
    ASSUME NEW cs, FreeIn(cs) # {} PROVE NextSlot(cs) \in FreeIn(cs)
<1> DEFINE R == {ss \in Nat \X Nat : ss[1] < ss[2]}
<1>1. IsWellFoundedOn(R, Nat)
  BY NatLessThanWellFounded DEF OpToRel
<1>2. FreeIn(cs) \subseteq Nat
  BY SlotsFinite DEF FreeIn
<1>3. PICK x \in FreeIn(cs) : \A y \in FreeIn(cs) : <<y, x>> \notin R
  <2> HIDE DEF R
  <2> QED BY <1>1, <1>2, WFMin
<1>4. ASSUME NEW y \in FreeIn(cs) PROVE x <= y
  <2>1. x \in Nat /\ y \in Nat /\ <<y, x>>[1] = y /\ <<y, x>>[2] = x
    BY <1>2
  <2>2. ~(y < x)
    BY <1>3, <2>1
  <2> QED BY <2>1, <2>2
<1>5. \E i \in Slots : cs[i].op = "none" /\ \A j \in Slots : cs[j].op = "none" => i <= j
  BY <1>4 DEF FreeIn
<1> QED BY <1>5 DEF NextSlot, FreeIn

\* Where there is room for one more than k, it is found, and k are left.
LEMMA SentIntoRoom ==
    ASSUME NEW cs, DOMAIN cs = Slots, NEW op, op # "none", NEW arg,
           NEW k \in Nat, k + 1 <= Cardinality(FreeIn(cs))
    PROVE  /\ NextSlot(cs) \in FreeIn(cs)
           /\ DOMAIN Sent(cs, op, arg) = Slots
           /\ k <= Cardinality(FreeIn(Sent(cs, op, arg)))
<1>1. IsFiniteSet(FreeIn(cs)) /\ Cardinality(FreeIn(cs)) \in Nat
  <2>1. FreeIn(cs) \in SUBSET Slots
    BY DEF FreeIn
  <2> QED BY <2>1, SlotsFinite, FS_Subset, FS_CardinalityType
<1>2. FreeIn(cs) # {}
  BY <1>1, FS_EmptySet
<1>3. NextSlot(cs) \in FreeIn(cs)
  BY <1>2, NextSlotFree
<1>4. FreeIn(Sent(cs, op, arg)) = FreeIn(cs) \ {NextSlot(cs)}
  <2> DEFINE n == NextSlot(cs)
  <2> HIDE DEF n
  <2>1. Sent(cs, op, arg) = [cs EXCEPT ![n] = [op |-> op, arg |-> arg, phase |-> "sent"]]
    BY DEF Sent, n
  <2>2. FreeIn(Sent(cs, op, arg)) = FreeIn(cs) \ {n}
    BY <2>1 DEF FreeIn
  <2> QED BY <2>2 DEF n
<1>5. Cardinality(FreeIn(cs) \ {NextSlot(cs)}) = Cardinality(FreeIn(cs)) - 1
  BY <1>1, <1>3, FS_RemoveElement
<1>6. DOMAIN Sent(cs, op, arg) = Slots
  BY DEF Sent
<1> QED BY <1>1, <1>3, <1>4, <1>5, <1>6

-----------------------------------------------------------------------------
(* Reports: whom they are for, and when they were read.                    *)

AnalyticsFields ==
    {"page", "me", "requested", "store", "snapshot", "failure", "pending",
     "current", "stores", "storesCurrent", "trend"}

TrendFields == {"days", "data", "loading", "failed", "current"}

\* A report for key, read by now; its reader is v's, who may see it.
ReportFor(m, key) ==
    m.view = key[1] /\ m.store = key[2] /\ m.gen \in Nat /\ m.gen <= server.gen

MaySee(v, key) == v.me = "admin" \/ key[1] = CanonicalView(v.me)

\* The page keeps a report with the key it is for, and a trend.
SnapshotRight(v) ==
    /\ AnalyticsFields \subseteq DOMAIN v
    /\ v.snapshot # None =>
          ReportFor(v.snapshot.metrics, v.snapshot.key) /\ MaySee(v, v.snapshot.key)

TrendRight(v) ==
    /\ TrendFields \subseteq DOMAIN v.trend
    /\ v.trend.data # None =>
          v.trend.data.gen \in Nat /\ v.trend.data.gen <= server.gen

\* A request for a report is for something that the reader may see, and its
\* answer is what it asked for.
ReportAsked(v, c) ==
    /\ c.op = "metrics" =>
          /\ v.page = "analytics"
          /\ MaySee(v, c.arg.key)
          /\ c.phase = "answered" => ReportFor(c.ans, c.arg.key)
    /\ c.op = "trend" /\ c.phase = "answered" =>
          c.ans.gen \in Nat /\ c.ans.gen <= server.gen
    /\ c.phase # "orphan"

ReportsAsked ==
    DOMAIN calls = Slots /\ \A i \in Slots : ReportAsked(view, calls[i])

\* The request whose answer is awaited was made after what is shown was read.
AwaitsMetrics ==
    view.current # None =>
        /\ view.current \in Slots
        /\ calls[view.current].op = "metrics"
        /\ (calls[view.current].phase = "answered" /\ view.snapshot # None) =>
              view.snapshot.metrics.gen <= calls[view.current].ans.gen

AwaitsTrend ==
    view.trend.current # None =>
        /\ view.trend.current \in Slots
        /\ calls[view.trend.current].op = "trend"
        /\ (calls[view.trend.current].phase = "answered" /\ view.trend.data # None) =>
              view.trend.data.gen <= calls[view.trend.current].ans.gen

AnalyticsRight ==
    SnapshotRight(view) /\ TrendRight(view) /\ AwaitsMetrics /\ AwaitsTrend

DashInv ==
    /\ DOMAIN server = {"gen"} /\ server.gen \in Nat
    /\ view.page \in {"blank", "analytics", "overview", "storeHome"}
    /\ "page" \in DOMAIN view
    /\ ReportsAsked
    /\ view.page = "analytics" => AnalyticsRight

LEMMA DashStarts == ASSUME DashboardsInit PROVE DashInv
<1>1. ReportsAsked
  BY DEF DashboardsInit, NoCalls, NoCall, ReportsAsked, ReportAsked
<1> QED BY <1>1 DEF DashboardsInit, DashInv

-----------------------------------------------------------------------------
(* The effects.                                                            *)


\* Three flags and the number of them that are up.
LEMMA FlagsCounted ==
    ASSUME NEW a \in BOOLEAN, NEW b \in BOOLEAN, NEW c \in BOOLEAN
    PROVE  Cardinality({n \in {1, 2, 3} : <<a, b, c>>[n]}) =
              (IF a THEN 1 ELSE 0) + (IF b THEN 1 ELSE 0) + (IF c THEN 1 ELSE 0)
<1> DEFINE A == IF a THEN {1} ELSE {}
           B == IF b THEN A \cup {2} ELSE A
           C == IF c THEN B \cup {3} ELSE B
<1>1. {n \in {1, 2, 3} : <<a, b, c>>[n]} = C
  OBVIOUS
<1>2. IsFiniteSet(A) /\ Cardinality(A) = IF a THEN 1 ELSE 0
  BY FS_EmptySet, FS_Singleton
<1>3. IsFiniteSet(B) /\ Cardinality(B) = Cardinality(A) + IF b THEN 1 ELSE 0
  <2>1. 2 \notin A
    OBVIOUS
  <2> HIDE DEF A
  <2>2. CASE b
    BY <1>2, <2>1, <2>2, FS_AddElement
  <2>3. CASE ~b
    BY <1>2, <2>3
  <2> QED BY <2>2, <2>3
<1>4. Cardinality(C) = Cardinality(B) + IF c THEN 1 ELSE 0
  <2>1. 3 \notin B
    OBVIOUS
  <2> HIDE DEF B
  <2>2. CASE c
    BY <1>3, <2>1, <2>2, FS_AddElement
  <2>3. CASE ~c
    BY <1>2, <1>3, <2>3
  <2> QED BY <2>2, <2>3
<1> HIDE DEF A, B, C
<1> QED BY <1>1, <1>2, <1>3, <1>4

\* What the effects of a render send, and where.
LEMMA EffectsSend ==
    ASSUME DOMAIN calls = Slots, NEW v, AnalyticsFields \subseteq DOMAIN v,
           Effects(v, TRUE)
    PROVE  /\ DOMAIN calls' = Slots
           /\ \A j \in Slots :
                 \/ calls'[j] = calls[j]
                 \/ /\ calls'[j].phase = "sent"
                    /\ calls'[j].op \in {"metrics", "stores", "trend"}
                    /\ calls'[j].op = "metrics" =>
                          calls'[j].arg.key = RequestKey(v) /\ ~Unauthorized(v)
           /\ view'.pending => view'.current # None \/ (v.pending /\ Unauthorized(v))
           /\ view'.trend.loading => view'.trend.current # None
           /\ view'.current # None =>
                 view'.current \in Slots /\ calls'[view'.current].op = "metrics"
                    /\ calls'[view'.current].phase = "sent"
           /\ view'.trend.current # None =>
                 view'.trend.current \in Slots /\ calls'[view'.trend.current].op = "trend"
                    /\ calls'[view'.trend.current].phase = "sent"
<1> DEFINE asks == TRUE /\ ~Unauthorized(v)
           stores == asks /\ ActiveView(v) = "store"
           trend == TrendWanted(v) /\ (TRUE \/ ~TrendMounted(v))
           n2 == IF stores THEN 1 ELSE 0
           n3 == IF trend THEN 1 ELSE 0
           cs1 == IF asks
                  THEN Sent(calls, "metrics", [key |-> RequestKey(v)]) ELSE calls
           cs2 == IF stores THEN Sent(cs1, "stores", [for |-> v.me]) ELSE cs1
           days == IF TrendMounted(v) THEN v.trend.days ELSE DefaultPeriod
           cs3 == IF trend THEN Sent(cs2, "trend", [days |-> days]) ELSE cs2
           k1 == NextSlot(calls)
           k2 == NextSlot(cs1)
           k3 == NextSlot(cs2)
<1>1. /\ Room(Cardinality({n \in {1, 2, 3} : <<asks, stores, trend>>[n]}))
      /\ calls' = cs3
      /\ view'.current = IF asks THEN k1 ELSE None
      /\ view'.pending = (asks \/ v.pending)
      /\ view'.trend = IF trend THEN TrendStarted(days, v.trend.data, k3) ELSE NoTrend
  <2>1. /\ Room(Cardinality({n \in {1, 2, 3} : <<asks, stores, trend>>[n]}))
        /\ calls' = cs3
        /\ view' =
             [v EXCEPT
                !.current = IF asks THEN k1 ELSE IF TRUE THEN None ELSE @,
                !.pending = asks \/ @,
                !.failure = IF asks THEN None ELSE @,
                !.storesCurrent = IF stores THEN k2 ELSE IF TRUE THEN None ELSE @,
                !.trend = IF trend THEN TrendStarted(days, @.data, k3)
                          ELSE IF TrendWanted(v) THEN @ ELSE NoTrend]
    BY DEF Effects
  <2>2. TrendWanted(v) => trend
    OBVIOUS
  <2> HIDE DEF asks, stores, trend, k1, k2, k3, days, cs3
  <2> QED BY <2>1, <2>2 DEF AnalyticsFields
<1>2. asks \in BOOLEAN /\ stores \in BOOLEAN /\ trend \in BOOLEAN
  BY DEF TrendWanted, Unauthorized
<1>3. (IF asks THEN 1 ELSE 0) + n2 + n3 <= Cardinality(FreeIn(calls))
  BY <1>1, <1>2, FlagsCounted DEF Room, Free, FreeIn
<1>4. n2 \in Nat /\ n3 \in Nat /\ n2 + n3 \in Nat
  OBVIOUS
<1>5. /\ asks => k1 \in FreeIn(calls)
      /\ DOMAIN cs1 = Slots /\ n2 + n3 <= Cardinality(FreeIn(cs1))
  <2> HIDE DEF n2, n3, stores, trend
  <2>1. CASE asks
    BY <1>3, <1>4, <2>1, SentIntoRoom
  <2>2. CASE ~asks
    BY <1>3, <1>4, <2>2
  <2> QED BY <2>1, <2>2
<1>6. /\ stores => k2 \in FreeIn(cs1)
      /\ DOMAIN cs2 = Slots /\ n3 <= Cardinality(FreeIn(cs2))
  <2> HIDE DEF n3, asks, trend, cs1
  <2>1. CASE stores
    BY <1>4, <1>5, <2>1, SentIntoRoom
  <2>2. CASE ~stores
    BY <1>4, <1>5, <2>2
  <2> QED BY <2>1, <2>2
<1>7. /\ trend => k3 \in FreeIn(cs2)
      /\ DOMAIN cs3 = Slots
  <2> HIDE DEF asks, stores, cs2
  <2>1. CASE trend
    BY <1>6, <2>1, SentIntoRoom
  <2>2. CASE ~trend
    BY <1>6, <2>2
  <2> QED BY <2>1, <2>2
<1> HIDE DEF k1, k2, k3, days, trend, stores, asks, n2, n3
<1> DEFINE m1 == [op |-> "metrics", arg |-> [key |-> RequestKey(v)], phase |-> "sent"]
           m2 == [op |-> "stores", arg |-> [for |-> v.me], phase |-> "sent"]
           m3 == [op |-> "trend", arg |-> [days |-> days], phase |-> "sent"]
<1>8. /\ cs1 = IF asks THEN [calls EXCEPT ![k1] = m1] ELSE calls
      /\ cs2 = IF stores THEN [cs1 EXCEPT ![k2] = m2] ELSE cs1
      /\ cs3 = IF trend THEN [cs2 EXCEPT ![k3] = m3] ELSE cs2
  BY DEF Sent, k1, k2, k3
<1>9. stores => asks
  BY DEF stores
<1> HIDE DEF cs1, cs2, cs3
<1>10. /\ m1.op = "metrics" /\ m1.phase = "sent" /\ m1.arg.key = RequestKey(v)
       /\ m2.op = "stores" /\ m2.phase = "sent"
       /\ m3.op = "trend" /\ m3.phase = "sent"
  OBVIOUS
<1> HIDE DEF m1, m2, m3
<1>11. \A j \in Slots : \/ cs3[j] = calls[j]
                        \/ asks /\ cs3[j] = m1
                        \/ cs3[j] = m2 \/ cs3[j] = m3
  BY <1>5, <1>6, <1>7, <1>8
<1>12. asks => k1 \in Slots /\ cs3[k1] = m1
  <2>1. asks => k1 \in Slots /\ cs1[k1] = m1
    BY <1>5, <1>8 DEF FreeIn
  <2>2. asks => cs2[k1] = m1
    BY <1>5, <1>6, <1>8, <1>10, <2>1 DEF FreeIn
  <2> QED BY <1>6, <1>7, <1>8, <1>10, <2>1, <2>2 DEF FreeIn
<1>13. trend => k3 \in Slots /\ cs3[k3] = m3
  BY <1>6, <1>7, <1>8 DEF FreeIn
<1>14. /\ asks => view'.current = k1
       /\ trend => view'.trend.current = k3
       /\ ~trend => ~view'.trend.loading
       /\ view'.current # None => asks /\ view'.current = k1
       /\ view'.trend.current # None => trend /\ view'.trend.current = k3
  BY <1>1 DEF TrendStarted, NoTrend
<1>15. DOMAIN calls' = Slots
  BY <1>1, <1>7
<1>16. ASSUME NEW j \in Slots
       PROVE  \/ calls'[j] = calls[j]
              \/ /\ calls'[j].phase = "sent"
                 /\ calls'[j].op \in {"metrics", "stores", "trend"}
                 /\ calls'[j].op = "metrics" =>
                       calls'[j].arg.key = RequestKey(v) /\ ~Unauthorized(v)
  BY <1>1, <1>10, <1>11 DEF asks
<1>17. view'.pending => view'.current # None \/ (v.pending /\ Unauthorized(v))
  <2>1. asks => view'.current # None
    BY <1>12, <1>14, NoneIsNoSlot
  <2>2. view'.pending => asks \/ v.pending
    BY <1>1
  <2>3. ~asks => Unauthorized(v)
    BY DEF asks
  <2> QED BY <2>1, <2>2, <2>3
<1>18. view'.trend.loading => view'.trend.current # None
  BY <1>13, <1>14, NoneIsNoSlot
<1> QED BY <1>1, <1>10, <1>12, <1>13, <1>14, <1>15, <1>16, <1>17, <1>18

\* What the effects leave as it was.
LEMMA EffectsShow ==
    ASSUME NEW v, AnalyticsFields \subseteq DOMAIN v,
           TrendFields \subseteq DOMAIN v.trend, Effects(v, TRUE)
    PROVE  /\ DOMAIN view' = DOMAIN v
           /\ view'.page = v.page /\ view'.me = v.me
           /\ view'.requested = v.requested /\ view'.store = v.store
           /\ view'.snapshot = v.snapshot
           /\ TrendFields \subseteq DOMAIN view'.trend
           /\ view'.trend.data \in {None, v.trend.data}
           /\ view'.trend.loading \/ view'.trend.data = None
<1> DEFINE asks == TRUE /\ ~Unauthorized(v)
           stores == asks /\ ActiveView(v) = "store"
           trend == TrendWanted(v) /\ (TRUE \/ ~TrendMounted(v))
           cs1 == IF asks
                  THEN Sent(calls, "metrics", [key |-> RequestKey(v)]) ELSE calls
           cs2 == IF stores THEN Sent(cs1, "stores", [for |-> v.me]) ELSE cs1
           days == IF TrendMounted(v) THEN v.trend.days ELSE DefaultPeriod
           k1 == NextSlot(calls)
           k2 == NextSlot(cs1)
           k3 == NextSlot(cs2)
<1>1. view' =
         [v EXCEPT
            !.current = IF asks THEN k1 ELSE IF TRUE THEN None ELSE @,
            !.pending = asks \/ @,
            !.failure = IF asks THEN None ELSE @,
            !.storesCurrent = IF stores THEN k2 ELSE IF TRUE THEN None ELSE @,
            !.trend = IF trend THEN TrendStarted(days, @.data, k3)
                      ELSE IF TrendWanted(v) THEN @ ELSE NoTrend]
  BY DEF Effects
<1>2. TrendWanted(v) => trend
  OBVIOUS
<1> HIDE DEF asks, stores, trend, days, k1, k2, k3
<1>3. view'.trend = IF trend THEN TrendStarted(days, v.trend.data, k3) ELSE NoTrend
  BY <1>1, <1>2 DEF AnalyticsFields
<1> QED BY <1>1, <1>3 DEF AnalyticsFields, TrendFields, TrendStarted, NoTrend

\* After the effects of a render of the analytics page.
LEMMA EffectsStep ==
    ASSUME DOMAIN server = {"gen"}, server.gen \in Nat, server' = server,
           DOMAIN calls = Slots, NEW v, v.page = "analytics",
           SnapshotRight(v), TrendRight(v), \A i \in Slots : ReportAsked(v, calls[i]),
           Effects(v, TRUE)
    PROVE  DashInv'
<1> USE DEF SnapshotRight, TrendRight
<1>1. /\ DOMAIN view' = DOMAIN v
      /\ view'.page = v.page /\ view'.me = v.me
      /\ view'.snapshot = v.snapshot
      /\ TrendFields \subseteq DOMAIN view'.trend
      /\ view'.trend.data \in {None, v.trend.data}
  BY EffectsShow
<1>2. SnapshotRight(view)' /\ TrendRight(view)'
  BY <1>1 DEF ReportFor, MaySee
<1>3. ReportsAsked'
  <2>1. RequestKey(v)[1] = ActiveView(v)
    BY DEF RequestKey
  <2>2. ~Unauthorized(v) => MaySee(v, RequestKey(v))
    BY <2>1 DEF Unauthorized, MaySee
  <2> HIDE DEF SnapshotRight, TrendRight
  <2>3. ASSUME NEW j \in Slots PROVE ReportAsked(view, calls[j])'
    <3>1. CASE calls'[j] = calls[j]
      BY <1>1, <3>1 DEF ReportAsked, MaySee, ReportFor
    <3>2. CASE /\ calls'[j].phase = "sent"
               /\ calls'[j].op = "metrics" =>
                     calls'[j].arg.key = RequestKey(v) /\ ~Unauthorized(v)
      BY <1>1, <2>2, <3>2 DEF ReportAsked, MaySee
    <3> QED BY <3>1, <3>2, EffectsSend DEF SnapshotRight
  <2> QED BY <2>3, EffectsSend DEF ReportsAsked, SnapshotRight
<1>4. AwaitsMetrics' /\ AwaitsTrend'
  BY EffectsSend DEF AwaitsMetrics, AwaitsTrend
<1>5. "page" \in DOMAIN view'
  BY <1>1 DEF AnalyticsFields
<1> QED BY <1>1, <1>2, <1>3, <1>4, <1>5 DEF DashInv, AnalyticsRight

-----------------------------------------------------------------------------
(* The steps of the page.                                                  *)

LEMMA SelectionSteps ==
    ASSUME DashInv, OpenAnalytics \/ SelectView \/ SelectStore \/ RefreshAnalytics
    PROVE  DashInv'
<1>1. CASE OpenAnalytics
  <2>1. PICK role \in Viewers, requested \in Views \cup {None} :
           Effects(AnalyticsMounted(role, requested), TRUE)
    BY <1>1 DEF OpenAnalytics
  <2> DEFINE v == AnalyticsMounted(role, requested)
  <2>2. v.page = "analytics" /\ SnapshotRight(v) /\ TrendRight(v)
    BY DEF AnalyticsMounted, SnapshotRight, TrendRight, AnalyticsFields, TrendFields,
       NoTrend
  <2> HIDE DEF v
  <2>3. ASSUME NEW i \in Slots PROVE ReportAsked(v, calls[i])
    BY <1>1 DEF OpenAnalytics, DashInv, ReportsAsked, ReportAsked
  <2> QED BY <1>1, <2>1, <2>2, <2>3, EffectsStep
       DEF OpenAnalytics, DashInv, ReportsAsked, v
<1>2. CASE SelectView
  <2>1. PICK requested :
           Effects([view EXCEPT !.requested = requested, !.trend = NoTrend], TRUE)
    BY <1>2 DEF SelectView
  <2> DEFINE v == [view EXCEPT !.requested = requested, !.trend = NoTrend]
  <2>2. v.page = "analytics" /\ SnapshotRight(v) /\ TrendRight(v) /\ v.me = view.me
    BY <1>2 DEF SelectView, DashInv, AnalyticsRight, SnapshotRight, TrendRight,
       AnalyticsFields, TrendFields, NoTrend, MaySee
  <2> HIDE DEF v
  <2>3. ASSUME NEW i \in Slots PROVE ReportAsked(v, calls[i])
    BY <1>2, <2>2 DEF SelectView, DashInv, ReportsAsked, ReportAsked, MaySee
  <2> QED BY <1>2, <2>1, <2>2, <2>3, EffectsStep
       DEF SelectView, DashInv, ReportsAsked, v
<1>3. CASE SelectStore
  <2>1. PICK s : Effects([view EXCEPT !.store = s], TRUE)
    BY <1>3 DEF SelectStore
  <2> DEFINE v == [view EXCEPT !.store = s]
  <2>2. v.page = "analytics" /\ SnapshotRight(v) /\ TrendRight(v) /\ v.me = view.me
    BY <1>3 DEF SelectStore, DashInv, AnalyticsRight, SnapshotRight, TrendRight,
       AnalyticsFields, TrendFields, MaySee
  <2> HIDE DEF v
  <2>3. ASSUME NEW i \in Slots PROVE ReportAsked(v, calls[i])
    BY <1>3, <2>2 DEF SelectStore, DashInv, ReportsAsked, ReportAsked, MaySee
  <2> QED BY <1>3, <2>1, <2>2, <2>3, EffectsStep
       DEF SelectStore, DashInv, ReportsAsked, v
<1>4. CASE RefreshAnalytics
  BY <1>4, EffectsStep DEF RefreshAnalytics, DashInv, ReportsAsked, AnalyticsRight
<1> QED BY <1>1, <1>2, <1>3, <1>4

\* A slot that is finished with is not the one that is awaited.
LEMMA FinishedReport ==
    ASSUME DashInv, NEW i \in Slots, Finish(i), server' = server,
           view'.page = view.page, DOMAIN view' = DOMAIN view,
           view.page = "analytics" =>
              /\ view'.me = view.me
              /\ SnapshotRight(view)' /\ TrendRight(view)'
              /\ \/ view'.current = None
                 \/ /\ view'.current = view.current /\ view.current # i
                    /\ view'.snapshot = view.snapshot
              /\ \/ view'.trend.current = None
                 \/ /\ view'.trend.current = view.trend.current
                    /\ view.trend.current # i
                    /\ view'.trend.data = view.trend.data
    PROVE  DashInv'
<1>1. /\ DOMAIN calls' = Slots /\ calls'[i] = NoCall
      /\ \A j \in Slots \ {i} : calls'[j] = calls[j]
  BY DEF Finish, DashInv, ReportsAsked
<1>2. ReportsAsked'
  BY <1>1 DEF DashInv, ReportsAsked, ReportAsked, MaySee, ReportFor, NoCall
<1>3. view.page = "analytics" => AwaitsMetrics' /\ AwaitsTrend'
  BY <1>1 DEF DashInv, AnalyticsRight, AwaitsMetrics, AwaitsTrend
<1> QED BY <1>2, <1>3 DEF DashInv, AnalyticsRight

LEMMA MetricsSteps ==
    ASSUME DashInv, NEW i \in Slots, MetricsArrive(i) \/ MetricsThrow(i)
    PROVE  DashInv'
<1>1. /\ view.page = "analytics" /\ AnalyticsRight /\ server' = server
      /\ calls[i].op = "metrics" /\ ReportAsked(view, calls[i])
      /\ view.trend.current # i
  <2>1. view.page = "analytics" /\ server' = server /\ calls[i].op = "metrics"
    BY DEF MetricsArrive, MetricsThrow, Returns, Throws
  <2> QED BY <2>1, NoneIsNoSlot DEF DashInv, ReportsAsked, AnalyticsRight, AwaitsTrend
<1>2. CASE MetricsArrive(i) /\ view.current = i
  <2> DEFINE v == [view EXCEPT
                     !.snapshot = [key |-> calls[i].arg.key, metrics |-> calls[i].ans],
                     !.current = None, !.pending = FALSE]
  <2>1. /\ v.page = "analytics" /\ v.me = view.me /\ v.trend = view.trend
        /\ DOMAIN v = DOMAIN view /\ v.current = None
        /\ v.snapshot = [key |-> calls[i].arg.key, metrics |-> calls[i].ans]
    BY <1>1 DEF AnalyticsRight, SnapshotRight, AnalyticsFields
  <2>2. \/ /\ Continue(i, "trend", [days |-> DefaultPeriod])
           /\ view' = [v EXCEPT !.trend = TrendStarted(DefaultPeriod, None, i)]
        \/ Finish(i) /\ view' = v
    BY <1>2 DEF MetricsArrive, IsCurrent
  <2> HIDE DEF v
  <2>3. SnapshotRight(v) /\ TrendRight(v)
    BY <1>1, <1>2, <2>1 DEF AnalyticsRight, SnapshotRight, TrendRight, ReportAsked,
       ReportFor, MaySee, MetricsArrive, Returns
  <2>4. CASE Finish(i) /\ view' = v
    <3>1. SnapshotRight(view)' /\ TrendRight(view)'
      BY <1>1, <2>3, <2>4 DEF SnapshotRight, TrendRight, ReportFor, MaySee
    <3> QED BY <1>1, <2>1, <2>4, <3>1, FinishedReport
  <2>5. CASE /\ Continue(i, "trend", [days |-> DefaultPeriod])
             /\ view' = [v EXCEPT !.trend = TrendStarted(DefaultPeriod, None, i)]
    <3>1. /\ DOMAIN calls' = Slots
          /\ calls'[i].op = "trend" /\ calls'[i].phase = "sent"
          /\ \A j \in Slots \ {i} : calls'[j] = calls[j]
      BY <2>5 DEF Continue, DashInv, ReportsAsked
    <3>2. /\ view'.page = "analytics" /\ view'.me = view.me
          /\ DOMAIN view' = DOMAIN view /\ view'.snapshot = v.snapshot
          /\ view'.current = None
          /\ view'.trend = TrendStarted(DefaultPeriod, None, i)
      BY <1>1, <2>1, <2>5 DEF AnalyticsRight, SnapshotRight, AnalyticsFields
    <3>3. ReportsAsked'
      BY <1>1, <3>1, <3>2 DEF DashInv, ReportsAsked, ReportAsked, MaySee, ReportFor
    <3>4. SnapshotRight(view)'
      BY <1>1, <2>3, <3>2, <2>1 DEF SnapshotRight, ReportFor, MaySee
    <3>5. TrendRight(view)' /\ AwaitsTrend' /\ AwaitsMetrics'
      BY <3>1, <3>2 DEF TrendRight, TrendFields, TrendStarted, AwaitsTrend, AwaitsMetrics
    <3> QED BY <1>1, <3>2, <3>3, <3>4, <3>5 DEF DashInv, AnalyticsRight
  <2> QED BY <2>2, <2>4, <2>5
<1>3. CASE MetricsThrow(i) \/ view.current # i
  <2>1. /\ Finish(i) /\ view'.page = view.page /\ DOMAIN view' = DOMAIN view
        /\ view'.me = view.me /\ view'.snapshot = view.snapshot
        /\ view'.trend = view.trend
        /\ \/ view'.current = None
           \/ view'.current = view.current /\ view.current # i
    <3>1. CASE view.current # i /\ MetricsArrive(i)
      <4>1. Finish(i) /\ view' = view
        BY <3>1 DEF MetricsArrive, IsCurrent
      <4> QED BY <3>1, <4>1
    <3>2. CASE MetricsThrow(i)
      <4> DEFINE v == [view EXCEPT !.failure = calls[i].arg.key,
                                   !.current = None, !.pending = FALSE]
      <4>1. Finish(i) /\ view' = IF view.current = i THEN v ELSE view
        BY <3>2 DEF MetricsThrow, IsCurrent
      <4>2. /\ v.page = view.page /\ DOMAIN v = DOMAIN view /\ v.me = view.me
            /\ v.snapshot = view.snapshot /\ v.trend = view.trend /\ v.current = None
        BY <1>1 DEF AnalyticsRight, SnapshotRight, AnalyticsFields
      <4> HIDE DEF v
      <4> QED BY <4>1, <4>2
    <3> QED BY <1>3, <3>1, <3>2
  <2>2. SnapshotRight(view)' /\ TrendRight(view)'
    BY <1>1, <2>1 DEF AnalyticsRight, SnapshotRight, TrendRight, ReportFor, MaySee
  <2> QED BY <1>1, <2>1, <2>2, FinishedReport
<1> QED BY <1>2, <1>3

LEMMA SettlingSteps ==
    ASSUME DashInv, NEW i \in Slots,
           StoresSettle(i) \/ TrendSettles(i) \/ OverviewSettles(i)
    PROVE  DashInv'
<1>1. CASE StoresSettle(i)
  <2>1. /\ view.page = "analytics" /\ server' = server /\ Finish(i)
        /\ calls[i].op = "stores"
    BY <1>1 DEF StoresSettle, Returns, Throws
  <2>2. AnalyticsRight /\ view.current # i /\ view.trend.current # i
    BY <2>1, NoneIsNoSlot DEF DashInv, AnalyticsRight, AwaitsMetrics, AwaitsTrend
  <2>3. /\ view'.page = view.page /\ DOMAIN view' = DOMAIN view
        /\ view'.me = view.me /\ view'.snapshot = view.snapshot
        /\ view'.trend = view.trend /\ view'.current = view.current
    BY <1>1, <2>2 DEF StoresSettle, AnalyticsRight, SnapshotRight, AnalyticsFields
  <2>4. SnapshotRight(view)' /\ TrendRight(view)'
    BY <2>1, <2>2, <2>3 DEF AnalyticsRight, SnapshotRight, TrendRight, ReportFor, MaySee
  <2> QED BY <2>1, <2>2, <2>3, <2>4, FinishedReport
<1>2. CASE TrendSettles(i)
  <2>1. /\ view.page = "analytics" /\ server' = server /\ Finish(i)
        /\ calls[i].op = "trend" /\ ReportAsked(view, calls[i])
    BY <1>2 DEF TrendSettles, Returns, Throws, DashInv, ReportsAsked
  <2>2. AnalyticsRight /\ view.current # i
    BY <2>1, NoneIsNoSlot DEF DashInv, AnalyticsRight, AwaitsMetrics
  <2>3. /\ view'.page = view.page /\ DOMAIN view' = DOMAIN view
        /\ view'.me = view.me /\ view'.snapshot = view.snapshot
        /\ view'.current = view.current
    BY <1>2, <2>2 DEF TrendSettles, AnalyticsRight, SnapshotRight, AnalyticsFields
  <2>4. \/ view'.trend = view.trend /\ view.trend.current # i
        \/ /\ DOMAIN view'.trend = DOMAIN view.trend
           /\ view'.trend.current = None
           /\ \/ view'.trend.data = view.trend.data
              \/ Returns(i, "trend") /\ view'.trend.data = calls[i].ans
    <3> DEFINE t == [view.trend EXCEPT
                       !.loading = FALSE, !.current = None,
                       !.failed = Throws(i, "trend"),
                       !.data = IF Returns(i, "trend") THEN calls[i].ans ELSE @]
    <3>1. CASE view.trend.current = i
      <4>1. view'.trend = t
        BY <1>2, <2>2, <3>1 DEF TrendSettles, IsCurrent, AnalyticsRight, SnapshotRight,
           AnalyticsFields, TrendRight, TrendFields
      <4>2. /\ DOMAIN t = DOMAIN view.trend /\ t.current = None
            /\ t.data = IF Returns(i, "trend") THEN calls[i].ans ELSE view.trend.data
        BY <2>2 DEF AnalyticsRight, TrendRight, TrendFields
      <4> QED BY <4>1, <4>2
    <3>2. CASE view.trend.current # i
      BY <1>2, <3>2 DEF TrendSettles, IsCurrent
    <3> QED BY <3>1, <3>2
  <2>5. SnapshotRight(view)' /\ TrendRight(view)'
    BY <2>1, <2>2, <2>3, <2>4 DEF AnalyticsRight, SnapshotRight, TrendRight, ReportFor,
       MaySee, ReportAsked, Returns
  <2>6. \/ view'.trend.current = None
        \/ view'.trend = view.trend /\ view.trend.current # i
    BY <2>4
  <2> QED BY <2>1, <2>2, <2>3, <2>5, <2>6, FinishedReport
<1>3. CASE OverviewSettles(i)
  BY <1>3, FinishedReport DEF OverviewSettles, DashInv
<1> QED BY <1>1, <1>2, <1>3

\* A request goes into a slot where nothing is awaited.
LEMMA SendIsFresh ==
    ASSUME DashInv, NEW op, op # "none", NEW arg, Send(op, arg)
    PROVE  /\ NextSlot(calls) \in Slots /\ calls[NextSlot(calls)].op = "none"
           /\ DOMAIN calls' = Slots
           /\ calls'[NextSlot(calls)].op = op
           /\ calls'[NextSlot(calls)].phase = "sent"
           /\ \A j \in Slots \ {NextSlot(calls)} : calls'[j] = calls[j]
<1>1. 0 + 1 <= Cardinality(FreeIn(calls))
  BY DEF Send, Room, Free, FreeIn
<1>2. NextSlot(calls) \in FreeIn(calls) /\ DOMAIN calls = Slots
  BY <1>1, SentIntoRoom DEF DashInv, ReportsAsked
<1> QED BY <1>2 DEF Send, Sent, FreeIn

LEMMA AskingSteps ==
    ASSUME DashInv, \/ SelectPeriod \/ ReloadOverview
                    \/ \E page \in {"overview", "storeHome"} : OpenOverview(page)
    PROVE  DashInv'
<1> DEFINE n == NextSlot(calls)
<1>1. CASE SelectPeriod
  <2>1. PICK days : /\ Send("trend", [days |-> days])
                    /\ view' = [view EXCEPT !.trend = TrendStarted(days, @.data, n)]
    BY <1>1 DEF SelectPeriod
  <2>2. view.page = "analytics" /\ AnalyticsRight /\ server' = server
    BY <1>1 DEF SelectPeriod, DashInv
  <2>3. /\ n \in Slots /\ calls[n].op = "none" /\ DOMAIN calls' = Slots
        /\ calls'[n].op = "trend" /\ calls'[n].phase = "sent"
        /\ \A j \in Slots \ {n} : calls'[j] = calls[j]
    BY <2>1, SendIsFresh
  <2> HIDE DEF n
  <2>4. /\ DOMAIN view' = DOMAIN view /\ view'.page = view.page /\ view'.me = view.me
        /\ view'.snapshot = view.snapshot /\ view'.current = view.current
        /\ view'.trend = TrendStarted(days, view.trend.data, n)
    BY <2>1, <2>2 DEF AnalyticsRight, SnapshotRight, AnalyticsFields
  <2>5. SnapshotRight(view)' /\ TrendRight(view)'
    BY <2>2, <2>4 DEF AnalyticsRight, SnapshotRight, TrendRight, TrendFields, ReportFor,
       MaySee, TrendStarted
  <2>6. ReportsAsked'
    BY <2>2, <2>3, <2>4 DEF DashInv, ReportsAsked, ReportAsked, MaySee, ReportFor
  <2>7. AwaitsMetrics' /\ AwaitsTrend'
    BY <2>2, <2>3, <2>4 DEF AnalyticsRight, AwaitsMetrics, AwaitsTrend, TrendStarted
  <2> QED BY <2>2, <2>4, <2>5, <2>6, <2>7 DEF DashInv, AnalyticsRight
<1>2. CASE ReloadOverview \/ \E page \in {"overview", "storeHome"} : OpenOverview(page)
  <2>1. /\ server' = server /\ view.page # "analytics"
        /\ \E page : Send("overview", [of |-> page])
    BY <1>2 DEF ReloadOverview, OpenOverview
  <2>2. view'.page \in {"overview", "storeHome"} /\ "page" \in DOMAIN view'
    BY <1>2 DEF ReloadOverview, OpenOverview, DashInv
  <2>3. /\ DOMAIN calls' = Slots
        /\ \A j \in Slots : \/ calls'[j] = calls[j]
                            \/ calls'[j].op = "overview" /\ calls'[j].phase = "sent"
    BY <2>1, SendIsFresh
  <2>4. ReportsAsked'
    BY <2>1, <2>3 DEF DashInv, ReportsAsked, ReportAsked, ReportFor
  <2> QED BY <2>1, <2>2, <2>4 DEF DashInv
<1> QED BY <1>1, <1>2

-----------------------------------------------------------------------------
(* The steps of the API.                                                   *)

\* A report is read after everything that the page shows.
LEMMA ReadReport ==
    ASSUME DashInv, NEW i \in Slots, ReportRead(i) PROVE DashInv'
<1>1. /\ view' = view /\ server' = server
      /\ calls[i].phase = "sent"
      /\ calls[i].op \in {"metrics", "trend", "stores", "overview"}
      /\ DOMAIN calls' = Slots
      /\ calls'[i] = [op |-> calls[i].op, arg |-> calls[i].arg, phase |-> "answered",
                      ans |-> ReportAnswer(calls[i])]
      /\ \A j \in Slots \ {i} : calls'[j] = calls[j]
  BY DEF ReportRead, Reply, DashInv, ReportsAsked
<1>2. calls[i].op = "metrics" => ReportFor(ReportAnswer(calls[i]), calls[i].arg.key)
                                 /\ ReportAnswer(calls[i]).gen = server.gen
  BY DEF ReportAnswer, ReportFor, DashInv
<1>3. calls[i].op = "trend" => ReportAnswer(calls[i]).gen = server.gen
  BY DEF ReportAnswer
<1>4. ReportsAsked'
  BY <1>1, <1>2, <1>3 DEF DashInv, ReportsAsked, ReportAsked, MaySee, ReportFor
<1>5. view.page = "analytics" => SnapshotRight(view)' /\ TrendRight(view)'
  BY <1>1 DEF DashInv, AnalyticsRight, SnapshotRight, TrendRight, ReportFor, MaySee
<1>6. view.page = "analytics" => AwaitsMetrics'
  BY <1>1, <1>2 DEF DashInv, AnalyticsRight, SnapshotRight, AwaitsMetrics, ReportFor
<1>7. view.page = "analytics" => AwaitsTrend'
  BY <1>1, <1>3 DEF DashInv, AnalyticsRight, TrendRight, AwaitsTrend
<1> QED BY <1>1, <1>4, <1>5, <1>6, <1>7 DEF DashInv, AnalyticsRight

LEMMA SalesStep ==
    ASSUME DashInv, SalesGoOn PROVE DashInv'
<1>1. /\ view' = view /\ calls' = calls /\ DOMAIN server' = {"gen"}
      /\ server'.gen = server.gen + 1 /\ server'.gen \in Nat
  BY DEF SalesGoOn, DashInv
<1>2. \A m, key : ReportFor(m, key) => ReportFor(m, key)'
  BY <1>1 DEF ReportFor, DashInv
<1>3. ReportsAsked'
  <2>1. ASSUME NEW j \in Slots PROVE ReportAsked(view, calls[j])'
    <3>1. calls[j].op = "trend" /\ calls[j].phase = "answered" =>
             calls[j].ans.gen \in Nat /\ calls[j].ans.gen <= server.gen + 1
      BY DEF DashInv, ReportsAsked, ReportAsked
    <3> QED BY <1>1, <1>2, <3>1 DEF DashInv, ReportsAsked, ReportAsked, MaySee
  <2> QED BY <1>1, <2>1 DEF DashInv, ReportsAsked
<1>4. view.page = "analytics" => SnapshotRight(view)' /\ TrendRight(view)'
  BY <1>1, <1>2 DEF DashInv, AnalyticsRight, SnapshotRight, TrendRight, MaySee
<1>5. view.page = "analytics" => AwaitsMetrics' /\ AwaitsTrend'
  BY <1>1 DEF DashInv, AnalyticsRight, AwaitsMetrics, AwaitsTrend
<1> QED BY <1>1, <1>3, <1>4, <1>5 DEF DashInv, AnalyticsRight

LEMMA ReportLost ==
    ASSUME DashInv, RequestLost \/ OrphanLost PROVE DashInv'
<1>1. view' = view /\ server' = server /\ DOMAIN calls' = Slots
  BY DEF RequestLost, OrphanLost, Refuse, Finish, DashInv, ReportsAsked
<1>2. \A j \in Slots : \/ calls'[j] = calls[j]
                       \/ /\ calls'[j].op = calls[j].op /\ calls'[j].arg = calls[j].arg
                          /\ calls'[j].phase = "failed"
                       \/ calls[j].phase = "orphan" /\ calls'[j] = NoCall
  BY DEF RequestLost, OrphanLost, Refuse, Finish, DashInv, ReportsAsked
<1>3. ReportsAsked'
  BY <1>1, <1>2 DEF DashInv, ReportsAsked, ReportAsked, ReportFor, MaySee, NoCall
<1>4. view.page = "analytics" => SnapshotRight(view)' /\ TrendRight(view)'
  BY <1>1 DEF DashInv, AnalyticsRight, SnapshotRight, TrendRight, ReportFor, MaySee
<1>5. \A j \in Slots : \/ calls'[j] = calls[j]
                       \/ calls'[j].op = calls[j].op /\ calls'[j].phase = "failed"
  BY <1>2 DEF DashInv, ReportsAsked, ReportAsked
<1>6. view.page = "analytics" => AwaitsMetrics' /\ AwaitsTrend'
  BY <1>1, <1>5 DEF DashInv, AnalyticsRight, AwaitsMetrics, AwaitsTrend
<1> QED BY <1>1, <1>3, <1>4, <1>6 DEF DashInv, AnalyticsRight

LEMMA DashSteps ==
    ASSUME DashInv, DashboardsNext \/ RequestLost \/ OrphanLost \/ UNCHANGED tab
    PROVE  DashInv'
<1>1. CASE UNCHANGED tab
  BY <1>1 DEF tab, DashInv, ReportsAsked, ReportAsked, ReportFor, MaySee, AnalyticsRight,
     SnapshotRight, TrendRight, AwaitsMetrics, AwaitsTrend
<1> QED BY <1>1, SelectionSteps, AskingSteps, MetricsSteps, SettlingSteps, ReadReport,
           SalesStep, ReportLost DEF DashboardsNext

\* What a step does to the area it is in.
LEMMA StepInDashboards ==
    ASSUME [Next]_tab
    PROVE  /\ area' = area
           /\ area = "dashboards" => \/ DashboardsNext \/ RequestLost \/ OrphanLost
                                     \/ UNCHANGED tab
BY DEF Next, In, RequestLost, OrphanLost, Resting, tab

\* Through reports and snapshots that overtake each other, changes of the
\* selection and lost requests, the dashboards keep what their answers are for.
THEOREM DashboardsRight == Spec => [](area = "dashboards" => DashInv)
<1> DEFINE Inv == area = "dashboards" => DashInv
<1>1. Init => Inv
  BY DashStarts DEF Init
<1>2. Inv /\ [Next]_tab => Inv'
  BY StepInDashboards, DashSteps
<1> QED BY <1>1, <1>2, PTL DEF Spec

\* When nothing is under way, what the dashboard shows is of the selection.
THEOREM DashboardAlwaysMatches == Spec => []DashboardMatchesSelection
<1>1. (area = "dashboards" => DashInv) => DashboardMatchesSelection
  <2> SUFFICES ASSUME DashInv, view.page = "analytics"
               PROVE  /\ Shown(view) # None =>
                            /\ Shown(view).view = ActiveView(view)
                            /\ Shown(view).store = StoreParam(view)
                            /\ ~Unauthorized(view)
                      /\ TrendShown(view.trend) # None =>
                            TrendShown(view.trend).days = view.trend.days
    BY DEF DashboardMatchesSelection
  <2>1. SnapshotRight(view)
    BY DEF DashInv, AnalyticsRight
  <2>2. /\ RequestKey(view)[1] = ActiveView(view)
        /\ RequestKey(view)[2] = StoreParam(view)
    BY DEF RequestKey
  <2>3. ASSUME Shown(view) # None
        PROVE  /\ Shown(view).view = ActiveView(view)
               /\ Shown(view).store = StoreParam(view)
               /\ ~Unauthorized(view)
    BY <2>1, <2>2, <2>3 DEF Shown, SnapshotRight, ReportFor, MaySee, Unauthorized
  <2> QED BY <2>3 DEF TrendShown
<1> QED BY <1>1, DashboardsRight, PTL

-----------------------------------------------------------------------------
(* What is shown grows.                                                    *)

\* What is kept of a report and a trend is not replaced by something older; a
\* trend that is loading is not shown.
KeptNotOlder ==
    /\ view.snapshot # None /\ view'.snapshot # None =>
          view.snapshot.metrics.gen <= view'.snapshot.metrics.gen
    /\ \/ view'.trend.loading \/ view'.trend.failed
       \/ view'.trend.data = None
       \/ view.trend.data # None => view.trend.data.gen <= view'.trend.data.gen

LEMMA StepsKeep ==
    ASSUME DashInv, DashboardsNext, view.page = "analytics"
    PROVE  KeptNotOlder
<1> USE DEF DashInv, AnalyticsRight
<1>0. ASSUME view' = view PROVE KeptNotOlder
  BY <1>0 DEF KeptNotOlder, SnapshotRight, TrendRight, ReportFor
<1>1. ASSUME NEW v, v.snapshot = view.snapshot, AnalyticsFields \subseteq DOMAIN v,
             TrendFields \subseteq DOMAIN v.trend, Effects(v, TRUE)
      PROVE  KeptNotOlder
  <2>1. /\ view'.snapshot = view.snapshot
        /\ view'.trend.loading \/ view'.trend.data = None
    BY <1>1, EffectsShow
  <2> QED BY <2>1 DEF KeptNotOlder, SnapshotRight, ReportFor
<1>2. CASE SelectView \/ SelectStore \/ RefreshAnalytics
  <2>1. CASE SelectView
    <3>1. PICK requested :
             Effects([view EXCEPT !.requested = requested, !.trend = NoTrend], TRUE)
      BY <2>1 DEF SelectView
    <3> DEFINE v == [view EXCEPT !.requested = requested, !.trend = NoTrend]
    <3>2. /\ v.snapshot = view.snapshot /\ AnalyticsFields \subseteq DOMAIN v
          /\ TrendFields \subseteq DOMAIN v.trend
      BY DEF SnapshotRight, AnalyticsFields, TrendFields, NoTrend
    <3> HIDE DEF v
    <3> QED BY <1>1, <3>1, <3>2 DEF v
  <2>2. CASE SelectStore
    <3>1. PICK s : Effects([view EXCEPT !.store = s], TRUE)
      BY <2>2 DEF SelectStore
    <3> DEFINE v == [view EXCEPT !.store = s]
    <3>2. /\ v.snapshot = view.snapshot /\ AnalyticsFields \subseteq DOMAIN v
          /\ TrendFields \subseteq DOMAIN v.trend
      BY DEF SnapshotRight, AnalyticsFields, TrendRight
    <3> HIDE DEF v
    <3> QED BY <1>1, <3>1, <3>2 DEF v
  <2>3. CASE RefreshAnalytics
    BY <2>3, <1>1 DEF RefreshAnalytics, SnapshotRight, TrendRight
  <2> QED BY <1>2, <2>1, <2>2, <2>3
<1>3. CASE SelectPeriod
  <2>1. view'.snapshot = view.snapshot /\ view'.trend.loading
    BY <1>3 DEF SelectPeriod, SnapshotRight, AnalyticsFields, TrendStarted
  <2> QED BY <2>1 DEF KeptNotOlder, SnapshotRight, ReportFor
<1>4. CASE \E i \in Slots : MetricsArrive(i)
  <2>1. PICK i \in Slots : MetricsArrive(i)
    BY <1>4
  <2>2. CASE view.current # i
    BY <1>0, <2>1, <2>2 DEF MetricsArrive, IsCurrent
  <2>3. CASE view.current = i
    <3> DEFINE v == [view EXCEPT
                       !.snapshot = [key |-> calls[i].arg.key, metrics |-> calls[i].ans],
                       !.current = None, !.pending = FALSE]
    <3>1. /\ v.trend = view.trend /\ DOMAIN v = DOMAIN view
          /\ v.snapshot.metrics = calls[i].ans
      BY DEF SnapshotRight, AnalyticsFields
    <3>2. view' = v \/ view' = [v EXCEPT !.trend = TrendStarted(DefaultPeriod, None, i)]
      BY <2>1, <2>3 DEF MetricsArrive, IsCurrent
    <3> HIDE DEF v
    <3>3. /\ view'.snapshot.metrics = calls[i].ans
          /\ view'.trend = view.trend \/ view'.trend.loading
      BY <3>1, <3>2 DEF SnapshotRight, AnalyticsFields, TrendStarted
    <3>4. calls[i].phase = "answered" /\ i # None
      BY <2>1, NoneIsNoSlot DEF MetricsArrive, Returns
    <3> QED BY <2>3, <3>3, <3>4 DEF KeptNotOlder, AwaitsMetrics, TrendRight
  <2> QED BY <2>2, <2>3
<1>5. CASE \E i \in Slots : MetricsThrow(i) \/ StoresSettle(i)
  <2>1. view'.snapshot = view.snapshot /\ view'.trend = view.trend
    BY <1>5 DEF MetricsThrow, StoresSettle, SnapshotRight, AnalyticsFields
  <2> QED BY <2>1 DEF KeptNotOlder, SnapshotRight, TrendRight, ReportFor
<1>6. CASE \E i \in Slots : TrendSettles(i)
  <2>1. PICK i \in Slots : TrendSettles(i)
    BY <1>6
  <2>2. CASE view.trend.current # i
    BY <1>0, <2>1, <2>2 DEF TrendSettles, IsCurrent
  <2>3. CASE view.trend.current = i
    <3> DEFINE t == [view.trend EXCEPT
                       !.loading = FALSE, !.current = None,
                       !.failed = Throws(i, "trend"),
                       !.data = IF Returns(i, "trend") THEN calls[i].ans ELSE @]
    <3>1. view'.trend = t /\ view'.snapshot = view.snapshot
      BY <2>1, <2>3 DEF TrendSettles, IsCurrent, SnapshotRight, AnalyticsFields,
         TrendRight, TrendFields
    <3>2. /\ t.failed = Throws(i, "trend")
          /\ Returns(i, "trend") => t.data = calls[i].ans
      BY DEF TrendRight, TrendFields
    <3> HIDE DEF t
    <3>3. CASE Throws(i, "trend")
      BY <3>1, <3>2, <3>3 DEF KeptNotOlder, SnapshotRight, ReportFor
    <3>4. CASE Returns(i, "trend")
      BY <2>3, <3>1, <3>2, <3>4, NoneIsNoSlot
         DEF KeptNotOlder, SnapshotRight, ReportFor, AwaitsTrend, Returns
    <3> QED BY <2>1, <3>3, <3>4 DEF TrendSettles
  <2> QED BY <2>2, <2>3
<1>7. CASE (\E i \in Slots : ReportRead(i)) \/ SalesGoOn
  BY <1>0, <1>7 DEF ReportRead, SalesGoOn
<1>8. CASE \/ OpenAnalytics \/ ReloadOverview
           \/ \E page \in {"overview", "storeHome"} : OpenOverview(page)
           \/ \E i \in Slots : OverviewSettles(i)
  BY <1>8 DEF OpenAnalytics, ReloadOverview, OpenOverview, OverviewSettles
<1> QED BY <1>2, <1>3, <1>4, <1>5, <1>6, <1>7, <1>8 DEF DashboardsNext

\* A late answer to an earlier request is never shown over a later one.
THEOREM DashboardOnlyNewer == Spec => DashboardNeverOlder
<1> DEFINE Inv == area = "dashboards" => DashInv
           Newer ==
             (/\ area = "dashboards"
              /\ view.page = "analytics" /\ view'.page = "analytics"
              /\ RequestKey(view') = RequestKey(view))
             =>
             /\ (Shown(view) # None /\ Shown(view') # None) =>
                   Shown(view').gen >= Shown(view).gen
             /\ (/\ TrendShown(view.trend) # None
                 /\ TrendShown(view'.trend) # None
                 /\ view'.trend.days = view.trend.days) =>
                   TrendShown(view'.trend).gen >= TrendShown(view.trend).gen
<1>1. Inv /\ [Next]_tab => [Newer]_tab
  <2> SUFFICES ASSUME DashInv, area = "dashboards", [Next]_tab,
                      view.page = "analytics", view'.page = "analytics",
                      ~ UNCHANGED tab
               PROVE  Newer
    OBVIOUS
  <2> HIDE DEF Newer
  <2>1. DashboardsNext \/ view' = view
    BY StepInDashboards DEF RequestLost, OrphanLost
  <2>2. KeptNotOlder
    BY <2>1, StepsKeep
       DEF DashInv, AnalyticsRight, KeptNotOlder, SnapshotRight, TrendRight, ReportFor
  <2>3. /\ SnapshotRight(view) /\ SnapshotRight(view)'
        /\ TrendRight(view) /\ TrendRight(view)'
    BY DashSteps, StepInDashboards DEF DashInv, AnalyticsRight
  <2>4. Shown(view) # None /\ Shown(view') # None => Shown(view').gen >= Shown(view).gen
    BY <2>2, <2>3 DEF Shown, KeptNotOlder, SnapshotRight, ReportFor
  <2>5. TrendShown(view.trend) # None /\ TrendShown(view'.trend) # None =>
           TrendShown(view'.trend).gen >= TrendShown(view.trend).gen
    BY <2>2, <2>3 DEF TrendShown, KeptNotOlder, TrendRight
  <2> QED BY <2>4, <2>5 DEF Newer
<1> HIDE DEF Inv
<1>2. Spec => []Inv
  BY DashboardsRight DEF Inv
<1>3. Spec => [][Newer]_tab
  BY <1>1, <1>2, PTL DEF Spec
<1> QED BY <1>3 DEF DashboardNeverOlder
-----------------------------------------------------------------------------
(* The lists that page on their own.                                       *)

\* The last page has rows, as many as are left over by the pages before it.
LEMMA LastPageHasRows ==
    ASSUME NEW n \in Nat \ {0}
    PROVE  PagesFor(n) \in Int /\ (PagesFor(n) - 1) * PageSize < n
<1> DEFINE q == (n + PageSize - 1) \div PageSize
<1>1. q \in Int /\ q * PageSize <= n + PageSize - 1
  BY RowsOnPage
<1>2. (q - 1) * PageSize = q * PageSize - PageSize
  BY <1>1, RowsOnPage
<1> QED BY <1>1, <1>2, RowsOnPage DEF PagesFor

\* And so has every page before it.
LEMMA EarlierPages ==
    ASSUME NEW p \in Int, NEW q \in Int, p <= q
    PROVE  (p - 1) * PageSize <= (q - 1) * PageSize
BY RowsOnPage

LEMMA FilteredCounted ==
    ASSUME NEW v, Filtered(v) # {}
    PROVE  Cardinality(Filtered(v)) \in Nat \ {0}
<1>1. IsFiniteSet(Filtered(v))
  BY RowsCounted, FS_Subset, FS_EmptySet DEF Filtered, Matching
<1> QED BY <1>1, FS_CardinalityType, FS_EmptySet

\* A page is a number, also one beyond the last or, after the rows have become
\* fewer, before the one that is shown.
ListAt ==
    /\ "page" \in DOMAIN view
    /\ view.page \in {"blank"} \cup OwnPaging \cup ApiPaging
    /\ view.page \in OwnPaging =>
          {"rows", "filter", "at", "turns"} \subseteq DOMAIN view /\ view.at \in Int

LEMMA ListStarts == ASSUME PagedInit PROVE ListAt
BY DEF PagedInit, ListAt, OwnPaging, ApiPaging

LEMMA ListSteps ==
    ASSUME ListAt, PagedNext \/ RequestLost \/ OrphanLost \/ UNCHANGED tab
    PROVE  /\ ListAt'
           /\ (view.page = "stockList" /\ view'.page = "stockList"
                  /\ view.filter # view'.filter) => view'.at = 1
<1> DEFINE Turns1 == (view.page = "stockList" /\ view'.page = "stockList"
                         /\ view.filter # view'.filter) => view'.at = 1
<1>1. CASE OpenOwnList
  BY <1>1 DEF OpenOwnList, ListAt, OwnPaging, ApiPaging
<1>2. CASE RefreshList
  BY <1>2 DEF RefreshList, Turning, Turned, ListAt, OwnPaging, ApiPaging
<1>3. CASE ChooseFilter
  <2>1. PICK f : view' = [Turned EXCEPT !.filter = f, !.at = 1]
    BY <1>3 DEF ChooseFilter, FirstPage
  <2>2. view.page \in OwnPaging /\ {"page", "at", "turns", "filter"} \subseteq DOMAIN view
    BY <1>3 DEF ChooseFilter, Turning, ListAt
  <2>3. DOMAIN view' = DOMAIN view /\ view'.page = view.page /\ view'.at = 1
    BY <2>1, <2>2 DEF Turned
  <2> QED BY <2>2, <2>3 DEF ListAt, OwnPaging, ApiPaging
<1>4. CASE TurnPage
  <2>1. PICK p \in Int : view' = [Turned EXCEPT !.at = p]
    <3>1. TotalPages(view) \in Int
      <4>1. CASE Filtered(view) = {}
        BY <4>1 DEF TotalPages
      <4>2. CASE Filtered(view) # {}
        BY <4>2, FilteredCounted, LastPageHasRows DEF TotalPages
      <4> QED BY <4>1, <4>2
    <3>2. view.at \in Int /\ {"at", "turns"} \subseteq DOMAIN view
      BY <1>4 DEF TurnPage, Turning, ListAt
    <3>3. Turned.at = view.at
      BY <3>2 DEF Turned
    <3>4. ASSUME view' = [Turned EXCEPT !.at = @ - 1]
          PROVE  \E p \in Int : view' = [Turned EXCEPT !.at = p]
      <4>1. view' = [Turned EXCEPT !.at = view.at - 1]
        BY <3>3, <3>4
      <4> QED BY <3>2, <4>1
    <3>5. ASSUME view' = [Turned EXCEPT !.at = @ + 1]
          PROVE  \E p \in Int : view' = [Turned EXCEPT !.at = p]
      <4>1. view' = [Turned EXCEPT !.at = view.at + 1]
        BY <3>3, <3>5
      <4> QED BY <3>2, <4>1
    <3> QED BY <1>4, <3>1, <3>4, <3>5 DEF TurnPage
  <2> QED BY <1>4, <2>1 DEF TurnPage, Turning, Turned, ListAt, OwnPaging, ApiPaging
<1>5. CASE OpenApiList
  BY <1>5 DEF OpenApiList, ListAt, OwnPaging, ApiPaging
<1>6. CASE TypeSearch
  BY <1>6 DEF TypeSearch, Turning, Turned, ListAt, OwnPaging, ApiPaging
<1>7. ASSUME NEW v, "page" \in DOMAIN v, v.page = view.page, view.page \in ApiPaging,
             Reloads(v)
      PROVE  ListAt' /\ Turns1
  BY <1>7 DEF Reloads, ListAt, OwnPaging, ApiPaging
<1>8. CASE SearchCounts
  <2> DEFINE v == [view EXCEPT !.timer = FALSE, !.filter = view.typed, !.at = 0]
  <2>1. Reloads(v) /\ view.page \in ApiPaging
    BY <1>8 DEF SearchCounts
  <2>2. "page" \in DOMAIN v /\ v.page = view.page
    BY DEF ListAt
  <2> HIDE DEF v
  <2> QED BY <1>7, <2>1, <2>2
<1>9. CASE TurnApiPage
  <2> DEFINE back == [Turned EXCEPT !.at = @ - 1]
             on == [Turned EXCEPT !.at = @ + 1]
  <2>1. (Reloads(back) \/ Reloads(on)) /\ view.page \in ApiPaging
    BY <1>9 DEF TurnApiPage, Turning
  <2>2. /\ "page" \in DOMAIN back /\ back.page = view.page
        /\ "page" \in DOMAIN on /\ on.page = view.page
    BY DEF ListAt, Turned
  <2> HIDE DEF back, on
  <2> QED BY <1>7, <2>1, <2>2
<1>10. ASSUME NEW i \in Slots, AllRowsSettle(i) PROVE ListAt' /\ Turns1
  BY <1>10 DEF AllRowsSettle, ListAt, OwnPaging, ApiPaging
<1>11. ASSUME NEW i \in Slots, SomePageSettles(i) PROVE ListAt' /\ Turns1
  BY <1>11 DEF SomePageSettles, ListAt, OwnPaging, ApiPaging
<1>12. CASE \/ \E i \in Slots : RowsRead(i)
            \/ RowChanges \/ RequestLost \/ OrphanLost \/ UNCHANGED tab
  BY <1>12 DEF RowsRead, RowChanges, RequestLost, OrphanLost, tab, ListAt
<1> QED BY <1>1, <1>2, <1>3, <1>4, <1>5, <1>6, <1>8, <1>9, <1>10, <1>11, <1>12
        DEF PagedNext

\* There are rows on the page that is shown of the orders, and on the first one.
LEMMA ShownPageHasRows ==
    ASSUME NEW v, Filtered(v) # {}, v.at \in Int, v.page = "orderList" \/ v.at = 1
    PROVE  HasRows(v)
<1> DEFINE n == Cardinality(Filtered(v))
<1>1. n \in Nat \ {0}
  BY FilteredCounted
<1>2. TotalPages(v) = PagesFor(n)
  BY DEF TotalPages
<1> HIDE DEF n
<1>3. PagesFor(n) \in Int /\ (PagesFor(n) - 1) * PageSize < n
  BY <1>1, LastPageHasRows
<1>4. CASE v.page = "orderList"
  <2>1. CurrentPage(v) \in Int /\ CurrentPage(v) <= PagesFor(n)
    BY <1>2, <1>3, <1>4 DEF CurrentPage
  <2>2. (CurrentPage(v) - 1) * PageSize <= (PagesFor(n) - 1) * PageSize
    BY <1>3, <2>1, EarlierPages
  <2>3. (CurrentPage(v) - 1) * PageSize \in Int /\ (PagesFor(n) - 1) * PageSize \in Int
    BY <1>3, <2>1, RowsOnPage
  <2> QED BY <1>1, <1>3, <2>2, <2>3 DEF HasRows, n
<1>5. CASE v.page # "orderList"
  <2>1. CurrentPage(v) = 1
    BY <1>5 DEF CurrentPage
  <2> QED BY <1>1, <2>1, RowsOnPage DEF HasRows, n
<1> QED BY <1>4, <1>5

LEMMA StepInLists ==
    ASSUME [Next]_tab
    PROVE  /\ area' = area
           /\ area = "pagedLists" => \/ PagedNext \/ RequestLost \/ OrphanLost
                                     \/ UNCHANGED tab
BY DEF Next, In, RequestLost, OrphanLost, Resting, tab

\* However many rows there are and fit on a page, the list of the orders never
\* shows an empty page of a filter that has rows, since it stops at its last page
\* whatever a reload finds; nor does the stock list of a store when a filter is
\* chosen, since it starts again from the first page.
THEOREM PageAlwaysHasRows == Spec => PageHasRows
<1> DEFINE Inv == area = "pagedLists" => ListAt
<1>1. Init => Inv
  BY ListStarts DEF Init
<1>2. Inv /\ [Next]_tab => Inv'
  BY StepInLists, ListSteps
<1>3. Inv /\ [Next]_tab =>
         [ (/\ area = "pagedLists"
            /\ view'.page \in OwnPaging
            /\ Filtered(view') # {}
            /\ \/ view'.page = "orderList"
               \/ view.page = "stockList" /\ view.filter # view'.filter)
           => HasRows(view') ]_tab
  <2> SUFFICES ASSUME Inv, [Next]_tab, area = "pagedLists", view'.page \in OwnPaging,
                      Filtered(view') # {},
                      \/ view'.page = "orderList"
                      \/ view.page = "stockList" /\ view.filter # view'.filter
               PROVE  HasRows(view')
    OBVIOUS
  <2>1. PagedNext \/ RequestLost \/ OrphanLost \/ UNCHANGED tab
    BY StepInLists
  <2>2. ListAt'
    BY <2>1, ListSteps
  <2>3. view'.page = "orderList" \/ view'.at = 1
    BY <2>1, ListSteps DEF OwnPaging
  <2> QED BY <2>2, <2>3, ShownPageHasRows DEF ListAt
<1> QED BY <1>1, <1>2, <1>3, PTL DEF Spec, PageHasRows

-----------------------------------------------------------------------------
(* Receipts.                                                               *)

LEMMA QuotientAndRest ==
    ASSUME NEW a \in Nat, NEW m \in Nat \ {0}
    PROVE  a \div m \in Nat /\ a % m \in 0..(m - 1) /\ a = (a \div m) * m + (a % m)
<1>1. a = (a \div m) * m + (a % m)
  OBVIOUS
<1>2. a \div m \in Nat /\ a % m \in 0..(m - 1)
  OBVIOUS
<1> QED BY <1>1, <1>2

\* There is only one way to divide.
LEMMA QuotientIs ==
    ASSUME NEW m \in Nat \ {0}, NEW k \in Nat, NEW s \in 0..(m - 1), NEW a \in Nat,
           a = k * m + s
    PROVE  a \div m = k /\ a % m = s
<1> DEFINE q == a \div m
           r == a % m
<1>1. \A x, y \in Nat : x > y => x * m >= y * m + m
  <2>1. \A x, y \in Nat : x > y => x - y - 1 \in Nat /\ (x - y - 1) * m >= 0
    OBVIOUS
  <2>2. \A x, y \in Nat : (x - y - 1) * m = x * m - y * m - m
    OBVIOUS
  <2> QED BY <2>1, <2>2
<1>2. q \in Nat /\ r \in 0..(m - 1) /\ q * m + r = k * m + s
  BY QuotientAndRest
<1> HIDE DEF q, r
<1>3. q * m \in Nat /\ k * m \in Nat
  BY <1>2
<1>4. ~(q > k) /\ ~(k > q)
  BY <1>1, <1>2, <1>3
<1>5. q = k
  BY <1>2, <1>4
<1> QED BY <1>2, <1>5 DEF q, r

\* The two roundings differ only where the average falls on a half.
LEMMA RoundingsAgree ==
    ASSUME NEW v \in Nat, NEW n \in Nat \ {0}
    PROVE  /\ HalfUp(v, n) \in Int
           /\ HalfEven(v, n) \in {HalfUp(v, n) - 1, HalfUp(v, n)}
           /\ HalfEven(v, n) # HalfUp(v, n) => (2 * v) % n = 0
<1> DEFINE down == v \div n
           rest == v % n
<1>1. down \in Nat /\ rest \in 0..(n - 1) /\ v = down * n + rest
  BY QuotientAndRest
<1>2. HalfEven(v, n) = IF 2 * rest < n \/ (2 * rest = n /\ down % 2 = 0)
                       THEN down ELSE down + 1
  BY DEF HalfEven
<1> HIDE DEF down, rest
<1>3. CASE 2 * rest < n
  <2>1. 2 * v + n = down * (2 * n) + (2 * rest + n)
    BY <1>1
  <2>2. HalfUp(v, n) = down
    BY <1>1, <1>3, <2>1, QuotientIs DEF HalfUp
  <2> QED BY <1>1, <1>2, <1>3, <2>2
<1>4. CASE 2 * rest >= n
  <2>1. 2 * v + n = (down + 1) * (2 * n) + (2 * rest - n)
    BY <1>1
  <2>2. HalfUp(v, n) = down + 1
    BY <1>1, <1>4, <2>1, QuotientIs DEF HalfUp
  <2>3. ASSUME 2 * rest = n PROVE (2 * v) % n = 0
    <3>1. 2 * v = (2 * down + 1) * n + 0
      BY <1>1, <2>3
    <3> QED BY <1>1, <3>1, QuotientIs
  <2> QED BY <1>1, <1>2, <1>4, <2>2, <2>3
<1> QED BY <1>1, <1>3, <1>4

\* What the dialog previews, calculateNewCostPrice, and what is booked.
LEMMA CostsAgree ==
    ASSUME NEW s \in Stocks, NEW n \in Nat \ {0}, NEW unit \in Nat
    PROVE  /\ PreviewCost(s, n, unit) \in Int
           /\ BookedCost(s, n, unit) \in {PreviewCost(s, n, unit) - 1, PreviewCost(s, n, unit)}
           /\ BookedCost(s, n, unit) # PreviewCost(s, n, unit) =>
                 (2 * Value(s, n, unit)) % (s.qty + n) = 0
<1>1. s.qty \in Nat /\ s.cost \in Nat
  BY DEF Stocks
<1>2. s.qty + n \in Nat \ {0} /\ Value(s, n, unit) \in Nat
  BY <1>1 DEF Value
<1> QED BY <1>2, RoundingsAgree DEF PreviewCost, BookedCost

\* A booked cost is a cost price.
LEMMA BookedIsCost ==
    ASSUME NEW s \in Stocks, NEW n \in Nat \ {0}, NEW unit \in Nat
    PROVE  BookedCost(s, n, unit) \in Nat
<1>1. s.qty \in Nat /\ s.cost \in Nat
  BY DEF Stocks
<1>2. s.qty + n \in Nat \ {0} /\ Value(s, n, unit) \in Nat
  BY <1>1 DEF Value
<1>3. \A v \in Nat : \A m \in Nat \ {0} : HalfEven(v, m) \in Nat
  BY QuotientAndRest DEF HalfEven
<1> QED BY <1>2, <1>3 DEF BookedCost

-----------------------------------------------------------------------------
(* What the dialog stages and the API books.                               *)

ReceivingFields == {"page", "loading", "dialog", "staged", "bookings"}
DialogFields == {"open", "goods", "loading", "current", "items", "submitting"}

\* A line shows what its lot makes of the stock that it was staged with.
StagedLines ==
    {x \in [good : Goods, n : Nat \ {0}, unit : Nat, saw : Stocks, shown : Int] :
        x.shown = PreviewCost(x.saw, x.n, x.unit)}

StagedRight(items) == items \in Seq(StagedLines) /\ NoneTwice(items)

\* What is asked for is what was staged, and the answer is what there is.
ReceiptAsked(c) ==
    /\ c.op = "book" => StagedRight(c.arg.items)
    /\ c.op = "goods" /\ c.phase = "answered" => c.ans \in [Goods -> Stocks]

ReceiptsAsked == DOMAIN calls = Slots /\ \A i \in Slots : ReceiptAsked(calls[i])

BookedRight(b) ==
    /\ b.item \in StagedLines /\ b.found \in Stocks
    /\ b.cost = BookedCost(b.found, b.item.n, b.item.unit)

WarehouseRight ==
    /\ DOMAIN server = {"stock", "booked", "sold"}
    /\ server.stock \in [Goods -> Stocks]
    /\ \A b \in server.booked : BookedRight(b)

DialogueRight ==
    /\ view.page \in {"blank", "receiving"}
    /\ view.page = "receiving" =>
          /\ DOMAIN view = ReceivingFields /\ DOMAIN view.dialog = DialogFields
          /\ view.dialog.goods # None => view.dialog.goods \in [Goods -> Stocks]
          /\ StagedRight(view.dialog.items)

ReceivingRight == ReceiptsAsked /\ WarehouseRight /\ DialogueRight

LEMMA NothingStaged == StagedRight(<<>>)
BY DEF StagedRight, NoneTwice

LEMMA ReceivingStarts == ASSUME ReceivingInit PROVE ReceivingRight
<1>1. ReceiptsAsked
  BY DEF ReceivingInit, NoCalls, NoCall, ReceiptsAsked, ReceiptAsked
<1>2. WarehouseRight
  BY AmountsCounted DEF ReceivingInit, WarehouseRight
<1> QED BY <1>1, <1>2 DEF ReceivingInit, ReceivingRight, DialogueRight

\* A line is added for a variant that has none.
LEMMA StagingOne ==
    ASSUME NEW items, StagedRight(items), NEW x \in StagedLines, NotStaged(items, x.good)
    PROVE  StagedRight(Append(items, x))
<1>1. Append(items, x) \in Seq(StagedLines) /\ DOMAIN items = 1..Len(items) /\ Len(items) \in Nat
  BY DEF StagedRight
<1>2. /\ DOMAIN Append(items, x) = 1..(Len(items) + 1)
      /\ \A k \in 1..(Len(items) + 1) :
            Append(items, x)[k] = IF k <= Len(items) THEN items[k] ELSE x
  BY <1>1 DEF StagedRight
<1>3. NoneTwice(Append(items, x))
  BY <1>1, <1>2 DEF StagedRight, NoneTwice, NotStaged
<1> QED BY <1>1, <1>3 DEF StagedRight

LEMMA Joined ==
    ASSUME NEW S, NEW a \in Seq(S), NEW b \in Seq(S)
    PROVE  /\ a \o b \in Seq(S) /\ Len(a \o b) = Len(a) + Len(b)
           /\ \A j \in 1..Len(a \o b) :
                 (a \o b)[j] = IF j <= Len(a) THEN a[j] ELSE b[j - Len(a)]
<1>1. a \o b \in Seq(S)
  OBVIOUS
<1>2. Len(a \o b) = Len(a) + Len(b)
  OBVIOUS
<1>3. \A j \in 1..Len(a \o b) :
         (a \o b)[j] = IF j <= Len(a) THEN a[j] ELSE b[j - Len(a)]
  OBVIOUS
<1> QED BY <1>1, <1>2, <1>3, Zenon

\* A line is taken away.
LEMMA UnstagingOne ==
    ASSUME NEW items, StagedRight(items), NEW k \in DOMAIN items
    PROVE  StagedRight(RemoveAt(items, k))
<1>1. /\ items \in Seq(StagedLines) /\ DOMAIN items = 1..Len(items) /\ Len(items) \in Nat
      /\ k \in 1..Len(items)
  BY DEF StagedRight
<1> DEFINE before == SubSeq(items, 1, k - 1)
           after == SubSeq(items, k + 1, Len(items))
           left == before \o after
<1>2. /\ before \in Seq(StagedLines) /\ Len(before) = k - 1
      /\ \A j \in 1..(k - 1) : before[j] = items[j]
  BY <1>1
<1>3. /\ after \in Seq(StagedLines) /\ Len(after) = Len(items) - k
      /\ \A j \in 1..(Len(items) - k) : after[j] = items[k + j]
  BY <1>1
<1> HIDE DEF before, after
<1>4. /\ left \in Seq(StagedLines) /\ Len(left) = Len(items) - 1
      /\ DOMAIN left = 1..(Len(items) - 1)
      /\ \A j \in 1..Len(left) : left[j] = IF j <= k - 1 THEN before[j] ELSE after[j - (k - 1)]
  <2>1. before \in Seq(StagedLines) /\ after \in Seq(StagedLines)
    BY <1>2, <1>3
  <2>2. /\ left \in Seq(StagedLines) /\ Len(left) = Len(before) + Len(after)
        /\ \A j \in 1..Len(left) :
              left[j] = IF j <= Len(before) THEN before[j] ELSE after[j - Len(before)]
    BY <2>1, Joined, Zenon
  <2> HIDE DEF left
  <2>3. Len(left) = Len(items) - 1
    BY <1>1, <1>2, <1>3, <2>2
  <2>4. DOMAIN left = 1..(Len(items) - 1)
    BY <2>2, <2>3
  <2> QED BY <1>2, <2>2, <2>3, <2>4
<1> HIDE DEF left
<1>5. \A j \in DOMAIN left : IF j < k THEN j \in DOMAIN items /\ left[j] = items[j]
                             ELSE j + 1 \in DOMAIN items /\ left[j] = items[j + 1]
  <2> SUFFICES ASSUME NEW j \in DOMAIN left
               PROVE  IF j < k THEN j \in DOMAIN items /\ left[j] = items[j]
                      ELSE j + 1 \in DOMAIN items /\ left[j] = items[j + 1]
    OBVIOUS
  <2>1. j \in 1..(Len(items) - 1)
    BY <1>1, <1>4
  <2>2. CASE j < k
    BY <1>1, <1>2, <1>4, <2>1, <2>2
  <2>3. CASE j >= k
    <3>1. j - (k - 1) \in 1..(Len(items) - k) /\ k + (j - (k - 1)) = j + 1
      BY <1>1, <2>1, <2>3
    <3>2. left[j] = after[j - (k - 1)]
      BY <1>1, <1>4, <2>1, <2>3
    <3> QED BY <1>1, <1>3, <2>1, <2>3, <3>1, <3>2
  <2> QED BY <1>1, <2>1, <2>2, <2>3
<1>6. NoneTwice(left)
  <2> SUFFICES ASSUME NEW j \in DOMAIN left, NEW m \in DOMAIN left,
                      left[j].good = left[m].good
               PROVE  j = m
    BY DEF NoneTwice
  <2>1. j \in Nat /\ m \in Nat
    BY <1>1, <1>4
  <2>2. \A a, b \in DOMAIN items : items[a].good = items[b].good => a = b
    BY DEF StagedRight, NoneTwice
  <2> QED BY <1>1, <1>5, <2>1, <2>2
<1> QED BY <1>4, <1>6 DEF left, before, after, RemoveAt, StagedRight

\* Every slot holds a request that is asked rightly, if those that changed do.
ReceiptsNext ==
    /\ DOMAIN calls' = Slots
    /\ \A j \in Slots : calls'[j] = calls[j] \/ ReceiptAsked(calls'[j])

LEMMA ReceivingKept ==
    ASSUME ReceivingRight, ReceiptsNext, WarehouseRight', DialogueRight'
    PROVE  ReceivingRight'
BY DEF ReceivingRight, ReceiptsAsked, ReceiptsNext, ReceiptAsked, StagedRight, NoneTwice

\* Steps of the page.
LEMMA ReceivingPageSteps ==
    ASSUME ReceivingRight, \/ OpenReceiving \/ OpenDialogue \/ Stage \/ Unstage
                           \/ CloseDialogue \/ Book
    PROVE  ReceivingRight'
<1>1. server' = server
  BY DEF OpenReceiving, OpenDialogue, Stage, Unstage, CloseDialogue, Book
<1>2. WarehouseRight'
  BY <1>1 DEF ReceivingRight, WarehouseRight, BookedRight
<1>3. ReceiptsNext
  <2> USE DEF ReceivingRight, ReceiptsAsked, ReceiptsNext
  <2>1. CASE OpenReceiving
    BY <2>1 DEF OpenReceiving, Send, Sent, ReceiptAsked
  <2>2. CASE OpenDialogue
    BY <2>2 DEF OpenDialogue, Send, Sent, ReceiptAsked
  <2>3. CASE Stage \/ Unstage \/ CloseDialogue
    BY <2>3 DEF Stage, Unstage, CloseDialogue
  <2>4. CASE Book
    <3>1. StagedRight(view.dialog.items)
      BY <2>4 DEF Book, DialogOpen, DialogueRight
    <3> HIDE DEF ReceiptsNext
    <3> DEFINE arg == [items |-> view.dialog.items]
    <3>2. calls' = Sent(calls, "book", arg) /\ StagedRight(arg.items)
      BY <2>4, <3>1 DEF Book, Send
    <3> HIDE DEF arg
    <3> QED BY <3>2 DEF Sent, ReceiptAsked, ReceiptsNext
  <2> QED BY <2>1, <2>2, <2>3, <2>4
<1>4. DialogueRight'
  <2> USE DEF DialogueRight
  <2>1. CASE OpenReceiving
    <3>1. /\ view'.page = "receiving" /\ DOMAIN view' = ReceivingFields
          /\ view'.dialog = NoDialog
      BY <2>1 DEF OpenReceiving, ReceivingFields
    <3> QED BY <3>1, NothingStaged DEF NoDialog, DialogFields
  <2>2. CASE OpenDialogue
    BY <2>2 DEF OpenDialogue, ReceivingRight, ReceivingFields, DialogFields
  <2>3. CASE Stage
    <3>1. PICK g \in Goods, n \in LotSizes, unit \in UnitCosts :
             LET saw == view.dialog.goods[g]
                 x == [good |-> g, n |-> n, unit |-> unit, saw |-> saw,
                       shown |-> PreviewCost(saw, n, unit)]
             IN  /\ NotStaged(view.dialog.items, g)
                 /\ view' = [view EXCEPT !.dialog.items = Append(@, x), !.staged = @ + 1]
      BY <2>3 DEF Stage
    <3> DEFINE saw == view.dialog.goods[g]
               x == [good |-> g, n |-> n, unit |-> unit, saw |-> saw,
                     shown |-> PreviewCost(saw, n, unit)]
    <3>2. /\ view.page = "receiving" /\ view.dialog.goods # None
          /\ n \in Nat \ {0} /\ unit \in Nat
      BY <2>3, AmountsCounted DEF Stage, DialogOpen
    <3>3. saw \in Stocks
      BY <3>2 DEF ReceivingRight
    <3>4. x \in StagedLines /\ x.good = g
      BY <3>2, <3>3, CostsAgree DEF StagedLines
    <3>5. view' = [view EXCEPT !.dialog.items = Append(@, x), !.staged = @ + 1]
      BY <3>1
    <3> HIDE DEF x
    <3>6. StagedRight(Append(view.dialog.items, x))
      BY <3>1, <3>2, <3>4, StagingOne DEF ReceivingRight
    <3> QED BY <3>2, <3>5, <3>6 DEF ReceivingRight, ReceivingFields, DialogFields
  <2>4. CASE Unstage
    <3>1. view.page = "receiving" /\ StagedRight(view.dialog.items)
      BY <2>4 DEF Unstage, DialogOpen, ReceivingRight
    <3>2. PICK items : view' = [view EXCEPT !.dialog.items = items] /\ StagedRight(items)
      <4>1. CASE \E k \in DOMAIN view.dialog.items :
                    view' = [view EXCEPT !.dialog.items = RemoveAt(@, k)]
        <5>1. PICK k \in DOMAIN view.dialog.items :
                 view' = [view EXCEPT !.dialog.items = RemoveAt(@, k)]
          BY <4>1
        <5>2. StagedRight(RemoveAt(view.dialog.items, k))
          BY <3>1, UnstagingOne
        <5>3. view' = [view EXCEPT !.dialog.items = RemoveAt(view.dialog.items, k)]
          BY <5>1
        <5> QED BY <5>2, <5>3
      <4>2. CASE view' = [view EXCEPT !.dialog.items = <<>>]
        BY <4>2, NothingStaged
      <4> QED BY <2>4, <4>1, <4>2 DEF Unstage
    <3> QED BY <3>1, <3>2 DEF ReceivingRight, ReceivingFields, DialogFields
  <2>5. CASE CloseDialogue
    BY <2>5, NothingStaged
    DEF CloseDialogue, DialogOpen, Shut, ReceivingRight, ReceivingFields, DialogFields
  <2>6. CASE Book
    BY <2>6 DEF Book, DialogOpen, ReceivingRight, ReceivingFields, DialogFields
  <2> QED BY <2>1, <2>2, <2>3, <2>4, <2>5, <2>6
<1> QED BY <1>2, <1>3, <1>4, ReceivingKept

\* The page takes an answer.
LEMMA ReceivingAnswers ==
    ASSUME ReceivingRight, NEW i \in Slots, ReceiptsLoad(i) \/ GoodsLoad(i) \/ BookSettles(i)
    PROVE  ReceivingRight'
<1>1. server' = server
  BY DEF ReceiptsLoad, GoodsLoad, BookSettles
<1>2. WarehouseRight'
  BY <1>1 DEF ReceivingRight, WarehouseRight, BookedRight
<1>3. ReceiptsNext
  BY DEF ReceiptsLoad, GoodsLoad, BookSettles, Finish, NoCall, Continue, ReceiptsNext,
         ReceivingRight, ReceiptsAsked, ReceiptAsked
<1>4. DialogueRight'
  <2> USE DEF DialogueRight, ReceivingRight, ReceivingFields, DialogFields
  <2>1. CASE ReceiptsLoad(i)
    BY <2>1 DEF ReceiptsLoad
  <2>2. CASE GoodsLoad(i)
    <3>1. Returns(i, "goods") => calls[i].ans \in [Goods -> Stocks]
      BY DEF Returns, ReceiptsAsked, ReceiptAsked
    <3> QED BY <2>2, <3>1 DEF GoodsLoad
  <2>3. CASE BookSettles(i)
    <3>1. CASE Returns(i, "book")
      <4>1. /\ DOMAIN Shut(view) = ReceivingFields /\ DOMAIN Shut(view).dialog = DialogFields
            /\ Shut(view).page = "receiving" /\ Shut(view).dialog.items = <<>>
            /\ Shut(view).dialog.goods = view.dialog.goods
        BY <2>3 DEF BookSettles, Shut
      <4>2. view' = [Shut(view) EXCEPT !.dialog.submitting = FALSE, !.loading = TRUE]
        BY <2>3, <3>1 DEF BookSettles, Returns, Throws
      <4>3. /\ DOMAIN view' = ReceivingFields /\ DOMAIN view'.dialog = DialogFields
            /\ view'.page = "receiving" /\ view'.dialog.items = <<>>
            /\ view'.dialog.goods = view.dialog.goods
        BY <4>1, <4>2
      <4> QED BY <2>3, <4>3, NothingStaged DEF BookSettles
    <3>2. CASE Throws(i, "book")
      BY <2>3, <3>2 DEF BookSettles, Returns, Throws
    <3> QED BY <2>3, <3>1, <3>2 DEF BookSettles
  <2> QED BY <2>1, <2>2, <2>3
<1> QED BY <1>2, <1>3, <1>4, ReceivingKept

\* create_inbound_receipt: the line of a variant is the only one that changes it.
LEMMA BookServedStep ==
    ASSUME ReceivingRight, NEW i \in Slots, BookServed(i) PROVE ReceivingRight'
<1> DEFINE items == calls[i].arg.items
           left == AfterReceipt(server.stock, items)
           Booked(k) == [item |-> items[k], found |-> server.stock[items[k].good],
                         cost |-> left[items[k].good].cost]
<1>1. /\ calls[i].op = "book" /\ view' = view /\ NoneTwice(items) /\ Acted(i, None)
      /\ server' = [server EXCEPT !.stock = left,
                                  !.booked = @ \cup {Booked(k) : k \in DOMAIN items}]
  BY DEF BookServed
<1>2. StagedRight(items) /\ server.stock \in [Goods -> Stocks]
  BY <1>1 DEF ReceivingRight, ReceiptsAsked, ReceiptAsked, WarehouseRight
<1>3. ReceiptsNext
  <2>1. DOMAIN calls = Slots
    BY DEF ReceivingRight, ReceiptsAsked
  <2>2. DOMAIN calls' = Slots /\ \A j \in Slots \ {i} : calls'[j] = calls[j]
    BY <1>1, <2>1 DEF Acted, Reply, Refuse, Finish
  <2>3. \/ calls'[i].op = "none"
        \/ calls'[i].op = "book" /\ calls'[i].arg = calls[i].arg
    <3>1. Acted(i, None) /\ calls[i].op = "book"
      BY <1>1
    <3> HIDE DEF items, left, Booked
    <3> QED BY <2>1, <3>1 DEF Acted, Reply, Refuse, Finish, NoCall
  <2>4. ReceiptAsked(calls'[i])
    BY <1>2, <2>3 DEF ReceiptAsked
  <2> QED BY <2>2, <2>4 DEF ReceiptsNext
<1> HIDE DEF items
<1>4. \A k \in DOMAIN items :
         /\ items[k] \in StagedLines /\ items[k].good \in Goods
         /\ items[k].n \in Nat \ {0} /\ items[k].unit \in Nat
  <2>1. \A k \in DOMAIN items : items[k] \in StagedLines
    BY <1>2 DEF StagedRight
  <2> QED BY <2>1 DEF StagedLines
<1>5. \A s \in Stocks : \A k \in DOMAIN items : Received(s, items[k]) \in Stocks
  <2> SUFFICES ASSUME NEW s \in Stocks, NEW k \in DOMAIN items
               PROVE  Received(s, items[k]) \in Stocks
    OBVIOUS
  <2>1. BookedCost(s, items[k].n, items[k].unit) \in Nat
    BY <1>4, BookedIsCost
  <2>2. s.qty + items[k].n \in Nat
    BY <1>4 DEF Stocks
  <2> QED BY <2>1, <2>2 DEF Received, Stocks
<1>6. left \in [Goods -> Stocks]
  BY <1>2, <1>5 DEF AfterReceipt, NotStaged
<1>7. \A k \in DOMAIN items :
         left[items[k].good] = Received(server.stock[items[k].good], items[k])
  BY <1>1, <1>4 DEF AfterReceipt, NotStaged, NoneTwice
<1>8. \A k \in DOMAIN items : BookedRight(Booked(k))
  <2> SUFFICES ASSUME NEW k \in DOMAIN items PROVE BookedRight(Booked(k))
    OBVIOUS
  <2> DEFINE found == server.stock[items[k].good]
  <2>1. found \in Stocks
    BY <1>2, <1>4
  <2> HIDE DEF left
  <2>2. left[items[k].good].cost = BookedCost(found, items[k].n, items[k].unit)
    <3>1. left[items[k].good] = Received(found, items[k])
      BY <1>7
    <3> QED BY <3>1 DEF Received
  <2>3. /\ Booked(k).item = items[k] /\ Booked(k).found = found
        /\ Booked(k).cost = left[items[k].good].cost
    OBVIOUS
  <2> QED BY <1>4, <2>1, <2>2, <2>3 DEF BookedRight
<1> HIDE DEF left, Booked
<1>9. WarehouseRight'
  <2>1. WarehouseRight
    BY DEF ReceivingRight
  <2>2. /\ DOMAIN server' = DOMAIN server /\ server'.stock = left
        /\ server'.booked = server.booked \cup {Booked(k) : k \in DOMAIN items}
    BY <1>1, <2>1 DEF WarehouseRight
  <2> QED BY <1>6, <1>8, <2>1, <2>2 DEF WarehouseRight, BookedRight
<1>10. DialogueRight'
  BY <1>1 DEF ReceivingRight, DialogueRight, StagedRight, NoneTwice
<1> QED BY <1>3, <1>9, <1>10, ReceivingKept

\* The list is read, a unit is sold, a request is lost.
LEMMA AroundReceiving ==
    ASSUME ReceivingRight, \/ \E i \in Slots : ReceivingRead(i)
                           \/ SoldElsewhere \/ RequestLost \/ OrphanLost \/ UNCHANGED tab
    PROVE  ReceivingRight'
<1>1. view' = view /\ DialogueRight'
  BY DEF ReceivingRead, SoldElsewhere, RequestLost, OrphanLost, tab, ReceivingRight,
         DialogueRight, StagedRight, NoneTwice
<1>2. WarehouseRight'
  <2>1. CASE server' = server
    BY <2>1 DEF ReceivingRight, WarehouseRight, BookedRight
  <2>2. CASE SoldElsewhere
    <3>1. PICK g \in Goods :
             /\ server.stock[g].qty > 0
             /\ server' = [server EXCEPT !.stock[g].qty = @ - 1, !.sold = @ + 1]
      BY <2>2 DEF SoldElsewhere
    <3>2. WarehouseRight /\ server.stock[g] \in Stocks
      BY DEF ReceivingRight, WarehouseRight
    <3>3. /\ DOMAIN server' = DOMAIN server /\ server'.booked = server.booked
          /\ server'.stock = [server.stock EXCEPT ![g].qty = @ - 1]
      BY <3>1, <3>2 DEF WarehouseRight
    <3>4. server'.stock \in [Goods -> Stocks]
      BY <3>1, <3>2, <3>3 DEF WarehouseRight, Stocks
    <3> QED BY <3>2, <3>3, <3>4 DEF WarehouseRight, BookedRight
  <2> QED BY <2>1, <2>2 DEF ReceivingRead, RequestLost, OrphanLost, tab
<1>3. ReceiptsNext
  <2> USE DEF ReceivingRight, ReceiptsAsked, ReceiptsNext
  <2>1. ASSUME NEW i \in Slots, ReceivingRead(i) PROVE ReceiptsNext
    BY <2>1 DEF ReceivingRead, Asked, Reply, ReceiptAsked, WarehouseRight
  <2>2. CASE RequestLost \/ OrphanLost
    BY <2>2 DEF RequestLost, OrphanLost, Refuse, Finish, NoCall, ReceiptAsked
  <2>3. CASE UNCHANGED calls
    BY <2>3
  <2> QED BY <2>1, <2>2, <2>3 DEF SoldElsewhere, tab
<1> QED BY <1>1, <1>2, <1>3, ReceivingKept

\* What the dialog says of a cost price is what the booking makes of it, for
\* every stock, lot and cost: Math.round and Python's round only differ where the
\* average is a half, and a variant is not in two lines of a receipt.
THEOREM PreviewAlwaysKept == Spec => []PreviewKept
<1> DEFINE Inv == area = "receiving" => ReceivingRight
<1>1. Init => Inv
  BY ReceivingStarts DEF Init
<1>2. Inv /\ [Next]_tab => Inv'
  <2>1. [Next]_tab => /\ area' = area
                      /\ area = "receiving" => \/ ReceivingNext \/ RequestLost \/ OrphanLost
                                               \/ UNCHANGED tab
    BY DEF Next, In, RequestLost, OrphanLost, Resting, tab
  <2> QED BY <2>1, ReceivingPageSteps, ReceivingAnswers, BookServedStep, AroundReceiving
          DEF ReceivingNext
<1>3. Inv => PreviewKept
  <2> SUFFICES ASSUME ReceivingRight, NEW b \in server.booked, b.found = b.item.saw
               PROVE  /\ b.cost \in {b.item.shown - 1, b.item.shown}
                      /\ b.cost # b.item.shown =>
                            (2 * Value(b.found, b.item.n, b.item.unit))
                                % (b.found.qty + b.item.n) = 0
    BY DEF PreviewKept
  <2>1. /\ b.found \in Stocks /\ b.item.n \in Nat \ {0} /\ b.item.unit \in Nat
        /\ b.cost = BookedCost(b.found, b.item.n, b.item.unit)
        /\ b.item.shown = PreviewCost(b.found, b.item.n, b.item.unit)
    BY DEF ReceivingRight, WarehouseRight, BookedRight, StagedLines
  <2> QED BY <2>1, CostsAgree
<1> QED BY <1>1, <1>2, <1>3, PTL DEF Spec
=============================================================================
