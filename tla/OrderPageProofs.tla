-------------------------- MODULE OrderPageProofs ---------------------------
(***************************************************************************)
(* Proofs about the pages of orders and returns, the customer's and the    *)
(* staff's.  Each page keeps a row that it read some time ago; meanwhile   *)
(* others change that row.  Every argument has two halves: what an         *)
(* operation of the API keeps of the rows, whoever asked for it (RowRight, *)
(* After), and what a page knows of a row as long as nobody else has       *)
(* changed it.                                                             *)
(***************************************************************************)
EXTENDS Storefront, TLAPS, FiniteSetTheorems, WellFoundedInduction

-----------------------------------------------------------------------------
(* The rows of the orders, whoever works on them.                          *)

RowFields == {"status", "attempts", "old", "reviewed", "ret", "back", "good", "active"}

\* What stands, stands once, and asks for goods that are not back.
RowRight(row) ==
    /\ RowFields \subseteq DOMAIN row
    /\ row.ret \in ReturnRequests \cup {None}
    /\ row.active = IF StandingReturn(row.ret) THEN 1 ELSE 0
    /\ row.back \in [Lines -> Nat]
    /\ \A l \in Lines :
          row.back[l] + (IF StandingReturn(row.ret) THEN row.ret.goods[l] ELSE 0)
             <= Bought[l]

Deeds == {"confirm", "cancel", "dispatch", "deliver", "fail", "complete", "review",
          "return", "cancelReturn", "approve", "reject", "receive", "inspect"}

\* A request as the pages and the staff make it.
OpRight(op) ==
    /\ op.order = MyOrder /\ op.do \in Deeds
    /\ op.do = "return" => op.what \in [Lines -> Nat]
    /\ op.do = "inspect" => op.what \in [Lines -> {"pending", "passed", "failed"}]

OrdersRight ==
    /\ "orders" \in DOMAIN server
    /\ MyOrder \in DOMAIN server.orders
    /\ RowRight(server.orders[MyOrder])

LEMMA NewOrderRight == ASSUME NEW status PROVE RowRight(NewOrder(status))
<1>1. NewOrder(status).back = [l \in Lines |-> 0]
  BY DEF NewOrder, NoGoods
<1> QED BY <1>1, BoughtCounted DEF RowRight, NewOrder, RowFields, StandingReturn

\* A change that leaves requests and goods alone.
LEMMA OtherFieldsRight ==
    ASSUME NEW row, RowRight(row), NEW new, DOMAIN new = DOMAIN row,
           new.ret = row.ret, new.active = row.active, new.back = row.back
    PROVE  RowRight(new)
BY DEF RowRight

\* A request that changes its status, or is closed.
LEMMA RetStatusRight ==
    ASSUME NEW row, RowRight(row), StandingReturn(row.ret),
           NEW status \in {"pending_review", "approved", "goods_received"}
    PROVE  RowRight([row EXCEPT !.ret.status = status])
<1> DEFINE new == [row EXCEPT !.ret.status = status]
<1>1. row.ret \in ReturnRequests
  BY DEF RowRight, StandingReturn
<1>2. /\ DOMAIN new = DOMAIN row /\ new.ret = [row.ret EXCEPT !.status = status]
      /\ new.active = row.active /\ new.back = row.back
  BY DEF RowRight, RowFields
<1> HIDE DEF new
<1>3. /\ new.ret \in ReturnRequests /\ new.ret.status = status
      /\ new.ret.goods = row.ret.goods
  BY <1>1, <1>2 DEF ReturnRequests
<1>4. StandingReturn(new.ret)
  BY <1>3, NoneIsNoRequest DEF StandingReturn
<1>5. RowRight(new)
  BY <1>2, <1>3, <1>4 DEF RowRight
<1> QED BY <1>5 DEF new

LEMMA ClosedRight ==
    ASSUME NEW row, RowRight(row), StandingReturn(row.ret),
           NEW status \in {"cancelled", "rejected"}
    PROVE  RowRight(Closed(row, status))
<1> DEFINE new == Closed(row, status)
<1>1. row.ret \in ReturnRequests /\ row.active = 1
  BY DEF RowRight, StandingReturn
<1>2. /\ DOMAIN new = DOMAIN row /\ new.ret = [row.ret EXCEPT !.status = status]
      /\ new.active = row.active - 1 /\ new.back = row.back
  BY DEF RowRight, RowFields, Closed
<1> HIDE DEF new
<1>3. new.ret \in ReturnRequests /\ new.ret.status = status
  BY <1>1, <1>2 DEF ReturnRequests
<1>4. ~StandingReturn(new.ret) /\ new.active = 0
  BY <1>1, <1>2, <1>3 DEF StandingReturn
<1>5. \A l \in Lines : row.back[l] <= Bought[l]
  BY <1>1, BoughtCounted DEF RowRight, ReturnRequests
<1>6. RowRight(new)
  BY <1>2, <1>3, <1>4, <1>5, BoughtCounted DEF RowRight
<1> QED BY <1>6 DEF new

LEMMA RequestedRight ==
    ASSUME NEW row, RowRight(row), NoneStands(row), NEW goods \in [Lines -> Nat],
           \A l \in Lines : goods[l] <= Bought[l] - row.back[l]
    PROVE  RowRight(Requested(row, goods))
<1> DEFINE new == Requested(row, goods)
           r == [status |-> "pending_review", goods |-> goods,
                 verdict |-> [l \in Lines |-> "pending"]]
<1>1. /\ DOMAIN new = DOMAIN row /\ new.ret = r
      /\ new.active = row.active + 1 /\ new.back = row.back
  BY DEF RowRight, RowFields, Requested
<1>2. r \in ReturnRequests /\ r.status = "pending_review" /\ r.goods = goods
  BY DEF ReturnRequests
<1> HIDE DEF new, r
<1>3. StandingReturn(new.ret) /\ new.active = 1
  BY <1>1, <1>2, NoneIsNoRequest DEF StandingReturn, NoneStands
<1>4. \A l \in Lines : row.back[l] + goods[l] <= Bought[l]
  BY BoughtCounted DEF RowRight
<1>5. RowRight(new)
  BY <1>1, <1>2, <1>3, <1>4 DEF RowRight
<1> QED BY <1>5 DEF new

LEMMA InspectedRight ==
    ASSUME NEW row, RowRight(row), NEW verdict \in [Lines -> {"pending", "passed", "failed"}],
           row.ret # None, row.ret.status \in {"goods_received", "completed"}
    PROVE  RowRight(Inspected(row, verdict))
<1>1. CASE row.ret.status = "completed"
  BY <1>1 DEF Inspected
<1>2. CASE row.ret.status = "goods_received"
  <2> DEFINE new == Inspected(row, verdict)
             r == [status |-> "completed", goods |-> row.ret.goods, verdict |-> verdict]
             back == [l \in Lines |-> row.back[l] + row.ret.goods[l]]
  <2>1. row.ret \in ReturnRequests /\ StandingReturn(row.ret) /\ row.active = 1
    BY <1>2 DEF RowRight, StandingReturn
  <2>2. /\ DOMAIN new = DOMAIN row /\ new.ret = r
        /\ new.active = row.active - 1 /\ new.back = back
    BY <1>2 DEF RowRight, RowFields, Inspected
  <2>3. r \in ReturnRequests /\ r.status = "completed"
    BY <2>1 DEF ReturnRequests
  <2>4. /\ back \in [Lines -> Nat]
        /\ \A l \in Lines : back[l] <= Bought[l]
    BY <2>1 DEF RowRight, ReturnRequests
  <2> HIDE DEF new, r, back
  <2>5. ~StandingReturn(new.ret) /\ new.active = 0
    BY <2>1, <2>2, <2>3 DEF StandingReturn
  <2>6. RowRight(new)
    BY <2>2, <2>3, <2>4, <2>5, BoughtCounted DEF RowRight
  <2> QED BY <2>6 DEF new
<1> QED BY <1>1, <1>2

\* Whatever the API accepts leaves the row right.
LEMMA AfterRight ==
    ASSUME OrdersRight, NEW op, OpRight(op), Accepted(op)
    PROVE  RowRight(After(op))
<1> DEFINE row == server.orders[MyOrder]
<1>0. RowRight(row) /\ op.order = MyOrder /\ RowFields \subseteq DOMAIN row
  BY DEF OrdersRight, OpRight, RowRight
<1>1. CASE op.do \in {"confirm", "cancel", "dispatch", "deliver"}
  <2>1. PICK status : After(op) = [row EXCEPT !.status = status]
    BY <1>0, <1>1 DEF After
  <2> QED BY <1>0, <2>1, OtherFieldsRight DEF RowFields
<1>2. CASE op.do = "fail"
  <2>1. After(op) = Failed(row)
    BY <1>0, <1>2 DEF After
  <2> QED BY <1>0, <2>1, OtherFieldsRight DEF Failed, RowFields
<1>3. CASE op.do = "complete"
  <2>1. PICK old : After(op) = [row EXCEPT !.status = "completed", !.old = old]
    BY <1>0, <1>3 DEF After
  <2> QED BY <1>0, <2>1, OtherFieldsRight DEF RowFields
<1>4. CASE op.do = "review"
  <2>1. After(op) = [row EXCEPT !.reviewed = @ \cup {op.what}]
    BY <1>0, <1>4 DEF After
  <2> QED BY <1>0, <2>1, OtherFieldsRight DEF RowFields
<1>5. CASE op.do = "return"
  BY <1>0, <1>5, RequestedRight DEF After, Accepted, OpRight
<1>6. CASE op.do \in {"cancelReturn", "reject"}
  <2>1. StandingReturn(row.ret)
    BY <1>0, <1>6 DEF Accepted, StandingReturn
  <2>2. \E status \in {"cancelled", "rejected"} : After(op) = Closed(row, status)
    BY <1>0, <1>6 DEF After
  <2> QED BY <1>0, <2>1, <2>2, ClosedRight
<1>7. CASE op.do \in {"approve", "receive"}
  <2>1. StandingReturn(row.ret)
    BY <1>0, <1>7 DEF Accepted, StandingReturn
  <2>2. PICK status \in {"approved", "goods_received"} :
           After(op) = [row EXCEPT !.ret.status = status]
    BY <1>0, <1>7 DEF After
  <2> HIDE DEF row
  <2>3. RowRight([row EXCEPT !.ret.status = status])
    BY <1>0, <2>1, RetStatusRight
  <2> QED BY <2>2, <2>3
<1>8. CASE op.do = "inspect"
  BY <1>0, <1>8, InspectedRight DEF After, Accepted, OpRight
<1> QED BY <1>1, <1>2, <1>3, <1>4, <1>5, <1>6, <1>7, <1>8 DEF OpRight, Deeds

\* What a change that the API makes, or refuses, leaves.
LEMMA ActKeepsOrders ==
    ASSUME OrdersRight, NEW op, OpRight(op), Accepted(op),
           server' = [server EXCEPT !.orders[op.order] = After(op)]
    PROVE  OrdersRight'
<1>1. RowRight(After(op))
  BY AfterRight
<1>2. /\ "orders" \in DOMAIN server'
      /\ server'.orders = [server.orders EXCEPT ![MyOrder] = After(op)]
  BY DEF OrdersRight, OpRight
<1> QED BY <1>1, <1>2 DEF OrdersRight

LEMMA ElsewhereKeepsOrders ==
    ASSUME OrdersRight, NEW ops, \A op \in ops : OpRight(op), Elsewhere(ops)
    PROVE  OrdersRight'
BY ActKeepsOrders DEF Elsewhere

LEMMA WindowKeepsOrders ==
    ASSUME OrdersRight, WindowCloses PROVE OrdersRight'
<1>1. PICK n \in DOMAIN server.orders : server' = [server EXCEPT !.orders[n].old = TRUE]
  BY DEF WindowCloses
<1>2. /\ "orders" \in DOMAIN server'
      /\ server'.orders = [server.orders EXCEPT ![n].old = TRUE]
  BY <1>1 DEF OrdersRight
<1> DEFINE row == server.orders[MyOrder]
           new == server'.orders[MyOrder]
<1>3. RowRight(row) /\ RowFields \subseteq DOMAIN row
  BY DEF OrdersRight, RowRight
<1>4. new = row \/ new = [row EXCEPT !.old = TRUE]
  BY <1>2 DEF OrdersRight
<1> HIDE DEF row, new
<1>5. RowRight(new)
  BY <1>3, <1>4, OtherFieldsRight DEF RowFields
<1> QED BY <1>2, <1>5 DEF OrdersRight, new

-----------------------------------------------------------------------------
(* The pages of the customer.                                              *)

OrderPageFields ==
    {"page", "row", "cancelling", "completing", "reviewing", "form", "acts"}

\* A form asks for no more than was bought.
FormGoods(form) ==
    /\ {"goods", "submitting"} \subseteq DOMAIN form
    /\ form.goods \in [Lines -> Nat]
    /\ \A l \in Lines : form.goods[l] <= Bought[l]

MyPages ==
    /\ view.page \in {"blank", "orders", "order", "return"}
    /\ "page" \in DOMAIN view
    /\ view.page = "order" =>
          /\ OrderPageFields \subseteq DOMAIN view
          /\ view.form # None => FormGoods(view.form)

\* A request of a page is one of its own, with goods that were chosen there.
MyCall(c) ==
    /\ c.op = "act" => OpRight(c.arg.op)
    /\ (view.page = "order" /\ c.op \in {"act", "rows"} /\ c.phase # "orphan") =>
          c.arg.for \in {"mount", "cancel", "complete", "review", "form"}

MyCalls == DOMAIN calls = Slots /\ \A i \in Slots : MyCall(calls[i])

MyInv == OrdersRight /\ MyPages /\ MyCalls

LEMMA MyStarts == ASSUME MyOrdersInit PROVE MyInv
<1>1. PICK row \in MyStart :
         server = [orders |-> [n \in {MyOrder} |-> row], couriers |-> Couriers]
  BY DEF MyOrdersInit
<1>2. RowRight(row)
  BY StartsUnreturned, NewOrderRight
<1>3. OrdersRight
  BY <1>1, <1>2 DEF OrdersRight
<1>4. MyCalls
  BY DEF MyOrdersInit, NoCalls, NoCall, MyCalls, MyCall
<1> QED BY <1>3, <1>4 DEF MyOrdersInit, MyInv, MyPages

\* A slot is as it was, or free, or its request is gone on with, or new and
\* one that the page may make.
MyNextCalls ==
    /\ DOMAIN calls' = Slots
    /\ \A j \in Slots :
          \/ calls'[j] = calls[j]
          \/ calls'[j].op \notin {"act", "rows"}
          \/ /\ calls'[j].op = calls[j].op /\ calls'[j].arg = calls[j].arg
             /\ \/ calls[j].phase # "orphan" \/ calls'[j].phase = "orphan"
                \/ calls[j].op = "act" /\ calls[j].arg.for = "form"
          \/ MyCall(calls[j])'

\* A step that stays on its page.
LEMMA MyKept ==
    ASSUME MyInv, MyNextCalls, OrdersRight', MyPages', view'.page = view.page
    PROVE  MyInv'
<1>1. ASSUME NEW j \in Slots PROVE MyCall(calls[j])'
  <2>1. MyCall(calls[j])
    BY DEF MyInv, MyCalls
  <2> QED BY <2>1 DEF MyNextCalls, MyCall, OpRight
<1> QED BY <1>1 DEF MyInv, MyCalls, MyNextCalls

\* Going to another page.
LEMMA OrphanedCalls ==
    ASSUME MyInv
    PROVE  /\ DOMAIN Orphaned(calls) = Slots
           /\ \A j \in Slots :
                 /\ Orphaned(calls)[j].op \in {"act", "rows"} =>
                       Orphaned(calls)[j].phase = "orphan"
                 /\ Orphaned(calls)[j].op = "act" => OpRight(Orphaned(calls)[j].arg.op)
<1>1. DOMAIN Orphaned(calls) = Slots
  BY DEF Orphaned
<1>2. \A j \in Slots :
         \/ /\ Orphaned(calls)[j].op = calls[j].op
            /\ Orphaned(calls)[j].arg = calls[j].arg
            /\ Orphaned(calls)[j].phase = "orphan"
         \/ Orphaned(calls)[j].op = "none"
  BY DEF Orphaned, NoCall
<1> QED BY <1>1, <1>2 DEF MyInv, MyCalls, MyCall

LEMMA MountSteps ==
    ASSUME MyInv, GoToOrder \/ GoToReturn PROVE MyInv'
<1> DEFINE cs == Orphaned(calls)
           n == NextSlot(cs)
           c == [op |-> "rows", arg |-> [for |-> "mount"], phase |-> "sent"]
<1>1. /\ calls' = [cs EXCEPT ![n] = c] /\ server' = server
  BY DEF GoToOrder, GoToReturn, Mounts, Sent
<1>2. MyPages'
  BY DEF GoToOrder, GoToReturn, Mounts, OrderMounted, ReturnMounted, MyPages,
     OrderPageFields
<1>3. OrdersRight'
  BY <1>1 DEF MyInv, OrdersRight
<1>4. c.op = "rows" /\ c.arg.for = "mount"
  OBVIOUS
<1> HIDE DEF c, n
<1>5. ASSUME NEW j \in Slots PROVE MyCall(calls[j])'
  BY <1>1, <1>4, OrphanedCalls DEF MyCall, OpRight
<1> QED BY <1>1, <1>2, <1>3, <1>5, OrphanedCalls DEF MyInv, MyCalls

LEMMA CreatedStep ==
    ASSUME MyInv, NEW i \in Slots, ReturnCreated(i) PROVE MyInv'
<1> DEFINE cs == Orphaned(calls)
           c == [op |-> "rows", arg |-> [for |-> "mount"], phase |-> "sent"]
<1>1. /\ calls' = [cs EXCEPT ![i] = c] /\ server' = server
      /\ view' = ReturnMounted(view.acts)
  BY DEF ReturnCreated
<1>2. MyPages'
  BY <1>1 DEF ReturnMounted, MyPages
<1>3. OrdersRight'
  BY <1>1 DEF MyInv, OrdersRight
<1>4. c.op = "rows" /\ c.arg.for = "mount"
  OBVIOUS
<1> HIDE DEF c
<1>5. ASSUME NEW j \in Slots PROVE MyCall(calls[j])'
  BY <1>1, <1>4, OrphanedCalls DEF MyCall, OpRight
<1> QED BY <1>1, <1>2, <1>3, <1>5, OrphanedCalls DEF MyInv, MyCalls

\* A new request of the page it is on.
LEMMA MySends ==
    ASSUME MyInv, NEW op, NEW arg, Send(op, arg),
           op = "act" => OpRight(arg.op),
           (view'.page = "order" /\ op \in {"act", "rows"}) =>
              arg.for \in {"mount", "cancel", "complete", "review", "form"}
    PROVE  MyNextCalls
<1> DEFINE c == [op |-> op, arg |-> arg, phase |-> "sent"]
           n == NextSlot(calls)
<1>1. calls' = [calls EXCEPT ![n] = c] /\ DOMAIN calls = Slots
  BY DEF Send, Sent, MyInv, MyCalls
<1>2. c.op = op /\ c.arg = arg
  OBVIOUS
<1> HIDE DEF c, n
<1>3. ASSUME NEW j \in Slots, calls'[j] = c PROVE MyCall(calls[j])'
  BY <1>2, <1>3 DEF MyCall, OpRight
<1> QED BY <1>1, <1>3 DEF MyNextCalls

LEMMA OpenOrdersStep ==
    ASSUME MyInv, OpenOrders PROVE MyInv'
<1>1. Send("rows", [for |-> "mount"]) /\ server' = server /\ view'.page = "orders"
  BY DEF OpenOrders
<1>2. MyNextCalls
  BY <1>1, MySends
<1>3. MyPages' /\ OrdersRight'
  BY DEF OpenOrders, MyPages, MyInv, OrdersRight
<1>4. ASSUME NEW j \in Slots PROVE MyCall(calls[j])'
  BY <1>1, <1>2 DEF MyInv, MyCalls, MyNextCalls, MyCall, OpRight
<1> QED BY <1>2, <1>3, <1>4 DEF MyInv, MyCalls, MyNextCalls

\* What the customer asks for on the page of the order and of the return.
LEMMA MyAsks ==
    ASSUME MyInv, \/ CancelMyOrder \/ CompleteMyOrder \/ SubmitReview
                  \/ SubmitReturn \/ CancelReturnRequest
    PROVE  MyInv'
<1>1. OrdersRight'
  BY DEF CancelMyOrder, CompleteMyOrder, SubmitReview, SubmitReturn,
     CancelReturnRequest, MyInv, OrdersRight
<1>2. CASE CancelMyOrder
  <2>1. MyPages' /\ view'.page = view.page
    BY <1>2 DEF CancelMyOrder, May, Acts, MyInv, MyPages, OrderPageFields
  <2>2. MyNextCalls
    BY <1>2, MySends DEF CancelMyOrder, Act, Op, OpRight, Deeds
  <2> QED BY <1>1, <2>1, <2>2, MyKept
<1>3. CASE CompleteMyOrder
  <2>1. MyPages' /\ view'.page = view.page
    BY <1>3 DEF CompleteMyOrder, May, Acts, MyInv, MyPages, OrderPageFields
  <2>2. MyNextCalls
    BY <1>3, MySends DEF CompleteMyOrder, Act, Op, OpRight, Deeds
  <2> QED BY <1>1, <2>1, <2>2, MyKept
<1>4. CASE SubmitReview
  <2>1. MyPages' /\ view'.page = view.page
    BY <1>4 DEF SubmitReview, May, Acts, MyInv, MyPages, OrderPageFields
  <2>2. MyNextCalls
    BY <1>4, MySends DEF SubmitReview, Act, Op, OpRight, Deeds
  <2> QED BY <1>1, <2>1, <2>2, MyKept
<1>5. CASE SubmitReturn
  <2>1. view.page = "order" /\ FormGoods(view.form)
    BY <1>5 DEF SubmitReturn, May, MyInv, MyPages
  <2>2. view' = [view EXCEPT !.acts = @ + 1, !.form.submitting = TRUE]
    BY <1>5, <2>1 DEF SubmitReturn, Acts, MyInv, MyPages, OrderPageFields
  <2>3. MyPages' /\ view'.page = view.page
    BY <2>1, <2>2 DEF MyInv, MyPages, OrderPageFields, FormGoods
  <2>4. Send("act", Act("return", view.form.goods, "form"))
    BY <1>5 DEF SubmitReturn
  <2>5. MyNextCalls
    BY <2>1, <2>4, MySends DEF Act, Op, OpRight, Deeds, FormGoods
  <2> QED BY <1>1, <2>3, <2>5, MyKept
<1>6. CASE CancelReturnRequest
  <2>1. MyPages' /\ view'.page = view.page /\ view.page = "return"
    BY <1>6 DEF CancelReturnRequest, May, Acts, MyInv, MyPages
  <2>2. MyNextCalls
    BY <1>6, <2>1, MySends DEF CancelReturnRequest, Act, Op, OpRight, Deeds
  <2> QED BY <1>1, <2>1, <2>2, MyKept
<1> QED BY <1>2, <1>3, <1>4, <1>5, <1>6

\* The form: opened, closed and filled in.
LEMMA FormSteps ==
    ASSUME MyInv, OpenReturnForm \/ CloseReturnForm \/ ChangeGoods \/ AskToCancel
    PROVE  MyInv'
<1>1. OrdersRight' /\ MyNextCalls
  BY DEF OpenReturnForm, CloseReturnForm, ChangeGoods, AskToCancel, MyInv, OrdersRight,
     MyNextCalls, MyCalls
<1>2. CASE OpenReturnForm
  <2>1. FormGoods(FreshForm)
    BY BoughtCounted DEF FormGoods, FreshForm
  <2>2. MyPages' /\ view'.page = view.page
    BY <1>2, <2>1 DEF OpenReturnForm, MyInv, MyPages, OrderPageFields
  <2> QED BY <1>1, <2>2, MyKept
<1>3. CASE CloseReturnForm
  <2>1. MyPages' /\ view'.page = view.page
    BY <1>3 DEF CloseReturnForm, MyInv, MyPages, OrderPageFields
  <2> QED BY <1>1, <2>1, MyKept
<1>4. CASE ChangeGoods
  <2>1. PICK l \in Lines : \E q \in 0 .. Bought[l] :
           view' = [Acts EXCEPT !.form.goods[l] = q]
    BY <1>4 DEF ChangeGoods
  <2>2. PICK q \in 0 .. Bought[l] : view' = [Acts EXCEPT !.form.goods[l] = q]
    BY <2>1
  <2>3. q \in Nat /\ q <= Bought[l]
    BY <2>2, BoughtCounted
  <2>4. view.page = "order" /\ FormGoods(view.form)
    BY <1>4 DEF ChangeGoods, May, MyInv, MyPages
  <2>5. view' = [view EXCEPT !.acts = @ + 1, !.form.goods[l] = q]
    BY <2>2, <2>4 DEF Acts, MyInv, MyPages, OrderPageFields
  <2>6. /\ view'.page = "order" /\ DOMAIN view' = DOMAIN view
        /\ view'.form = [view.form EXCEPT !.goods = [@ EXCEPT ![l] = q]]
    BY <2>4, <2>5 DEF MyInv, MyPages, OrderPageFields
  <2>7. FormGoods(view'.form)
    BY <2>3, <2>4, <2>6 DEF FormGoods
  <2>8. MyPages' /\ view'.page = view.page
    BY <2>4, <2>6, <2>7 DEF MyInv, MyPages, FormGoods
  <2> QED BY <1>1, <2>8, MyKept
<1>5. CASE AskToCancel
  <2>1. MyPages' /\ view'.page = view.page
    BY <1>5 DEF AskToCancel, MyInv, MyPages
  <2> QED BY <1>1, <2>1, MyKept
<1> QED BY <1>2, <1>3, <1>4, <1>5

\* `finally`, whatever the request was for.
LEMMA SettledRight ==
    ASSUME NEW v, OrderPageFields \subseteq DOMAIN v, NEW a,
           a.for \in {"mount", "cancel", "complete", "review", "form"},
           v.form # None => FormGoods(v.form)
    PROVE  /\ DOMAIN Settled(v, a) = DOMAIN v
           /\ Settled(v, a).page = v.page /\ Settled(v, a).row = v.row
           /\ Settled(v, a).form # None => FormGoods(Settled(v, a).form)
<1>1. CASE a.for # "form"
  BY <1>1 DEF Settled, OrderPageFields
<1>2. CASE a.for = "form"
  <2>1. Settled(v, a) = [v EXCEPT !.form = IF @ = None THEN None
                                           ELSE [@ EXCEPT !.submitting = FALSE]]
    BY <1>2 DEF Settled
  <2>2. v.form # None => FormGoods([v.form EXCEPT !.submitting = FALSE])
    BY DEF FormGoods
  <2> QED BY <2>1, <2>2 DEF OrderPageFields
<1> QED BY <1>1, <1>2

LEMMA MyAnswers ==
    ASSUME MyInv, NEW i \in Slots,
           \/ OrdersListed(i) \/ OrderActSettles(i) \/ OrderLoads(i)
           \/ ReturnLoads(i) \/ ReturnActSettles(i)
    PROVE  MyInv'
<1>1. OrdersRight'
  BY DEF OrdersListed, OrderActSettles, OrderLoads, ReturnLoads, ReturnActSettles,
     MyInv, OrdersRight
<1>2. CASE OrdersListed(i)
  <2>1. MyPages' /\ view'.page = view.page
    BY <1>2 DEF OrdersListed, MyInv, MyPages
  <2>2. MyNextCalls
    BY <1>2 DEF OrdersListed, Finish, NoCall, MyNextCalls, MyInv, MyCalls
  <2> QED BY <1>1, <2>1, <2>2, MyKept
<1>3. CASE OrderActSettles(i)
  <2>1. /\ view.page = "order" /\ calls[i].op = "act" /\ calls[i].phase # "orphan"
        /\ calls[i].arg.for \in {"mount", "cancel", "complete", "review", "form"}
    BY <1>3 DEF OrderActSettles, Returns, Throws, MyInv, MyCalls, MyCall
  <2>2. MyPages' /\ view'.page = view.page
    BY <1>3, <2>1, SettledRight DEF OrderActSettles, MyInv, MyPages, OrderPageFields
  <2>3. MyNextCalls
    <3>1. /\ DOMAIN calls' = Slots /\ \A j \in Slots \ {i} : calls'[j] = calls[j]
          /\ \/ calls'[i].op = "none"
             \/ calls'[i].op = "rows" /\ calls'[i].arg = calls[i].arg
      BY <1>3 DEF OrderActSettles, Finish, Continue, NoCall, MyInv, MyCalls
    <3>2. calls'[i].op = "none" \/ MyCall(calls[i])'
      BY <2>1, <3>1 DEF MyCall
    <3> QED BY <3>1, <3>2 DEF MyNextCalls
  <2> QED BY <1>1, <2>2, <2>3, MyKept
<1>4. CASE OrderLoads(i)
  <2> DEFINE v == IF Throws(i, "rows") THEN view
                  ELSE [view EXCEPT !.row = calls[i].ans[MyOrder],
                                    !.form = IF @ = None THEN None ELSE FreshForm]
  <2>1. /\ view.page = "order"
        /\ calls[i].arg.for \in {"mount", "cancel", "complete", "review", "form"}
    BY <1>4 DEF OrderLoads, Returns, Throws, MyInv, MyCalls, MyCall
  <2>2. FormGoods(FreshForm)
    BY BoughtCounted DEF FormGoods, FreshForm
  <2>3. /\ DOMAIN v = DOMAIN view /\ v.page = "order"
        /\ v.form # None => FormGoods(v.form)
    BY <2>1, <2>2 DEF MyInv, MyPages, OrderPageFields
  <2>4. view' = Settled(v, calls[i].arg)
    BY <1>4 DEF OrderLoads
  <2> HIDE DEF v
  <2>5. MyPages' /\ view'.page = view.page
    BY <2>1, <2>3, <2>4, SettledRight DEF MyInv, MyPages, FormGoods, OrderPageFields
  <2>6. MyNextCalls
    BY <1>4 DEF OrderLoads, Finish, NoCall, MyNextCalls, MyInv, MyCalls
  <2> QED BY <1>1, <2>5, <2>6, MyKept
<1>5. CASE ReturnLoads(i)
  <2>1. MyPages' /\ view'.page = view.page
    BY <1>5 DEF ReturnLoads, MyInv, MyPages
  <2>2. MyNextCalls
    BY <1>5 DEF ReturnLoads, Finish, NoCall, MyNextCalls, MyInv, MyCalls
  <2> QED BY <1>1, <2>1, <2>2, MyKept
<1>6. CASE ReturnActSettles(i)
  <2>1. MyPages' /\ view'.page = view.page
    BY <1>6 DEF ReturnActSettles, MyInv, MyPages
  <2>2. MyNextCalls
    BY <1>6 DEF ReturnActSettles, Finish, NoCall, MyNextCalls, MyInv, MyCalls
  <2> QED BY <1>1, <2>1, <2>2, MyKept
<1> QED BY <1>2, <1>3, <1>4, <1>5, <1>6

-----------------------------------------------------------------------------
(* The API and everybody else.                                             *)

LEMMA MyServed ==
    ASSUME MyInv, NEW i \in Slots, ActServed(i, calls[i].arg.for = "form")
    PROVE  MyInv'
<1>1. view' = view /\ calls[i].op = "act" /\ OpRight(calls[i].arg.op)
  BY DEF ActServed, MyInv, MyCalls, MyCall
<1>2. OrdersRight'
  <2>1. CASE server' = server
    BY <2>1 DEF MyInv, OrdersRight
  <2>2. CASE server' # server
    BY <1>1, <2>2, ActKeepsOrders DEF ActServed, MyInv
  <2> QED BY <2>1, <2>2
<1>3. MyPages'
  BY <1>1 DEF MyInv, MyPages
<1>4. MyNextCalls
  <2>1. \/ Rejected(i) \/ \E row : Acted(i, row)
        \/ calls[i].arg.for = "form" /\ \E row : ActedLate(i, row)
    BY DEF ActServed
  <2>2. CASE Rejected(i)
    BY <2>2 DEF Rejected, Refuse, Finish, NoCall, MyNextCalls, MyInv, MyCalls
  <2>3. CASE \E row : Acted(i, row)
    BY <2>3 DEF Acted, Reply, Refuse, Finish, NoCall, MyNextCalls, MyInv, MyCalls
  <2>4. CASE calls[i].arg.for = "form" /\ \E row : ActedLate(i, row)
    BY <1>1, <2>4 DEF ActedLate, Acted, Reply, Refuse, Finish, NoCall, MyNextCalls,
       MyInv, MyCalls
  <2> QED BY <2>1, <2>2, <2>3, <2>4
<1> QED BY <1>1, <1>2, <1>3, <1>4, MyKept

LEMMA AroundMyOrders ==
    ASSUME MyInv, \/ \E i \in Slots : OrdersRead(i)
                  \/ Elsewhere(StaffOps) \/ WindowCloses
                  \/ RequestLost \/ OrphanLost
    PROVE  MyInv'
<1>1. view' = view
  BY DEF OrdersRead, Elsewhere, WindowCloses, RequestLost, OrphanLost
<1>2. OrdersRight'
  <2>1. CASE server' = server
    BY <2>1 DEF MyInv, OrdersRight
  <2>2. CASE Elsewhere(StaffOps)
    <3>1. ASSUME NEW op \in StaffOps PROVE OpRight(op)
      BY DEF StaffOps, Op, OpRight, Deeds
    <3> QED BY <2>2, <3>1, ElsewhereKeepsOrders DEF MyInv
  <2>3. CASE WindowCloses
    BY <2>3, WindowKeepsOrders DEF MyInv
  <2> QED BY <2>1, <2>2, <2>3 DEF OrdersRead, RequestLost, OrphanLost
<1>3. MyPages'
  BY <1>1 DEF MyInv, MyPages
<1>4. MyNextCalls
  BY DEF OrdersRead, Asked, Reply, Elsewhere, WindowCloses, RequestLost, OrphanLost,
     Refuse, Finish, NoCall, MyNextCalls, MyInv, MyCalls
<1> QED BY <1>1, <1>2, <1>3, <1>4, MyKept

LEMMA MySteps ==
    ASSUME MyInv, MyOrdersNext \/ RequestLost \/ OrphanLost \/ UNCHANGED tab
    PROVE  MyInv'
<1>1. CASE UNCHANGED tab
  BY <1>1 DEF tab, MyInv, OrdersRight, MyPages, MyCalls, MyCall
<1> QED BY <1>1, OpenOrdersStep, MountSteps, MyAsks, FormSteps, MyAnswers, CreatedStep,
           MyServed, AroundMyOrders DEF MyOrdersNext

LEMMA StepInMyOrders ==
    ASSUME [Next]_tab
    PROVE  /\ area' = area
           /\ area = "myOrders" => \/ MyOrdersNext \/ RequestLost \/ OrphanLost
                                   \/ UNCHANGED tab
BY DEF Next, In, RequestLost, OrphanLost, Resting, tab

\* No more is ever asked back, or comes back, than the order has, whichever
\* page asks and whoever handles the return meanwhile.
THEOREM ReturnsAlwaysWithinOrder == Spec => []ReturnsStayWithinOrder
<1> DEFINE Inv == area = "myOrders" => MyInv
<1>1. Init => Inv
  BY MyStarts DEF Init
<1>2. Inv /\ [Next]_tab => Inv'
  BY StepInMyOrders, MySteps
<1>3. Inv => ReturnsStayWithinOrder
  BY DEF MyInv, OrdersRight, RowRight, ReturnsStayWithinOrder
<1> QED BY <1>1, <1>2, <1>3, PTL DEF Spec

-----------------------------------------------------------------------------
(* What the pages know of the return of the order.                         *)

HasReturn == server.orders[MyOrder].ret # None

Live(c) == c.op = "rows" /\ c.phase # "orphan"
WaitsBar(c) == c.op = "act" /\ c.arg.for = "bar" /\ c.phase # "orphan"

\* The page of the return has shown its row.
RowShown == view.row # None \/ \E i \in Slots : WaitsBar(calls[i])

\* What is answered tells of a return only when there is one; the page of the
\* return is told of it.
CallKnows(c) ==
    /\ (c.op = "rows" /\ c.phase = "answered" /\ c.ans[MyOrder].ret # None) => HasReturn
    /\ (view.page = "return" /\ c.op = "rows" /\ c.phase = "answered") =>
          c.ans[MyOrder].ret # None
    /\ (c.op = "act" /\ c.arg.for = "form") =>
          c.arg.op.do = "return" /\ (c.phase = "answered" => HasReturn)
    /\ (c.op = "act" /\ c.arg.for = "bar") =>
          c.arg.op.do = "cancelReturn" /\ (c.phase = "answered" => c.ans.ret # None)

ReturnPageFields == {"page", "row", "loading", "asking", "cancelling", "acts"}

\* The bar is up as long as the request waits for its review; the page of a
\* return loads once.
PageKnows ==
    /\ view.page \in {"orders", "order"} =>
          /\ "row" \in DOMAIN view
          /\ view.row # None /\ view.row.ret # None => HasReturn
    /\ view.page = "return" =>
          /\ ReturnPageFields \subseteq DOMAIN view
          /\ HasReturn
          /\ view.row # None => view.row.ret # None
          /\ view.asking => view.row # None /\ view.row.ret.status = "pending_review"
          /\ \A i, j \in Slots : Live(calls[i]) /\ Live(calls[j]) => i = j
          /\ RowShown => \A i \in Slots : ~Live(calls[i])

KnowInv == PageKnows /\ \A i \in Slots : CallKnows(calls[i])

\* Once there is a return, there always is.
LEMMA AfterHasReturn ==
    ASSUME OrdersRight, NEW op, OpRight(op), Accepted(op),
           HasReturn \/ op.do = "return"
    PROVE  After(op).ret # None
<1> DEFINE row == server.orders[MyOrder]
<1>0. RowRight(row) /\ op.order = MyOrder /\ RowFields \subseteq DOMAIN row
  BY DEF OrdersRight, OpRight, RowRight
<1>1. CASE op.do \in {"confirm", "cancel", "dispatch", "deliver", "fail", "complete",
                      "review"}
  <2>1. After(op).ret = row.ret
    BY <1>0, <1>1 DEF After, Failed, RowFields
  <2> QED BY <1>1, <2>1 DEF HasReturn
<1>2. CASE op.do = "return"
  <2> DEFINE r == [status |-> "pending_review", goods |-> op.what,
                   verdict |-> [l \in Lines |-> "pending"]]
  <2>1. After(op).ret = r
    BY <1>0, <1>2 DEF After, Requested, RowFields
  <2>2. r \in ReturnRequests
    BY <1>2 DEF OpRight, ReturnRequests
  <2> QED BY <2>1, <2>2, NoneIsNoRequest
<1>3. CASE op.do \in {"cancelReturn", "approve", "reject", "receive"}
  <2>1. PICK status \in {"cancelled", "approved", "rejected", "goods_received"} :
           After(op).ret = [row.ret EXCEPT !.status = status]
    BY <1>0, <1>3 DEF After, Closed, RowFields
  <2>2. row.ret \in ReturnRequests
    BY <1>0, <1>3 DEF RowRight, HasReturn
  <2> HIDE DEF row
  <2>3. [row.ret EXCEPT !.status = status] \in ReturnRequests
    BY <2>2 DEF ReturnRequests
  <2> QED BY <2>1, <2>3, NoneIsNoRequest
<1>4. CASE op.do = "inspect"
  <2> DEFINE r == [status |-> "completed", goods |-> row.ret.goods,
                   verdict |-> op.what]
  <2>1. After(op).ret = row.ret \/ After(op).ret = r
    BY <1>0, <1>4 DEF After, Inspected, RowFields
  <2>2. row.ret \in ReturnRequests
    BY <1>0, <1>4 DEF RowRight, HasReturn
  <2>3. r \in ReturnRequests
    BY <1>4, <2>2 DEF OpRight, ReturnRequests
  <2> QED BY <1>4, <2>1, <2>3, NoneIsNoRequest DEF HasReturn
<1> QED BY <1>1, <1>2, <1>3, <1>4 DEF OpRight, Deeds

LEMMA ReturnStays ==
    ASSUME MyInv, HasReturn, NEW op, OpRight(op), Accepted(op),
           server' = [server EXCEPT !.orders[op.order] = After(op)]
    PROVE  HasReturn'
<1>1. After(op).ret # None
  BY AfterHasReturn DEF MyInv
<1>2. server'.orders = [server.orders EXCEPT ![MyOrder] = After(op)]
  BY DEF MyInv, OrdersRight, OpRight
<1> QED BY <1>1, <1>2 DEF HasReturn, MyInv, OrdersRight

LEMMA KnowStarts == ASSUME MyOrdersInit PROVE KnowInv
BY DEF MyOrdersInit, NoCalls, NoCall, KnowInv, PageKnows, CallKnows

\* A step of the page that changes no order: what the page goes on with.
KnowNext ==
    \A j \in Slots :
       \/ calls'[j] = calls[j]
       \/ calls'[j].op \notin {"act", "rows"}
       \/ /\ calls'[j].phase \notin {"answered", "orphan"}
          /\ calls'[j].op = "rows" => view'.page # "return" \/ Live(calls[j])
          /\ calls'[j].op = "act" /\ calls'[j].arg.for = "form" =>
                calls'[j].arg.op.do = "return"
          /\ calls'[j].op = "act" /\ calls'[j].arg.for = "bar" =>
                calls'[j].arg.op.do = "cancelReturn"

LEMMA KnowKept ==
    ASSUME KnowInv, KnowNext, server' = server, view'.page = view.page,
           view.page \in {"orders", "order"} =>
              /\ "row" \in DOMAIN view'
              /\ view'.row # None /\ view'.row.ret # None => HasReturn,
           view.page = "return" =>
              /\ ReturnPageFields \subseteq DOMAIN view'
              /\ view'.row # None => view'.row.ret # None
              /\ view'.asking => view'.row # None /\ view'.row.ret.status = "pending_review"
              /\ RowShown' => RowShown \/ \A j \in Slots : ~Live(calls'[j])
    PROVE  KnowInv'
<1>1. HasReturn' = HasReturn
  BY DEF HasReturn
<1>2. \A j \in Slots : CallKnows(calls[j])'
  BY <1>1 DEF KnowInv, CallKnows, KnowNext
<1>3. view.page = "return" => \A j \in Slots : Live(calls'[j]) => Live(calls[j])
  BY DEF KnowNext, Live
<1>4. PageKnows'
  BY <1>1, <1>3 DEF KnowInv, PageKnows, Live
<1> QED BY <1>2, <1>4 DEF KnowInv

LEMMA KnowOpens == ASSUME MyInv, KnowInv, OpenOrders PROVE KnowInv'
<1> DEFINE c == [op |-> "rows", arg |-> [for |-> "mount"], phase |-> "sent"]
           n == NextSlot(calls)
<1>1. /\ calls' = [calls EXCEPT ![n] = c] /\ server' = server
      /\ view' = [page |-> "orders", row |-> None, loading |-> TRUE, acts |-> 0]
  BY DEF OpenOrders, Send, Sent
<1>2. PageKnows'
  BY <1>1 DEF PageKnows
<1>3. c.op = "rows" /\ c.phase = "sent"
  OBVIOUS
<1> HIDE DEF c, n
<1>4. \A j \in Slots : calls'[j] = calls[j] \/ calls'[j] = c
  BY <1>1 DEF MyInv, MyCalls
<1>5. \A j \in Slots : CallKnows(calls[j])'
  BY <1>1, <1>3, <1>4 DEF KnowInv, CallKnows, HasReturn
<1> QED BY <1>2, <1>5 DEF KnowInv

\* Another page is mounted; the one of the return only when there is one.
LEMMA KnowMounts ==
    ASSUME MyInv, KnowInv, NEW n, server' = server,
           calls' = [Orphaned(calls) EXCEPT
                        ![n] = [op |-> "rows", arg |-> [for |-> "mount"],
                                phase |-> "sent"]],
           \/ view' = OrderMounted
           \/ HasReturn /\ \E acts : view' = ReturnMounted(acts)
    PROVE  KnowInv'
<1> DEFINE c == [op |-> "rows", arg |-> [for |-> "mount"], phase |-> "sent"]
<1>1. c.op = "rows" /\ c.phase = "sent" /\ HasReturn' = HasReturn
  BY DEF HasReturn
<1>2. calls' = [Orphaned(calls) EXCEPT ![n] = c]
  OBVIOUS
<1> HIDE DEF c
<1>3. \A j \in Slots :
         \/ j = n /\ calls'[j] = c
         \/ /\ calls'[j].op = calls[j].op /\ calls'[j].arg = calls[j].arg
            /\ calls'[j].phase = "orphan"
         \/ calls'[j].op = "none"
  BY <1>2 DEF Orphaned, NoCall
<1>4. \A j \in Slots : CallKnows(calls[j])'
  BY <1>1, <1>3 DEF KnowInv, CallKnows
<1>5. \A i, j \in Slots : Live(calls'[i]) /\ Live(calls'[j]) => i = j
  BY <1>3 DEF Live
<1>6. PageKnows'
  <2>1. CASE view' = OrderMounted
    BY <2>1 DEF PageKnows, OrderMounted
  <2>2. CASE HasReturn /\ \E acts : view' = ReturnMounted(acts)
    <3>1. /\ view'.page = "return" /\ ReturnPageFields \subseteq DOMAIN view'
          /\ view'.row = None /\ view'.asking = FALSE
      BY <2>2 DEF ReturnMounted, ReturnPageFields
    <3>2. \A j \in Slots : ~WaitsBar(calls'[j])
      BY <1>1, <1>3 DEF WaitsBar
    <3> QED BY <1>1, <1>5, <2>2, <3>1, <3>2 DEF PageKnows, RowShown, Live, WaitsBar
  <2> QED BY <2>1, <2>2
<1> QED BY <1>4, <1>6 DEF KnowInv

LEMMA KnowGoes ==
    ASSUME MyInv, KnowInv,
           GoToOrder \/ GoToReturn \/ \E i \in Slots : ReturnCreated(i)
    PROVE  KnowInv'
<1>1. CASE GoToOrder \/ GoToReturn
  <2>1. server' = server /\ \E n : calls' = [Orphaned(calls) EXCEPT
           ![n] = [op |-> "rows", arg |-> [for |-> "mount"], phase |-> "sent"]]
    BY <1>1 DEF GoToOrder, GoToReturn, Mounts, Sent
  <2>2. \/ view' = OrderMounted
        \/ HasReturn /\ \E acts : view' = ReturnMounted(acts)
    BY <1>1 DEF GoToOrder, GoToReturn, Mounts, May, KnowInv, PageKnows
  <2> QED BY <2>1, <2>2, KnowMounts
<1>2. ASSUME NEW i \in Slots, ReturnCreated(i) PROVE KnowInv'
  <2>1. HasReturn
    BY <1>2 DEF ReturnCreated, Returns, KnowInv, CallKnows
  <2>2. server' = server /\ \E n : calls' = [Orphaned(calls) EXCEPT
           ![n] = [op |-> "rows", arg |-> [for |-> "mount"], phase |-> "sent"]]
    BY <1>2 DEF ReturnCreated
  <2>3. \E acts : view' = ReturnMounted(acts)
    BY <1>2 DEF ReturnCreated
  <2> QED BY <2>1, <2>2, <2>3, KnowMounts
<1> QED BY <1>1, <1>2

LEMMA KnowSends ==
    ASSUME MyInv, NEW arg, Send("act", arg),
           arg.for = "form" => arg.op.do = "return",
           arg.for = "bar" => arg.op.do = "cancelReturn"
    PROVE  KnowNext /\ \A j \in Slots : Live(calls'[j]) => Live(calls[j])
<1> DEFINE c == [op |-> "act", arg |-> arg, phase |-> "sent"]
           n == NextSlot(calls)
<1>1. calls' = [calls EXCEPT ![n] = c] /\ DOMAIN calls = Slots
  BY DEF Send, Sent, MyInv, MyCalls
<1>2. c.op = "act" /\ c.arg = arg /\ c.phase = "sent"
  OBVIOUS
<1> HIDE DEF c, n
<1> QED BY <1>1, <1>2 DEF KnowNext, Live

LEMMA KnowAsks ==
    ASSUME MyInv, KnowInv,
           \/ CancelMyOrder \/ CompleteMyOrder \/ SubmitReview
           \/ SubmitReturn \/ CancelReturnRequest
    PROVE  KnowInv'
<1>1. server' = server
  BY DEF CancelMyOrder, CompleteMyOrder, SubmitReview, SubmitReturn, CancelReturnRequest
<1>2. CASE CancelMyOrder \/ CompleteMyOrder \/ SubmitReview \/ SubmitReturn
  <2>1. /\ view.page = "order" /\ view'.page = "order" /\ DOMAIN view' = DOMAIN view
        /\ view'.row = view.row
    BY <1>2 DEF CancelMyOrder, CompleteMyOrder, SubmitReview, SubmitReturn, May, Acts,
       MyInv, MyPages, OrderPageFields
  <2>2. PICK arg : Send("act", arg) /\ (arg.for = "form" => arg.op.do = "return")
                   /\ arg.for # "bar"
    <3>1. CASE CancelMyOrder \/ CompleteMyOrder
      BY <3>1 DEF CancelMyOrder, CompleteMyOrder, Act, Op
    <3>2. CASE SubmitReview
      <4>1. PICK l \in Lines : Send("act", Act("review", l, "review"))
        BY <3>2 DEF SubmitReview
      <4> QED BY <4>1 DEF Act, Op
    <3>3. CASE SubmitReturn
      BY <3>3 DEF SubmitReturn, Act, Op
    <3> QED BY <1>2, <3>1, <3>2, <3>3
  <2>3. KnowNext
    BY <2>2, KnowSends
  <2> QED BY <1>1, <2>1, <2>3, KnowKept DEF KnowInv, PageKnows
<1>3. CASE CancelReturnRequest
  <2>1. /\ view.page = "return" /\ view'.page = "return" /\ DOMAIN view' = DOMAIN view
        /\ view'.row = view.row /\ view'.asking = view.asking
    BY <1>3 DEF CancelReturnRequest, May, Acts, KnowInv, PageKnows, ReturnPageFields
  <2>0. view.row # None
    BY <1>3 DEF CancelReturnRequest
  <2>2. PICK arg : Send("act", arg) /\ arg.for # "form" /\ arg.op.do = "cancelReturn"
    BY <1>3 DEF CancelReturnRequest, Act, Op
  <2>3. KnowNext
    BY <2>2, KnowSends
  <2> QED BY <1>1, <2>0, <2>1, <2>3, KnowKept DEF KnowInv, PageKnows, RowShown
<1> QED BY <1>2, <1>3

LEMMA KnowForm ==
    ASSUME MyInv, KnowInv,
           OpenReturnForm \/ CloseReturnForm \/ ChangeGoods \/ AskToCancel
    PROVE  KnowInv'
<1>1. server' = server /\ KnowNext
  BY DEF OpenReturnForm, CloseReturnForm, ChangeGoods, AskToCancel, KnowNext
<1>2. CASE OpenReturnForm \/ CloseReturnForm \/ ChangeGoods
  <2>1. /\ view.page = "order" /\ view'.page = "order" /\ DOMAIN view' = DOMAIN view
        /\ view'.row = view.row
    BY <1>2 DEF OpenReturnForm, CloseReturnForm, ChangeGoods, May, Acts, MyInv, MyPages,
       OrderPageFields
  <2> QED BY <1>1, <2>1, KnowKept DEF KnowInv, PageKnows
<1>3. CASE AskToCancel
  <2>1. /\ view.page = "return" /\ view'.page = "return" /\ DOMAIN view' = DOMAIN view
        /\ view'.row = view.row /\ view.row # None
        /\ view'.asking => ~view.asking /\ view.row.ret.status = "pending_review"
    BY <1>3 DEF AskToCancel, KnowInv, PageKnows, ReturnPageFields
  <2> QED BY <1>1, <2>1, KnowKept DEF KnowInv, PageKnows, RowShown
<1> QED BY <1>2, <1>3

\* An answer is taken out of its slot, which is free then, or sends for the
\* rows on the page of the order.
LEMMA KnowTakes ==
    ASSUME MyInv, NEW i \in Slots,
           \/ Finish(i)
           \/ \E arg : Continue(i, "rows", arg) /\ view'.page = "order"
    PROVE  KnowNext
<1>1. CASE Finish(i)
  BY <1>1 DEF Finish, NoCall, KnowNext, MyInv, MyCalls
<1>2. CASE \E arg : Continue(i, "rows", arg) /\ view'.page = "order"
  BY <1>2 DEF Continue, KnowNext, MyInv, MyCalls
<1> QED BY <1>1, <1>2

LEMMA KnowAnswers ==
    ASSUME MyInv, KnowInv, NEW i \in Slots,
           \/ OrdersListed(i) \/ OrderActSettles(i) \/ OrderLoads(i)
           \/ ReturnLoads(i) \/ ReturnActSettles(i)
    PROVE  KnowInv'
<1>1. server' = server
  BY DEF OrdersListed, OrderActSettles, OrderLoads, ReturnLoads, ReturnActSettles
<1>2. CallKnows(calls[i]) /\ MyCall(calls[i])
  BY DEF KnowInv, MyInv, MyCalls
<1>3. CASE OrdersListed(i)
  <2>1. /\ view.page = "orders" /\ view'.page = "orders" /\ "row" \in DOMAIN view'
        /\ view'.row = view.row
           \/ (view'.row = calls[i].ans[MyOrder] /\ Returns(i, "rows"))
    BY <1>3 DEF OrdersListed, MyInv, MyPages, KnowInv, PageKnows
  <2>2. view'.row # None /\ view'.row.ret # None => HasReturn
    BY <1>2, <2>1 DEF KnowInv, PageKnows, CallKnows, Returns
  <2>3. KnowNext
    BY <1>3, KnowTakes DEF OrdersListed
  <2> QED BY <1>1, <2>1, <2>2, <2>3, KnowKept
<1>4. CASE OrderActSettles(i)
  <2>1. view.page = "order"
    BY <1>4 DEF OrderActSettles
  <2>2. /\ view'.page = "order" /\ DOMAIN view' = DOMAIN view /\ view'.row = view.row
    BY <1>2, <1>4, <2>1, SettledRight DEF OrderActSettles, Throws, MyCall, MyInv, MyPages
  <2>3. KnowNext
    BY <1>4, <2>2, KnowTakes DEF OrderActSettles
  <2> QED BY <1>1, <2>1, <2>2, <2>3, KnowKept DEF KnowInv, PageKnows
<1>5. CASE OrderLoads(i)
  <2> DEFINE v == IF Throws(i, "rows") THEN view
                  ELSE [view EXCEPT !.row = calls[i].ans[MyOrder],
                                    !.form = IF @ = None THEN None ELSE FreshForm]
  <2>1. /\ view.page = "order"
        /\ calls[i].arg.for \in {"mount", "cancel", "complete", "review", "form"}
    BY <1>2, <1>5 DEF OrderLoads, Returns, Throws, MyCall
  <2>2. FormGoods(FreshForm)
    BY BoughtCounted DEF FormGoods, FreshForm
  <2>3. /\ DOMAIN v = DOMAIN view /\ v.page = "order"
        /\ v.form # None => FormGoods(v.form)
        /\ v.row = view.row \/ (v.row = calls[i].ans[MyOrder] /\ Returns(i, "rows"))
    <3>1. CASE Throws(i, "rows")
      BY <2>1, <3>1 DEF MyInv, MyPages
    <3>2. CASE ~Throws(i, "rows")
      <4>1. v = [view EXCEPT !.row = calls[i].ans[MyOrder],
                             !.form = IF @ = None THEN None ELSE FreshForm]
        BY <3>2
      <4>2. Returns(i, "rows")
        BY <1>5, <3>2 DEF OrderLoads
      <4> QED BY <2>1, <2>2, <4>1, <4>2 DEF MyInv, MyPages, OrderPageFields
    <3> QED BY <3>1, <3>2
  <2>4. view' = Settled(v, calls[i].arg)
    BY <1>5 DEF OrderLoads
  <2>5. OrderPageFields \subseteq DOMAIN view
    BY <2>1 DEF MyInv, MyPages
  <2> HIDE DEF v
  <2>6. view'.page = "order" /\ DOMAIN view' = DOMAIN view /\ view'.row = v.row
    BY <2>1, <2>3, <2>4, <2>5, SettledRight
  <2>7. view'.row # None /\ view'.row.ret # None => HasReturn
    BY <1>2, <2>1, <2>3, <2>6 DEF KnowInv, PageKnows, CallKnows, Returns
  <2>8. KnowNext
    BY <1>5, KnowTakes DEF OrderLoads
  <2> QED BY <1>1, <2>1, <2>5, <2>6, <2>7, <2>8, KnowKept DEF OrderPageFields
<1>6. CASE ReturnLoads(i)
  <2>1. /\ view.page = "return" /\ view'.page = "return" /\ DOMAIN view' = DOMAIN view
        /\ view'.asking = view.asking
        /\ view'.row = view.row
           \/ (view'.row = calls[i].ans[MyOrder] /\ Returns(i, "rows"))
    <3>1. view.page = "return" /\ ReturnPageFields \subseteq DOMAIN view
      BY <1>6 DEF ReturnLoads, KnowInv, PageKnows
    <3> QED BY <1>6, <3>1 DEF ReturnLoads, ReturnPageFields
  <2>2. Live(calls[i])
    BY <1>6 DEF ReturnLoads, Returns, Throws, Live
  <2>3. view.row = None /\ ~view.asking
    BY <2>1, <2>2 DEF KnowInv, PageKnows, RowShown
  <2>4. view'.row # None => view'.row.ret # None
    BY <1>2, <2>1, <2>3 DEF CallKnows, Returns
  <2>5. KnowNext
    BY <1>6, KnowTakes DEF ReturnLoads
  <2>6. \A j \in Slots : ~Live(calls'[j])
    <3>1. \A j \in Slots : j # i => ~Live(calls[j]) /\ calls'[j] = calls[j]
      BY <1>6, <2>1, <2>2 DEF ReturnLoads, Finish, KnowInv, PageKnows, MyInv, MyCalls
    <3>2. ~Live(calls'[i])
      BY <1>6 DEF ReturnLoads, Finish, NoCall, Live, MyInv, MyCalls
    <3> QED BY <3>1, <3>2
  <2> QED BY <1>1, <2>1, <2>3, <2>4, <2>5, <2>6, KnowKept DEF KnowInv, PageKnows
<1>7. CASE ReturnActSettles(i)
  <2>1. /\ view.page = "return" /\ view'.page = "return" /\ DOMAIN view' = DOMAIN view
        /\ \/ view'.row = view.row /\ view'.asking = view.asking
           \/ view'.row = calls[i].ans /\ ~view'.asking /\ Returns(i, "act")
    BY <1>7 DEF ReturnActSettles, KnowInv, PageKnows, ReturnPageFields
  <2>2. view'.row # None => view'.row.ret # None
    BY <1>2, <1>7, <2>1 DEF ReturnActSettles, CallKnows, Returns, KnowInv, PageKnows
  <2>3. KnowNext
    BY <1>7, KnowTakes DEF ReturnActSettles
  <2>4. RowShown
    BY <1>7, <2>1 DEF ReturnActSettles, Returns, Throws, RowShown, WaitsBar
  <2> QED BY <1>1, <2>1, <2>2, <2>3, <2>4, KnowKept DEF KnowInv, PageKnows
<1> QED BY <1>3, <1>4, <1>5, <1>6, <1>7

LEMMA KnowServed ==
    ASSUME MyInv, KnowInv, NEW i \in Slots, ActServed(i, calls[i].arg.for = "form")
    PROVE  KnowInv'
<1> DEFINE op == calls[i].arg.op
<1>1. /\ view' = view /\ calls[i].op = "act" /\ OpRight(op) /\ CallKnows(calls[i])
      /\ DOMAIN calls = Slots
  BY DEF ActServed, MyInv, MyCalls, MyCall, KnowInv
<1>2. /\ \A j \in Slots \ {i} : calls'[j] = calls[j]
      /\ \/ calls'[i].op = "none"
         \/ /\ calls'[i].op = "act" /\ calls'[i].arg = calls[i].arg
            /\ calls'[i].phase \in {"answered", "failed"}
            /\ calls'[i].phase = "answered" =>
                  /\ Accepted(op)
                  /\ server' = [server EXCEPT !.orders[op.order] = After(op)]
                  /\ calls'[i].ans = server'.orders[op.order]
            /\ calls[i].phase = "sent" \/ calls[i].arg.for = "form"
  <2>1. CASE Accepted(op)
    <3>1. /\ server' = [server EXCEPT !.orders[op.order] = After(op)]
          /\ \/ Acted(i, server'.orders[op.order])
             \/ (calls[i].arg.for = "form" /\ ActedLate(i, server'.orders[op.order]))
      BY <2>1 DEF ActServed
    <3> DEFINE row == server'.orders[op.order]
    <3> HIDE DEF row, op
    <3>2. \/ Reply(i, row) \/ Refuse(i) \/ Finish(i)
      BY <3>1 DEF Acted, ActedLate, row
    <3>3. Reply(i, row) => calls[i].phase = "sent" \/ calls[i].arg.for = "form"
      BY <1>1, <3>1 DEF Acted, ActedLate, row, Reply, Refuse, Finish, NoCall
    <3>4. Refuse(i) => calls[i].phase = "sent" \/ calls[i].arg.for = "form"
      BY <1>1, <3>1 DEF Acted, ActedLate, row, Reply, Refuse, Finish, NoCall
    <3>5. CASE Reply(i, row)
      BY <1>1, <2>1, <3>1, <3>3, <3>5 DEF Reply, row
    <3>6. CASE Refuse(i)
      BY <1>1, <3>4, <3>6 DEF Refuse
    <3>7. CASE Finish(i)
      BY <1>1, <3>7 DEF Finish, NoCall
    <3> QED BY <3>2, <3>5, <3>6, <3>7
  <2>2. CASE ~Accepted(op)
    BY <1>1, <2>2 DEF ActServed, Rejected, Refuse, Finish, NoCall
  <2> QED BY <2>1, <2>2
<1>3. \/ server' = server
      \/ (Accepted(op) /\ server' = [server EXCEPT !.orders[op.order] = After(op)])
  BY DEF ActServed
<1> HIDE DEF op
<1>4. HasReturn => HasReturn'
  <2>1. CASE server' = server
    BY <2>1 DEF HasReturn
  <2>2. CASE Accepted(op) /\ server' = [server EXCEPT !.orders[op.order] = After(op)]
    BY <1>1, <2>2, ReturnStays
  <2> QED BY <1>3, <2>1, <2>2
<1>5. calls'[i].op = "act" /\ calls'[i].phase = "answered" =>
         /\ calls'[i].ans.ret = After(op).ret
         /\ HasReturn \/ op.do = "return" => HasReturn' /\ After(op).ret # None
  <2> SUFFICES ASSUME calls'[i].op = "act", calls'[i].phase = "answered"
               PROVE  /\ calls'[i].ans.ret = After(op).ret
                      /\ HasReturn \/ op.do = "return" =>
                            HasReturn' /\ After(op).ret # None
    OBVIOUS
  <2>1. /\ Accepted(op) /\ server' = [server EXCEPT !.orders[op.order] = After(op)]
        /\ calls'[i].ans = server'.orders[op.order]
    BY <1>2
  <2>2. /\ server'.orders[MyOrder] = After(op) /\ op.order = MyOrder
    BY <1>1, <2>1 DEF OpRight, MyInv, OrdersRight
  <2>3. HasReturn \/ op.do = "return" => After(op).ret # None
    BY <1>1, <2>1, AfterHasReturn DEF MyInv
  <2> QED BY <2>1, <2>2, <2>3 DEF HasReturn
<1>6. op.do = "cancelReturn" /\ Accepted(op) => HasReturn
  BY <1>1 DEF Accepted, OpRight, HasReturn
<1>7. CallKnows(calls[i])'
  BY <1>1, <1>2, <1>4, <1>5, <1>6 DEF CallKnows, op
<1>8. \A j \in Slots \ {i} : CallKnows(calls[j])'
  BY <1>1, <1>2, <1>4 DEF KnowInv, CallKnows
<1>9. /\ \A j \in Slots : Live(calls'[j]) => Live(calls[j])
      /\ RowShown' => RowShown
  BY <1>1, <1>2 DEF Live, RowShown, WaitsBar
<1>10. PageKnows'
  BY <1>1, <1>4, <1>9 DEF KnowInv, PageKnows, Live
<1> QED BY <1>7, <1>8, <1>10 DEF KnowInv

LEMMA KnowAround ==
    ASSUME MyInv, KnowInv,
           \/ \E i \in Slots : OrdersRead(i)
           \/ Elsewhere(StaffOps) \/ WindowCloses \/ RequestLost \/ OrphanLost
    PROVE  KnowInv'
<1>0. view' = view /\ DOMAIN calls = Slots
  BY DEF OrdersRead, Elsewhere, WindowCloses, RequestLost, OrphanLost, MyInv, MyCalls
<1>1. CASE \E i \in Slots : OrdersRead(i)
  <2>1. PICK i \in Slots : Asked(i, "rows") /\ Reply(i, server.orders)
                           /\ server' = server
    BY <1>1 DEF OrdersRead
  <2>2. /\ \A j \in Slots \ {i} : calls'[j] = calls[j]
        /\ calls[i].op = "rows" /\ calls[i].phase = "sent"
        /\ calls'[i].op = "rows" /\ calls'[i].phase = "answered"
        /\ calls'[i].ans = server.orders
    BY <1>0, <2>1 DEF Asked, Reply
  <2>3. HasReturn' = HasReturn
    BY <2>1 DEF HasReturn
  <2>4. \A j \in Slots : CallKnows(calls[j])'
    BY <1>0, <2>2, <2>3 DEF KnowInv, CallKnows, HasReturn, PageKnows
  <2>5. /\ \A j \in Slots : Live(calls'[j]) => Live(calls[j])
        /\ RowShown' => RowShown
    BY <1>0, <2>2 DEF Live, RowShown, WaitsBar
  <2>6. PageKnows'
    BY <1>0, <2>3, <2>5 DEF KnowInv, PageKnows, Live
  <2> QED BY <2>4, <2>6 DEF KnowInv
<1>2. CASE Elsewhere(StaffOps) \/ WindowCloses
  <2>1. calls' = calls
    BY <1>2 DEF Elsewhere, WindowCloses
  <2>2. HasReturn => HasReturn'
    <3>1. CASE Elsewhere(StaffOps)
      <4>1. PICK op \in StaffOps :
               Accepted(op) /\ server' = [server EXCEPT !.orders[op.order] = After(op)]
        BY <3>1 DEF Elsewhere
      <4>2. OpRight(op)
        BY DEF StaffOps, Op, OpRight, Deeds
      <4> QED BY <4>1, <4>2, ReturnStays
    <3>2. CASE WindowCloses
      <4>1. PICK n \in DOMAIN server.orders :
               server' = [server EXCEPT !.orders[n].old = TRUE]
        BY <3>2 DEF WindowCloses
      <4>2. server'.orders = [server.orders EXCEPT ![n].old = TRUE]
        BY <4>1 DEF MyInv, OrdersRight
      <4>3. server'.orders[MyOrder].ret = server.orders[MyOrder].ret
        BY <4>2 DEF MyInv, OrdersRight, RowRight, RowFields
      <4> QED BY <4>3 DEF HasReturn
    <3> QED BY <1>2, <3>1, <3>2
  <2>3. \A j \in Slots : CallKnows(calls[j])'
    BY <1>0, <2>1, <2>2 DEF KnowInv, CallKnows
  <2>4. PageKnows'
    BY <1>0, <2>1, <2>2 DEF KnowInv, PageKnows, Live, RowShown, WaitsBar
  <2> QED BY <2>3, <2>4 DEF KnowInv
<1>3. CASE RequestLost \/ OrphanLost
  <2>1. PICK i \in Slots : \/ (calls[i].phase = "sent" /\ Refuse(i))
                           \/ (calls[i].phase = "orphan" /\ Finish(i))
    BY <1>3 DEF RequestLost, OrphanLost
  <2>2. /\ \A j \in Slots \ {i} : calls'[j] = calls[j]
        /\ \/ /\ calls'[i].op = calls[i].op /\ calls'[i].arg = calls[i].arg
              /\ calls'[i].phase = "failed" /\ calls[i].phase = "sent"
           \/ calls'[i].op = "none"
    BY <1>0, <2>1 DEF Refuse, Finish, NoCall
  <2>3. HasReturn' = HasReturn
    BY <1>3 DEF HasReturn, RequestLost, OrphanLost
  <2>4. \A j \in Slots : CallKnows(calls[j])'
    BY <1>0, <2>2, <2>3 DEF KnowInv, CallKnows
  <2>5. /\ \A j \in Slots : Live(calls'[j]) => Live(calls[j])
        /\ RowShown' => RowShown
    BY <1>0, <2>2 DEF Live, RowShown, WaitsBar
  <2>6. PageKnows'
    BY <1>0, <2>3, <2>5 DEF KnowInv, PageKnows, Live
  <2> QED BY <2>4, <2>6 DEF KnowInv
<1> QED BY <1>1, <1>2, <1>3

LEMMA KnowSteps ==
    ASSUME MyInv, KnowInv, MyOrdersNext \/ RequestLost \/ OrphanLost \/ UNCHANGED tab
    PROVE  KnowInv'
<1>1. CASE UNCHANGED tab
  BY <1>1 DEF tab, KnowInv, PageKnows, CallKnows, HasReturn, Live, RowShown, WaitsBar
<1> QED BY <1>1, KnowOpens, KnowGoes, KnowAsks, KnowForm, KnowAnswers, KnowServed,
           KnowAround DEF MyOrdersNext

\* What the page offers of a row is what the API accepts while it has that row.
LEMMA OffersAccepted ==
    ASSUME MyInv, KnowInv PROVE OffersKept
<1> SUFFICES ASSUME view.page \in {"order", "return"}, view.row # None,
                    RowUnchanged
             PROVE  /\ view.page = "order" =>
                       /\ CanCancel(view) => Accepted(Op("cancel", MyOrder, None))
                       /\ CanComplete(view) => Accepted(Op("complete", MyOrder, None))
                       /\ \A l \in Lines :
                             CanReview(view, l) => Accepted(Op("review", MyOrder, l))
                       /\ \A isWithin7Days \in BOOLEAN :
                             (/\ CanReturn(view, isWithin7Days)
                              /\ ~server.orders[MyOrder].old
                              /\ view.row.back = NoGoods
                              /\ view.form # None /\ view.form.goods # NoGoods) =>
                                Accepted(Op("return", MyOrder, view.form.goods))
                    /\ (view.page = "return" /\ view.asking) =>
                          Accepted(Op("cancelReturn", MyOrder, None))
  BY DEF OffersKept
<1> DEFINE row == server.orders[MyOrder]
<1>1. /\ RowRight(row)
      /\ view.row.status = row.status /\ view.row.reviewed = row.reviewed
      /\ view.row.ret = row.ret /\ view.row.back = row.back
  BY DEF MyInv, OrdersRight, RowRight, RowFields, RowUnchanged
<1>2. /\ CanCancel(view) => Accepted(Op("cancel", MyOrder, None))
      /\ CanComplete(view) => Accepted(Op("complete", MyOrder, None))
  BY <1>1 DEF CanCancel, CanComplete, Accepted, Op
<1>3. \A l \in Lines : CanReview(view, l) => Accepted(Op("review", MyOrder, l))
  BY <1>1 DEF CanReview, Accepted, Op
<1>4. ASSUME NEW isWithin7Days \in BOOLEAN, view.page = "order",
             CanReturn(view, isWithin7Days), ~row.old,
             view.row.back = NoGoods, view.form # None
      PROVE  Accepted(Op("return", MyOrder, view.form.goods))
  <2>1. /\ row.status \in {"delivered", "completed"}
        /\ row.ret # None => row.ret.status \in {"cancelled", "rejected"}
    BY <1>1, <1>4 DEF CanReturn, EligibleForReturn
  <2>2. NoneStands(row)
    BY <1>1, <2>1 DEF RowRight, StandingReturn, NoneStands
  <2>3. \A l \in Lines : view.form.goods[l] <= Bought[l] - row.back[l]
    BY <1>1, <1>4, BoughtCounted DEF MyInv, MyPages, FormGoods, NoGoods
  <2> QED BY <1>4, <2>1, <2>2, <2>3 DEF Accepted, Op
<1>5. ASSUME view.page = "return", view.asking
      PROVE  Accepted(Op("cancelReturn", MyOrder, None))
  <2>1. row.ret # None /\ row.ret.status = "pending_review"
    BY <1>1, <1>5 DEF KnowInv, PageKnows
  <2> QED BY <2>1 DEF Accepted, Op
<1> QED BY <1>2, <1>3, <1>4, <1>5

\* What the pages of an order and of a return offer for the row they show is
\* accepted by the API as long as nobody has changed that row; a return, as
\* long as the API's own seven days last.
THEOREM OffersAlwaysKept == Spec => []OffersKept
<1> DEFINE Inv == area = "myOrders" => MyInv /\ KnowInv
<1>1. Init => Inv
  BY MyStarts, KnowStarts DEF Init
<1>2. Inv /\ [Next]_tab => Inv'
  BY StepInMyOrders, MySteps, KnowSteps
<1>3. Inv => OffersKept
  BY OffersAccepted DEF OffersKept
<1> QED BY <1>1, <1>2, <1>3, PTL DEF Spec

-----------------------------------------------------------------------------
(* The desks of the staff.                                                 *)

DeskFields ==
    {"page", "orders", "loading", "error", "busy", "dialog", "staff", "courier",
     "fetching", "jobs"}

\* Who is selected in the dialog is one of those that were loaded.
CourierListed ==
    view.page \in DeskPages =>
        /\ DeskFields \subseteq DOMAIN view
        /\ view.courier # None => view.courier \in view.staff

\* A step of the desk that neither loads nor chooses leaves both alone.
LEMMA CourierStays ==
    ASSUME CourierListed, view.page \in DeskPages, view'.page = view.page,
           DOMAIN view' = DOMAIN view, view'.courier = view.courier,
           view'.staff = view.staff
    PROVE  CourierListed'
BY DEF CourierListed

LEMMA DeskStep ==
    ASSUME CourierListed, DeskNext PROVE CourierListed'
<1>0. view.page \in DeskPages => DeskFields \subseteq DOMAIN view
  BY DEF CourierListed
<1>1. CASE OpenDesk
  <2>1. PICK page \in DeskPages :
          view' = [page |-> page, orders |-> None, loading |-> TRUE,
                   error |-> FALSE, busy |-> None, dialog |-> None,
                   staff |-> None, courier |-> None, fetching |-> FALSE,
                   jobs |-> 0]
    BY <1>1 DEF OpenDesk
  <2> QED BY <2>1 DEF CourierListed, DeskFields
<1>2. CASE PressButton \/ SubmitDialog
  <2>1. PICK n : view' = [view EXCEPT !.busy = n, !.jobs = @ + 1]
    BY <1>2 DEF PressButton, SubmitDialog, Mutate
  <2>2. view.page \in DeskPages
    BY <1>2 DEF PressButton, SubmitDialog, Working
  <2> QED BY <1>0, <2>1, <2>2, CourierStays DEF DeskFields
<1>3. CASE OpenDialog \/ CloseDialog
  <2>1. \E d : view' = [view EXCEPT !.dialog = d]
    BY <1>3 DEF OpenDialog, CloseDialog
  <2>2. view.page \in DeskPages
    BY <1>3 DEF OpenDialog, CloseDialog
  <2> QED BY <1>0, <2>1, <2>2, CourierStays DEF DeskFields
<1>4. CASE OpenDispatch
  <2>1. \E d, f : \/ view' = [view EXCEPT !.fetching = f, !.dialog = d]
                  \/ view' = [view EXCEPT !.dialog = d]
    BY <1>4 DEF OpenDispatch
  <2>2. view.page \in DeskPages
    BY <1>4 DEF OpenDispatch
  <2> QED BY <1>0, <2>1, <2>2, CourierStays DEF DeskFields
<1>5. CASE ChooseCourier
  <2>1. /\ view.page \in DeskPages
        /\ \E c \in view.staff : view' = [view EXCEPT !.courier = c]
    BY <1>5 DEF ChooseCourier
  <2> QED BY <1>0, <2>1 DEF CourierListed, DeskFields
<1>6. ASSUME NEW i \in Slots, StaffArrives(i) PROVE CourierListed'
  <2>1. view.page \in DeskPages
    BY <1>6 DEF StaffArrives
  <2>2. CASE Returns(i, "staff")
    <3>1. \/ \E c \in SelectedOf(calls[i].ans) :
                view' = [view EXCEPT !.staff = calls[i].ans, !.courier = c,
                                     !.fetching = FALSE]
          \/ view' = [view EXCEPT !.fetching = FALSE]
      BY <1>6 DEF StaffArrives
    <3>2. CASE view' = [view EXCEPT !.fetching = FALSE]
      BY <1>0, <2>1, <3>2, CourierStays DEF DeskFields
    <3>3. ASSUME NEW c \in SelectedOf(calls[i].ans),
                 view' = [view EXCEPT !.staff = calls[i].ans, !.courier = c,
                                      !.fetching = FALSE]
          PROVE  CourierListed'
      BY <1>0, <2>1, <3>3 DEF CourierListed, SelectedOf, DeskFields
    <3> QED BY <3>1, <3>2, <3>3
  <2>3. CASE ~Returns(i, "staff")
    BY <1>0, <1>6, <2>1, <2>3, CourierStays DEF StaffArrives, DeskFields
  <2> QED BY <2>2, <2>3
<1>7. ASSUME NEW i \in Slots, DeskActSettles(i) PROVE CourierListed'
  BY <1>0, <1>7, CourierStays DEF DeskActSettles, NotBusy, DeskFields
<1>8. ASSUME NEW i \in Slots, DeskLoads(i) PROVE CourierListed'
  <2>1. view.page \in DeskPages
    BY <1>8 DEF DeskLoads
  <2>2. PICK shown : /\ \E o, e : shown = [view EXCEPT !.orders = o, !.loading = FALSE,
                                                      !.error = e]
                     /\ view' = shown \/ view' = NotBusy(shown)
    BY <1>8 DEF DeskLoads
  <2>3. DOMAIN shown = DOMAIN view /\ shown.page = view.page
        /\ shown.courier = view.courier /\ shown.staff = view.staff
    BY <1>0, <2>1, <2>2 DEF DeskFields
  <2> QED BY <1>0, <2>1, <2>2, <2>3, CourierStays DEF NotBusy, DeskFields
<1>9. ASSUME NEW i \in Slots, ShipmentSettles(i) PROVE CourierListed'
  BY <1>0, <1>9, CourierStays DEF ShipmentSettles, NotBusy, DeskFields
<1>10. CASE view' = view
  BY <1>10 DEF CourierListed
<1> QED BY <1>1, <1>2, <1>3, <1>4, <1>5, <1>6, <1>7, <1>8, <1>9, <1>10
        DEF DeskNext, DeskRead, ActServed, OrdersRead, Elsewhere, CourierLeaves

LEMMA StepInDesk ==
    ASSUME [Next]_tab
    PROVE  /\ area' = area
           /\ area = "desk" => DeskNext \/ view' = view
BY DEF Next, In, RequestLost, OrphanLost, Resting, tab

LEMMA DeskOffersAccepted ==
    ASSUME CourierListed PROVE DeskOffersKept
<1> SUFFICES ASSUME view.page \in DeskPages, NEW n \in Rows(view),
                    view.orders[n] = server.orders[n],
                    NEW do \in Offered(view, n),
                    ~(do = "cancel" /\ view.orders[n].status = "confirmed"),
                    do = "dispatch" =>
                       view.staff = server.couriers /\ view.courier # None
             PROVE  Accepted(Op(do, n, view.courier))
  BY DEF DeskOffersKept
<1>1. do = "dispatch" => view.courier \in server.couriers
  BY DEF CourierListed
<1> DEFINE status == server.orders[n].status
<1>2. /\ do \in {"cancel", "confirm"} => status = "paid"
      /\ do = "dispatch" => status = "confirmed"
      /\ do \in {"fail", "deliver"} => status = "shipping"
      /\ do \in {"cancel", "confirm", "dispatch", "fail", "deliver"}
  BY DEF Offered, Offers
<1> QED BY <1>1, <1>2 DEF Accepted, Op

\* As long as nobody else has changed an order and the list of the delivery
\* staff is right, what a desk offers is accepted, but for the cancellation of
\* a confirmed order.
THEOREM DeskOffersAlwaysKept == Spec => []DeskOffersKept
<1> DEFINE Inv == area = "desk" => CourierListed
<1>1. Init => Inv
  BY DEF Init, DeskInit, CourierListed, DeskPages
<1>2. Inv /\ [Next]_tab => Inv'
  BY StepInDesk, DeskStep DEF CourierListed
<1>3. Inv => DeskOffersKept
  BY DeskOffersAccepted DEF DeskOffersKept
<1> QED BY <1>1, <1>2, <1>3, PTL DEF Spec

-----------------------------------------------------------------------------
(* The page where the staff decides on a return.                           *)

TheReturn == server.orders[MyOrder].ret

\* A request that was read some time ago: it asks for the same goods, and what
\* was completed by then has not changed since.
ReadOf(r) ==
    /\ r \in ReturnRequests
    /\ r.goods = TheReturn.goods
    /\ r.status = "completed" => r = TheReturn

VerdictRecorded ==
    /\ OrdersRight /\ TheReturn # None
    /\ TheReturn.status = "completed" => TheReturn.verdict \in Verdicts(TheReturn)

ReturnDeskFields ==
    {"page", "ret", "loading", "error", "deciding", "marks", "rejecting", "decisions"}

ReturnDeskPage ==
    /\ view.page \in {"blank", "returnDesk"}
    /\ view.page = "returnDesk" =>
          /\ ReturnDeskFields \subseteq DOMAIN view
          /\ view.ret # None => ReadOf(view.ret)
          /\ view.marks \in [Lines -> {"passed", "failed"}]

DecisionDeeds == {"cancelReturn", "approve", "reject", "receive", "inspect"}

\* A decision with all its verdicts.
DecisionRight(op) ==
    /\ op.order = MyOrder /\ op.do \in DecisionDeeds
    /\ op.do = "inspect" => op.what \in Verdicts(TheReturn)

DecisionCall(c) ==
    /\ c.op = "act" => DecisionRight(c.arg.op)
    /\ (c.op = "rows" /\ c.phase = "answered") => ReadOf(c.ans[MyOrder].ret)

DecisionCalls == DOMAIN calls = Slots /\ \A i \in Slots : DecisionCall(calls[i])

DecidedInv == VerdictRecorded /\ ReturnDeskPage /\ DecisionCalls

LEMMA VerdictsOfGoods ==
    ASSUME NEW r, NEW s, r.goods = s.goods PROVE Verdicts(r) = Verdicts(s)
BY DEF Verdicts, LinesOf

LEMMA VerdictsTyped ==
    ASSUME NEW r PROVE Verdicts(r) \subseteq [Lines -> {"pending", "passed", "failed"}]
BY DEF Verdicts

LEMMA DecisionStarts == ASSUME ReturnDeskInit PROVE DecidedInv
<1>1. PICK goods \in [Lines -> 0 .. 1] :
         /\ \A l \in Lines : goods[l] <= Bought[l]
         /\ server = [orders |-> [n \in OrderNumbers |->
                          Requested(NewOrder("delivered"), goods)]]
  BY DEF ReturnDeskInit
<1> DEFINE row == NewOrder("delivered")
           r == [status |-> "pending_review", goods |-> goods,
                 verdict |-> [l \in Lines |-> "pending"]]
<1>2. RowRight(row) /\ NoneStands(row) /\ RowFields \subseteq DOMAIN row
      /\ row.back = NoGoods
  BY NewOrderRight DEF NewOrder, NoneStands, RowFields
<1>3. goods \in [Lines -> Nat]
  OBVIOUS
<1>4. \A l \in Lines : goods[l] <= Bought[l] - row.back[l]
  BY <1>1, <1>2, <1>3, BoughtCounted DEF NoGoods
<1> HIDE DEF row
<1>5. RowRight(Requested(row, goods)) /\ Requested(row, goods).ret = r
  BY <1>2, <1>3, <1>4, RequestedRight DEF Requested, RowFields
<1>6. MyOrder \in OrderNumbers
  BY SomeOrders DEF MyOrder
<1>7. /\ OrdersRight /\ TheReturn = r
  BY <1>1, <1>5, <1>6 DEF OrdersRight, TheReturn, row
<1>8. r \in ReturnRequests /\ r.status = "pending_review"
  BY <1>3 DEF ReturnRequests
<1>9. VerdictRecorded
  BY <1>7, <1>8, NoneIsNoRequest DEF VerdictRecorded
<1> QED BY <1>9 DEF ReturnDeskInit, NoCalls, NoCall, DecidedInv, ReturnDeskPage,
           DecisionCalls, DecisionCall

\* What an accepted decision leaves: the same goods, a verdict for each, and
\* nothing new when all was decided.
LEMMA DecisionLeaves ==
    ASSUME VerdictRecorded, NEW op, DecisionRight(op), Accepted(op)
    PROVE  /\ After(op).ret \in ReturnRequests
           /\ After(op).ret.goods = TheReturn.goods
           /\ TheReturn.status = "completed" => After(op).ret = TheReturn
           /\ After(op).ret.status = "completed" =>
                 After(op).ret.verdict \in Verdicts(TheReturn)
<1> DEFINE row == server.orders[MyOrder]
           r == row.ret
<1>0. /\ RowRight(row) /\ op.order = MyOrder /\ RowFields \subseteq DOMAIN row
      /\ r = TheReturn /\ r \in ReturnRequests
      /\ r.status = "completed" => r.verdict \in Verdicts(r)
  BY DEF VerdictRecorded, OrdersRight, DecisionRight, RowRight, TheReturn
<1>1. CASE op.do \in {"cancelReturn", "reject", "approve", "receive"}
  <2>1. PICK status \in {"cancelled", "rejected", "approved", "goods_received"} :
           After(op).ret = [r EXCEPT !.status = status]
    BY <1>0, <1>1 DEF After, Closed, RowFields
  <2>2. r.status # "completed"
    BY <1>0, <1>1 DEF Accepted
  <2> HIDE DEF r
  <2>3. /\ [r EXCEPT !.status = status] \in ReturnRequests
        /\ [r EXCEPT !.status = status].goods = r.goods
        /\ [r EXCEPT !.status = status].status = status
    BY <1>0 DEF ReturnRequests
  <2> QED BY <1>0, <2>1, <2>2, <2>3
<1>2. CASE op.do = "inspect"
  <2> DEFINE new == [status |-> "completed", goods |-> r.goods, verdict |-> op.what]
  <2>1. CASE r.status = "completed"
    <3>1. After(op) = row
      BY <1>0, <1>2, <2>1 DEF After, Inspected
    <3> QED BY <1>0, <3>1
  <2>2. CASE r.status # "completed"
    <3>1. After(op).ret = new
      BY <1>0, <1>2, <2>2 DEF After, Inspected, RowFields
    <3>2. op.what \in Verdicts(r)
      BY <1>0, <1>2 DEF DecisionRight
    <3>3. new \in ReturnRequests
      BY <1>0, <3>2, VerdictsTyped DEF ReturnRequests
    <3> QED BY <1>0, <2>2, <3>1, <3>2, <3>3
  <2> QED BY <2>1, <2>2
<1> QED BY <1>1, <1>2 DEF DecisionRight, DecisionDeeds

LEMMA DecisionMade ==
    ASSUME VerdictRecorded, NEW op, DecisionRight(op), Accepted(op),
           server' = [server EXCEPT !.orders[op.order] = After(op)]
    PROVE  /\ VerdictRecorded'
           /\ TheReturn'.goods = TheReturn.goods
           /\ \A r : ReadOf(r) => ReadOf(r)'
           /\ \A o : DecisionRight(o) => DecisionRight(o)'
           /\ server'.orders[op.order].ret = TheReturn'
<1>1. OpRight(op)
  BY VerdictsTyped DEF DecisionRight, DecisionDeeds, OpRight, Deeds
<1>2. OrdersRight'
  BY <1>1, ActKeepsOrders DEF VerdictRecorded
<1>3. TheReturn' = After(op).ret /\ server'.orders[op.order].ret = TheReturn'
  BY DEF VerdictRecorded, OrdersRight, DecisionRight, TheReturn
<1>4. /\ TheReturn' \in ReturnRequests
      /\ TheReturn'.goods = TheReturn.goods
      /\ TheReturn.status = "completed" => TheReturn' = TheReturn
      /\ TheReturn'.status = "completed" => TheReturn'.verdict \in Verdicts(TheReturn)
  BY <1>3, DecisionLeaves
<1>5. Verdicts(TheReturn') = Verdicts(TheReturn)
  BY <1>4, VerdictsOfGoods
<1>6. VerdictRecorded'
  BY <1>2, <1>4, <1>5, NoneIsNoRequest DEF VerdictRecorded
<1>7. \A r : ReadOf(r) => ReadOf(r)'
  BY <1>4 DEF ReadOf
<1>8. \A o : DecisionRight(o) => DecisionRight(o)'
  BY <1>5 DEF DecisionRight
<1> QED BY <1>3, <1>4, <1>6, <1>7, <1>8

\* A step of the page leaves the request alone.
LEMMA DecidedKept ==
    ASSUME DecidedInv, server' = server, DOMAIN calls' = Slots,
           view'.page = "returnDesk", ReturnDeskFields \subseteq DOMAIN view',
           view'.ret # None => ReadOf(view'.ret),
           view'.marks \in [Lines -> {"passed", "failed"}],
           \A j \in Slots : calls'[j] = calls[j] \/ DecisionCall(calls'[j])
    PROVE  DecidedInv'
<1>1. TheReturn' = TheReturn /\ VerdictRecorded'
  BY DEF DecidedInv, VerdictRecorded, OrdersRight, TheReturn
<1>2. ReturnDeskPage'
  BY <1>1 DEF ReturnDeskPage, ReadOf
<1>3. \A j \in Slots : DecisionCall(calls[j])'
  BY <1>1 DEF DecidedInv, DecisionCalls, DecisionCall, DecisionRight, ReadOf
<1> QED BY <1>1, <1>2, <1>3 DEF DecidedInv, DecisionCalls

LEMMA DecisionSent ==
    ASSUME DecidedInv, NEW op, NEW arg, Send(op, arg),
           op \in {"rows", "act"}, op = "act" => DecisionRight(arg.op)
    PROVE  /\ DOMAIN calls' = Slots
           /\ \A j \in Slots : calls'[j] = calls[j] \/ DecisionCall(calls'[j])
<1> DEFINE c == [op |-> op, arg |-> arg, phase |-> "sent"]
           n == NextSlot(calls)
<1>1. calls' = [calls EXCEPT ![n] = c] /\ DOMAIN calls = Slots
  BY DEF Send, Sent, DecidedInv, DecisionCalls
<1>2. c.op = op /\ c.arg = arg /\ c.phase = "sent"
  OBVIOUS
<1> HIDE DEF c, n
<1>3. DecisionCall(c)
  BY <1>2 DEF DecisionCall
<1> QED BY <1>1, <1>3

LEMMA DecisionSteps ==
    ASSUME DecidedInv,
           \/ OpenReturnDesk \/ Approve \/ Receive \/ AskReason \/ Reject \/ Mark
           \/ Inspect
    PROVE  DecidedInv'
<1>1. CASE OpenReturnDesk
  <2>1. Send("rows", [after |-> "mount"])
    BY <1>1 DEF OpenReturnDesk
  <2>2. /\ DOMAIN calls' = Slots
        /\ \A j \in Slots : calls'[j] = calls[j] \/ DecisionCall(calls'[j])
    BY <2>1, DecisionSent
  <2>3. /\ server' = server /\ view'.page = "returnDesk"
        /\ ReturnDeskFields \subseteq DOMAIN view' /\ view'.ret = None
        /\ view'.marks \in [Lines -> {"passed", "failed"}]
    BY <1>1 DEF OpenReturnDesk, ReturnDeskFields
  <2> QED BY <2>2, <2>3, DecidedKept
<1>2. CASE Approve \/ Receive \/ Reject \/ Inspect
  <2>1. /\ view.page = "returnDesk" /\ view.ret # None /\ ReadOf(view.ret)
        /\ ReturnDeskFields \subseteq DOMAIN view
        /\ view.marks \in [Lines -> {"passed", "failed"}]
    BY <1>2 DEF Approve, Receive, Reject, Inspect, Decides, DeskShows, DecidedInv,
       ReturnDeskPage
  <2>2. PICK do \in DecisionDeeds, what \in {None, Payload(view)} :
           /\ Decide(do, what)
           /\ do = "inspect" => what = Payload(view)
    BY <1>2 DEF Approve, Receive, Reject, Inspect, DecisionDeeds
  <2>3. Payload(view) \in Verdicts(view.ret)
    BY <2>1 DEF Payload, Verdicts
  <2>4. Verdicts(view.ret) = Verdicts(TheReturn)
    BY <2>1, VerdictsOfGoods DEF ReadOf
  <2>5. DecisionRight(Op(do, MyOrder, what))
    BY <2>2, <2>3, <2>4 DEF DecisionRight, Op
  <2>6. /\ DOMAIN calls' = Slots
        /\ \A j \in Slots : calls'[j] = calls[j] \/ DecisionCall(calls'[j])
    BY <2>2, <2>5, DecisionSent DEF Decide
  <2>7. /\ server' = server /\ view'.page = "returnDesk"
        /\ DOMAIN view' = DOMAIN view
        /\ view'.ret = view.ret /\ view'.marks = view.marks
    BY <2>1, <2>2 DEF Decide, ReturnDeskFields
  <2> QED BY <2>1, <2>6, <2>7, DecidedKept
<1>3. CASE AskReason
  <2>1. view.page = "returnDesk" /\ ReturnDeskFields \subseteq DOMAIN view
    BY <1>3 DEF AskReason, DeskShows, DecidedInv, ReturnDeskPage
  <2>2. /\ view'.page = "returnDesk" /\ DOMAIN view' = DOMAIN view
        /\ view'.ret = view.ret /\ view'.marks = view.marks
        /\ server' = server /\ calls' = calls
    BY <1>3, <2>1 DEF AskReason, ReturnDeskFields
  <2> QED BY <2>1, <2>2, DecidedKept DEF DecidedInv, ReturnDeskPage, DecisionCalls
<1>4. CASE Mark
  <2>1. view.page = "returnDesk" /\ ReturnDeskFields \subseteq DOMAIN view
        /\ view.marks \in [Lines -> {"passed", "failed"}]
    BY <1>4 DEF Mark, DeskShows, DecidedInv, ReturnDeskPage
  <2>2. PICK l \in Lines, verdict \in {"passed", "failed"} :
           view' = [view EXCEPT !.marks[l] = verdict]
    BY <1>4 DEF Mark, LinesOf
  <2>3. /\ view'.page = "returnDesk" /\ DOMAIN view' = DOMAIN view
        /\ view'.ret = view.ret
        /\ view'.marks \in [Lines -> {"passed", "failed"}]
    BY <2>1, <2>2 DEF ReturnDeskFields
  <2> QED BY <1>4, <2>1, <2>3, DecidedKept DEF Mark, DecidedInv, ReturnDeskPage,
             DecisionCalls
<1> QED BY <1>1, <1>2, <1>3, <1>4

LEMMA DecisionAnswers ==
    ASSUME DecidedInv, NEW i \in Slots,
           Decided(i) \/ DecisionFails(i) \/ DeskReturnLoads(i)
    PROVE  DecidedInv'
<1>0. /\ view.page = "returnDesk" /\ ReturnDeskFields \subseteq DOMAIN view
      /\ view.ret # None => ReadOf(view.ret)
      /\ view.marks \in [Lines -> {"passed", "failed"}]
      /\ DOMAIN calls = Slots /\ DecisionCall(calls[i])
  BY DEF Decided, DecisionFails, DeskReturnLoads, DecidedInv, ReturnDeskPage,
     DecisionCalls
<1>1. /\ DOMAIN calls' = Slots
      /\ \A j \in Slots : calls'[j] = calls[j] \/ DecisionCall(calls'[j])
  <2> DEFINE again == [op |-> "rows", arg |-> [after |-> "act"], phase |-> "sent"]
  <2>1. calls' = [calls EXCEPT ![i] = again] \/ calls' = [calls EXCEPT ![i] = NoCall]
    BY DEF Decided, Continue, DecisionFails, DeskReturnLoads, Finish
  <2>2. DecisionCall(again) /\ DecisionCall(NoCall)
    BY DEF DecisionCall, NoCall
  <2> HIDE DEF again
  <2> QED BY <1>0, <2>1, <2>2
<1>2. CASE Decided(i) \/ DecisionFails(i)
  <2>1. /\ server' = server /\ view'.page = "returnDesk" /\ DOMAIN view' = DOMAIN view
        /\ view'.ret = view.ret /\ view'.marks = view.marks
    BY <1>0, <1>2 DEF Decided, DecisionFails, ReturnDeskFields
  <2> QED BY <1>0, <1>1, <2>1, DecidedKept
<1>3. CASE DeskReturnLoads(i)
  <2>1. CASE Returns(i, "rows")
    <3> DEFINE r == calls[i].ans[MyOrder].ret
               marks == [l \in Lines |-> IF r.verdict[l] = "failed" THEN "failed"
                                         ELSE "passed"]
    <3>1. ReadOf(r)
      BY <1>0, <2>1 DEF DecisionCall, Returns
    <3>2. marks \in [Lines -> {"passed", "failed"}]
      OBVIOUS
    <3>3. view' = [view EXCEPT !.ret = r, !.loading = FALSE, !.deciding = FALSE,
                               !.marks = marks]
      BY <1>3, <2>1 DEF DeskReturnLoads, Returns, Throws
    <3> HIDE DEF r, marks
    <3>4. /\ server' = server /\ view'.page = "returnDesk" /\ DOMAIN view' = DOMAIN view
          /\ view'.ret = r /\ view'.marks = marks
      BY <1>0, <1>3, <3>3 DEF DeskReturnLoads, ReturnDeskFields
    <3> QED BY <1>0, <1>1, <3>1, <3>2, <3>4, DecidedKept
  <2>2. CASE ~Returns(i, "rows")
    <3>1. /\ server' = server /\ view'.page = "returnDesk" /\ DOMAIN view' = DOMAIN view
          /\ view'.ret = view.ret /\ view'.marks = view.marks
      BY <1>0, <1>3, <2>2 DEF DeskReturnLoads, ReturnDeskFields
    <3> QED BY <1>0, <1>1, <3>1, DecidedKept
  <2> QED BY <2>1, <2>2
<1> QED BY <1>2, <1>3

\* A change of the API, and what it does to calls.
LEMMA DecidedOn ==
    ASSUME DecidedInv, view' = view, DOMAIN calls' = Slots,
           \/ server' = server
           \/ \E op : /\ DecisionRight(op) /\ Accepted(op)
                      /\ server' = [server EXCEPT !.orders[op.order] = After(op)],
           \A j \in Slots :
              \/ calls'[j] = calls[j]
              \/ calls'[j].op \notin {"act", "rows"}
              \/ /\ calls'[j].op = calls[j].op /\ calls'[j].arg = calls[j].arg
                 /\ (calls'[j].op = "rows" /\ calls'[j].phase = "answered") =>
                       server' = server /\ calls'[j].ans = server.orders
    PROVE  DecidedInv'
<1>1. /\ VerdictRecorded' /\ \A r : ReadOf(r) => ReadOf(r)'
      /\ \A o : DecisionRight(o) => DecisionRight(o)'
  <2>1. CASE server' = server
    <3>1. TheReturn' = TheReturn
      BY <2>1 DEF TheReturn
    <3> QED BY <2>1, <3>1 DEF DecidedInv, VerdictRecorded, OrdersRight, ReadOf,
               DecisionRight
  <2>2. ASSUME NEW op, DecisionRight(op), Accepted(op),
               server' = [server EXCEPT !.orders[op.order] = After(op)]
        PROVE  /\ VerdictRecorded' /\ \A r : ReadOf(r) => ReadOf(r)'
               /\ \A o : DecisionRight(o) => DecisionRight(o)'
    BY <2>2, DecisionMade DEF DecidedInv
  <2> QED BY <2>1, <2>2
<1>2. ReturnDeskPage'
  BY <1>1 DEF DecidedInv, ReturnDeskPage
<1>3. ReadOf(server.orders[MyOrder].ret)
  BY DEF DecidedInv, VerdictRecorded, ReadOf, TheReturn, OrdersRight, RowRight
<1>4. \A j \in Slots : DecisionCall(calls[j])'
  BY <1>1, <1>3 DEF DecidedInv, DecisionCalls, DecisionCall
<1> QED BY <1>1, <1>2, <1>4 DEF DecidedInv, DecisionCalls

LEMMA DecisionServed ==
    ASSUME DecidedInv,
           \/ \E i \in Slots : ActServed(i, FALSE) \/ OrdersRead(i)
           \/ Elsewhere(OthersDecide) \/ RequestLost \/ OrphanLost
    PROVE  DecidedInv'
<1>0. view' = view /\ DOMAIN calls = Slots
  BY DEF ActServed, OrdersRead, Elsewhere, RequestLost, OrphanLost, DecidedInv,
     DecisionCalls
<1>1. ASSUME NEW i \in Slots, ActServed(i, FALSE) PROVE DecidedInv'
  <2>1. calls[i].op = "act" /\ DecisionRight(calls[i].arg.op)
    BY <1>1 DEF ActServed, DecidedInv, DecisionCalls, DecisionCall
  <2>2. \/ server' = server
        \/ \E op : /\ DecisionRight(op) /\ Accepted(op)
                   /\ server' = [server EXCEPT !.orders[op.order] = After(op)]
    BY <1>1, <2>1 DEF ActServed
  <2>3. \/ \E row : Reply(i, row)
        \/ Refuse(i) \/ Finish(i)
    BY <1>1 DEF ActServed, Acted, Rejected
  <2>4. /\ DOMAIN calls' = Slots
        /\ \A j \in Slots :
              \/ calls'[j] = calls[j]
              \/ calls'[j].op \notin {"act", "rows"}
              \/ calls'[j].op = "act" /\ calls[j].op = "act"
                 /\ calls'[j].arg = calls[j].arg
    BY <1>0, <2>1, <2>3 DEF Reply, Refuse, Finish, NoCall
  <2> QED BY <1>0, <2>2, <2>4, DecidedOn
<1>2. ASSUME NEW i \in Slots, OrdersRead(i) PROVE DecidedInv'
  <2>1. /\ server' = server /\ DOMAIN calls' = Slots
        /\ \A j \in Slots :
              \/ calls'[j] = calls[j]
              \/ /\ calls'[j].op = calls[j].op /\ calls'[j].arg = calls[j].arg
                 /\ calls'[j].ans = server.orders
    BY <1>0, <1>2 DEF OrdersRead, Reply
  <2> QED BY <1>0, <2>1, DecidedOn
<1>3. CASE Elsewhere(OthersDecide)
  <2>1. PICK op \in OthersDecide :
           Accepted(op) /\ server' = [server EXCEPT !.orders[op.order] = After(op)]
    BY <1>3 DEF Elsewhere
  <2>2. DecisionRight(op)
    BY DEF OthersDecide, Op, DecisionRight, DecisionDeeds, TheReturn
  <2>3. calls' = calls
    BY <1>3 DEF Elsewhere
  <2> QED BY <1>0, <2>1, <2>2, <2>3, DecidedOn
<1>4. CASE RequestLost \/ OrphanLost
  <2>1. server' = server /\ \E i \in Slots : Refuse(i) \/ Finish(i)
    BY <1>4 DEF RequestLost, OrphanLost
  <2>2. /\ DOMAIN calls' = Slots
        /\ \A j \in Slots :
              \/ calls'[j] = calls[j]
              \/ calls'[j].op \notin {"act", "rows"}
              \/ /\ calls'[j].op = calls[j].op /\ calls'[j].arg = calls[j].arg
                 /\ calls'[j].phase # "answered"
    BY <1>0, <2>1 DEF Refuse, Finish, NoCall
  <2> QED BY <1>0, <2>1, <2>2, DecidedOn
<1> QED BY <1>1, <1>2, <1>3, <1>4

LEMMA StepInReturnDesk ==
    ASSUME [Next]_tab
    PROVE  /\ area' = area
           /\ area = "returnDesk" => \/ ReturnDeskNext \/ RequestLost \/ OrphanLost
                                     \/ UNCHANGED tab
BY DEF Next, In, RequestLost, OrphanLost, Resting, tab

LEMMA ReturnDeskSteps ==
    ASSUME DecidedInv, ReturnDeskNext \/ RequestLost \/ OrphanLost \/ UNCHANGED tab
    PROVE  DecidedInv'
<1>1. CASE UNCHANGED tab
  BY <1>1 DEF tab, DecidedInv, VerdictRecorded, OrdersRight, ReturnDeskPage, DecisionCalls,
     DecisionCall, DecisionRight, ReadOf, TheReturn
<1> QED BY <1>1, DecisionSteps, DecisionAnswers, DecisionServed DEF ReturnDeskNext

\* Every completed return has a verdict for each of its lines, and a page that
\* shows it as completed shows the verdicts that were recorded.
THEOREM VerdictsAlwaysComplete == Spec => []VerdictsComplete
<1> DEFINE Inv == area = "returnDesk" => DecidedInv
<1>1. Init => Inv
  BY DecisionStarts DEF Init
<1>2. Inv /\ [Next]_tab => Inv'
  BY StepInReturnDesk, ReturnDeskSteps
<1>3. Inv => VerdictsComplete
  BY DEF DecidedInv, VerdictRecorded, ReturnDeskPage, ReadOf, TheReturn, DeskShows,
     VerdictsComplete
<1> QED BY <1>1, <1>2, <1>3, PTL DEF Spec
=============================================================================
