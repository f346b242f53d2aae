-------------------------- MODULE StorefrontProofs --------------------------
(***************************************************************************)
(* Proofs about the pages a visitor shops on, in this order:               *)
(*                                                                         *)
(* Checkout.  However often a form is submitted, whatever is lost or late, *)
(* and wherever the customer goes meanwhile, the form makes at most one    *)
(* order, and the page of the result shows it.  The argument is the key.   *)
(* It is the form's, in every request for a checkout, and so in every      *)
(* order; the API makes no two orders of one key; hence there are no two   *)
(* of one form.                                                            *)
(*                                                                         *)
(* Links and logins.  What CanAccess admits the layouts admit, so it is    *)
(* enough that every link on a page was put there by CanAccess.            *)
(*                                                                         *)
(* The cart.  A handler with two requests removes a line only by its       *)
(* second one, when the first has put the product on the wishlist.         *)
(*                                                                         *)
(* The catalogue.  The filters of a page survive their address; a choice   *)
(* on the page of a product is within the stock that it shows.             *)
(***************************************************************************)
EXTENDS Storefront, TLAPS, FiniteSetTheorems, WellFoundedInduction

-----------------------------------------------------------------------------
(* Checkout: the inductive invariant.                                      *)

\* The server is a record of its four fields.
ServerTyped ==
    /\ server = [cart |-> server.cart, orders |-> server.orders,
                 forms |-> server.forms, blocked |-> server.blocked]
    /\ server.forms \in 0 .. MaxForms

\* An order has the form that it came from, and its key.
OrdersKeyed == \A o \in server.orders : o.form \in Forms /\ o.key = o.form

\* No two orders have one key.
KeysUnique == \A o, p \in server.orders : o.key = p.key => o = p

\* The pages know their form, and that of the result its order.
PageKnowsForm ==
    /\ view.page \in {"checkout", "result"} =>
          "page" \in DOMAIN view /\ "form" \in DOMAIN view /\ view.form \in Forms
    /\ view.page = "result" =>
          "order" \in DOMAIN view /\ view.order \in OrdersOf(view.form)

\* A request to check out carries the key of its form, and is answered with an
\* order of that form.
CallKeyed(c) ==
    c.op = "checkout" =>
        /\ c.arg.form \in Forms
        /\ c.arg.key = c.arg.form
        /\ c.phase = "answered" => c.ans \in OrdersOf(c.arg.form)

CallsKeyed == DOMAIN calls = Slots /\ \A i \in Slots : CallKeyed(calls[i])

CheckoutInv ==
    ServerTyped /\ OrdersKeyed /\ KeysUnique /\ PageKnowsForm /\ CallsKeyed

IInv == area = "checkout" => CheckoutInv

-----------------------------------------------------------------------------
(* What the operators of Tab do to the slots.                              *)

\* A slot is as it was, or holds no request to check out, or the one that was
\* there without an answer.
NoNewCheckout ==
    /\ DOMAIN calls' = Slots
    /\ \A j \in Slots :
          \/ calls'[j] = calls[j]
          \/ calls'[j].op # "checkout"
          \/ /\ calls[j].op = "checkout"
             /\ calls'[j].arg = calls[j].arg
             /\ calls'[j].phase # "answered"

LEMMA SendsOther ==
    ASSUME NEW op, NEW arg, op # "checkout", DOMAIN calls = Slots, Send(op, arg)
    PROVE  NoNewCheckout
BY DEF Send, Sent, NoNewCheckout

LEMMA FinishesOne ==
    ASSUME NEW i \in Slots, DOMAIN calls = Slots, Finish(i)
    PROVE  NoNewCheckout
BY DEF Finish, NoCall, NoNewCheckout

LEMMA ContinuesOther ==
    ASSUME NEW i \in Slots, NEW op, NEW arg, op # "checkout",
           DOMAIN calls = Slots, Continue(i, op, arg)
    PROVE  NoNewCheckout
BY DEF Continue, NoNewCheckout

LEMMA RepliesOther ==
    ASSUME NEW i \in Slots, NEW ans, calls[i].op # "checkout",
           DOMAIN calls = Slots, Reply(i, ans)
    PROVE  NoNewCheckout
BY DEF Reply, NoNewCheckout

LEMMA RefusesOne ==
    ASSUME NEW i \in Slots, DOMAIN calls = Slots, Refuse(i)
    PROVE  NoNewCheckout
BY DEF Refuse, NoNewCheckout

LEMMA OrphansAll ==
    ASSUME DOMAIN calls = Slots, calls' = Orphaned(calls)
    PROVE  NoNewCheckout
BY DEF Orphaned, NoCall, NoNewCheckout

\* A step of the page that submits nothing, and an answer to something else.
LEMMA InvKept ==
    ASSUME CheckoutInv, NoNewCheckout, PageKnowsForm', UNCHANGED server
    PROVE  CheckoutInv'
BY DEF CheckoutInv, ServerTyped, OrdersKeyed, KeysUnique, CallsKeyed, CallKeyed,
       NoNewCheckout, OrdersOf

LEMMA PageUntouched ==
    ASSUME CheckoutInv, view' = view, server' = server
    PROVE  PageKnowsForm'
BY DEF CheckoutInv, PageKnowsForm, OrdersOf

-----------------------------------------------------------------------------
(* The steps of the page.                                                  *)

LEMMA OpenStep ==
    ASSUME CheckoutInv, OpenCheckout PROVE CheckoutInv'
<1>1. NoNewCheckout
  BY SendsOther DEF OpenCheckout, CheckoutInv, CallsKeyed
<1>2. PageKnowsForm'
  BY FormsCounted DEF OpenCheckout, PageKnowsForm, Forms, CheckoutInv, ServerTyped
<1>3. server' = [cart |-> server.cart, orders |-> server.orders,
                 forms |-> server.forms + 1, blocked |-> server.blocked]
  BY DEF OpenCheckout, CheckoutInv, ServerTyped
<1>4. ServerTyped'
  BY <1>3, FormsCounted DEF OpenCheckout, CheckoutInv, ServerTyped
<1>5. OrdersKeyed' /\ KeysUnique' /\ CallsKeyed'
  BY <1>1, <1>3 DEF CheckoutInv, OrdersKeyed, KeysUnique, CallsKeyed, CallKeyed,
     NoNewCheckout, OrdersOf
<1> QED BY <1>2, <1>4, <1>5 DEF CheckoutInv

\* Handlers that set fields of the page other than its form.
LEMMA FieldsStep ==
    ASSUME CheckoutInv, NEW i \in Slots,
           \/ CheckoutCartLoads(i) \/ LoadQuoteSettles(i)
           \/ CodeAtCheckoutSettles(i) \/ OrderFails(i)
    PROVE  CheckoutInv'
<1> USE DEF CheckoutInv
<1>1. CASE CheckoutCartLoads(i)
  <2>1. NoNewCheckout
    BY <1>1, FinishesOne, ContinuesOther DEF CheckoutCartLoads, CallsKeyed
  <2>2. PageKnowsForm'
    BY <1>1 DEF CheckoutCartLoads, PageKnowsForm
  <2> QED BY <1>1, <2>1, <2>2, InvKept DEF CheckoutCartLoads
<1>2. CASE LoadQuoteSettles(i)
  <2>1. NoNewCheckout
    BY <1>2, FinishesOne DEF LoadQuoteSettles, CallsKeyed
  <2>2. PageKnowsForm'
    BY <1>2 DEF LoadQuoteSettles, PageKnowsForm
  <2> QED BY <1>2, <2>1, <2>2, InvKept DEF LoadQuoteSettles
<1>3. CASE CodeAtCheckoutSettles(i)
  <2>1. NoNewCheckout
    BY <1>3, FinishesOne DEF CodeAtCheckoutSettles, CallsKeyed
  <2>2. PageKnowsForm'
    BY <1>3 DEF CodeAtCheckoutSettles, PageKnowsForm
  <2> QED BY <1>3, <2>1, <2>2, InvKept DEF CodeAtCheckoutSettles
<1>4. CASE OrderFails(i)
  <2>1. NoNewCheckout
    BY <1>4, FinishesOne DEF OrderFails, CallsKeyed
  <2>2. PageKnowsForm'
    BY <1>4 DEF OrderFails, PageKnowsForm
  <2> QED BY <1>4, <2>1, <2>2, InvKept DEF OrderFails
<1> QED BY <1>1, <1>2, <1>3, <1>4

LEMMA ChoiceStep ==
    ASSUME CheckoutInv, ApplyCodeAtCheckout \/ ChooseMethod PROVE CheckoutInv'
<1> USE DEF CheckoutInv
<1>1. CASE ApplyCodeAtCheckout
  <2>1. NoNewCheckout
    BY <1>1, SendsOther DEF ApplyCodeAtCheckout, CallsKeyed
  <2>2. PageKnowsForm'
    BY <1>1 DEF ApplyCodeAtCheckout, FormShown, PageKnowsForm
  <2> QED BY <1>1, <2>1, <2>2, InvKept DEF ApplyCodeAtCheckout
<1>2. CASE ChooseMethod
  <2>1. NoNewCheckout
    BY <1>2 DEF ChooseMethod, CallsKeyed, NoNewCheckout
  <2>2. PageKnowsForm'
    BY <1>2 DEF ChooseMethod, FormShown, PageKnowsForm
  <2> QED BY <1>2, <2>1, <2>2, InvKept DEF ChooseMethod
<1> QED BY <1>1, <1>2

\* handleSubmit: the key is the form's.
LEMMA SubmitStep ==
    ASSUME CheckoutInv, SubmitOrder PROVE CheckoutInv'
<1> USE DEF CheckoutInv
<1>1. PageKnowsForm'
  BY DEF SubmitOrder, FormShown, PageKnowsForm
<1>2. ServerTyped' /\ OrdersKeyed' /\ KeysUnique'
  BY DEF SubmitOrder, ServerTyped, OrdersKeyed, KeysUnique
<1>3. CallsKeyed'
  <2> DEFINE c == [op |-> "checkout",
                   arg |-> [form |-> view.form, key |-> KeyOfForm(view),
                            method |-> view.method],
                   phase |-> "sent"]
  <2>1. view.form \in Forms
    BY DEF SubmitOrder, FormShown, PageKnowsForm
  <2>2. c.arg.form \in Forms /\ c.arg.key = c.arg.form /\ c.phase # "answered"
    BY <2>1 DEF KeyOfForm
  <2>3. calls' = [calls EXCEPT ![NextSlot(calls)] = c]
    BY DEF SubmitOrder, Send, Sent
  <2> HIDE DEF c
  <2>4. ASSUME NEW j \in Slots PROVE CallKeyed(calls[j])'
    <3>1. CASE calls'[j] = calls[j]
      BY <3>1 DEF CallsKeyed, CallKeyed, SubmitOrder, OrdersOf
    <3>2. CASE calls'[j] = c
      BY <2>2, <3>2 DEF CallKeyed
    <3> QED BY <2>3, <3>1, <3>2 DEF CallsKeyed
  <2> QED BY <2>3, <2>4 DEF CallsKeyed
<1> QED BY <1>1, <1>2, <1>3

\* The answer is an order of the form that was submitted, and so is what the
\* page of the result shows.
LEMMA PlacedStep ==
    ASSUME CheckoutInv, NEW i \in Slots, OrderPlaced(i) PROVE CheckoutInv'
<1> USE DEF CheckoutInv
<1>1. calls[i].arg.form \in Forms /\ calls[i].ans \in OrdersOf(calls[i].arg.form)
  BY DEF OrderPlaced, Returns, CallsKeyed, CallKeyed
<1>2. NoNewCheckout
  BY DEF OrderPlaced, Orphaned, NoCall, NoNewCheckout
<1>3. PageKnowsForm'
  BY <1>1 DEF OrderPlaced, PageKnowsForm, OrdersOf
<1> QED BY <1>2, <1>3, InvKept DEF OrderPlaced

LEMMA ResultStep ==
    ASSUME CheckoutInv, NEW i \in Slots, ResultSettles(i) PROVE CheckoutInv'
<1>1. NoNewCheckout
  BY FinishesOne DEF ResultSettles, CheckoutInv, CallsKeyed
<1>2. PageKnowsForm'
  BY DEF ResultSettles, CheckoutInv, PageKnowsForm, OrdersOf
<1> QED BY <1>1, <1>2, InvKept DEF ResultSettles

LEMMA LeaveStep ==
    ASSUME CheckoutInv, LeaveCheckout PROVE CheckoutInv'
<1>1. NoNewCheckout
  BY OrphansAll DEF LeaveCheckout, CheckoutInv, CallsKeyed
<1>2. PageKnowsForm'
  BY DEF LeaveCheckout, PageKnowsForm
<1> QED BY <1>1, <1>2, InvKept DEF LeaveCheckout

-----------------------------------------------------------------------------
(* The steps of the API.                                                   *)

\* What an answer to a request to check out may be.
LEMMA ServedCalls ==
    ASSUME CallsKeyed, NEW i \in Slots, NEW o, ActedLate(i, o),
           calls[i].op = "checkout", o \in server'.orders,
           o.form = calls[i].arg.form,
           server.orders \subseteq server'.orders
    PROVE  CallsKeyed'
<1>1. DOMAIN calls' = Slots /\ \A j \in Slots \ {i} : calls'[j] = calls[j]
  BY DEF CallsKeyed, ActedLate, Acted, Reply, Refuse, Finish
<1>2. ASSUME NEW j \in Slots \ {i} PROVE CallKeyed(calls[j])'
  BY <1>1, <1>2 DEF CallsKeyed, CallKeyed, OrdersOf
<1>3. CASE calls'[i].op # "checkout"
  BY <1>1, <1>2, <1>3 DEF CallsKeyed, CallKeyed
<1>4. CASE /\ calls'[i].op = "checkout" /\ calls'[i].arg = calls[i].arg
           /\ calls'[i].phase = "answered" => calls'[i].ans = o
  <2>1. CallKeyed(calls[i])'
    BY <1>4 DEF CallsKeyed, CallKeyed, OrdersOf
  <2> QED BY <1>1, <1>2, <2>1 DEF CallsKeyed
<1>5. \/ calls'[i].op # "checkout"
      \/ /\ calls'[i].op = "checkout" /\ calls'[i].arg = calls[i].arg
         /\ calls'[i].phase = "answered" => calls'[i].ans = o
  BY DEF CallsKeyed, ActedLate, Acted, Reply, Refuse, Finish, NoCall
<1> QED BY <1>3, <1>4, <1>5

LEMMA PageKnowsMore ==
    ASSUME PageKnowsForm, view' = view, server.orders \subseteq server'.orders
    PROVE  PageKnowsForm'
BY DEF PageKnowsForm, OrdersOf

\* checkout: what the key finds is an order of the form, and if it finds
\* nothing then no order has the key.
LEMMA ServedStep ==
    ASSUME CheckoutInv, NEW i \in Slots, CheckoutServed(i) PROVE CheckoutInv'
<1> DEFINE arg == calls[i].arg
           order == [number |-> Cardinality(server.orders) + 1,
                     form |-> arg.form, key |-> arg.key]
<1> USE DEF CheckoutInv
<1>1. calls[i].op = "checkout" /\ view' = view
  BY DEF CheckoutServed
<1>2. arg.form \in Forms /\ arg.key = arg.form
  BY <1>1 DEF CallsKeyed, CallKeyed
<1>3. CASE UNCHANGED server /\ \E o \in SeenBefore(arg.key) : ActedLate(i, o)
  <2>1. PICK o \in SeenBefore(arg.key) : ActedLate(i, o)
    BY <1>3
  <2>2. o \in server'.orders /\ o.form = arg.form
    BY <1>2, <1>3, <2>1 DEF SeenBefore, OrdersKeyed
  <2>3. CallsKeyed'
    BY <1>1, <1>3, <2>1, <2>2, ServedCalls
  <2> QED BY <1>1, <1>3, <2>3, PageUntouched DEF ServerTyped, OrdersKeyed, KeysUnique
<1>4. CASE /\ SeenBefore(arg.key) = {} /\ ActedLate(i, order)
           /\ server' = [server EXCEPT !.orders = @ \cup {order}, !.cart = "empty"]
  <2>1. server' = [cart |-> "empty", orders |-> server.orders \cup {order},
                   forms |-> server.forms, blocked |-> server.blocked]
    BY <1>4 DEF ServerTyped
  <2>2. ServerTyped'
    BY <2>1 DEF ServerTyped
  <2>3. order.form = arg.form /\ order.key = arg.key
    OBVIOUS
  <2> HIDE DEF order
  <2>4. OrdersKeyed'
    BY <1>2, <2>1, <2>3 DEF OrdersKeyed
  <2>5. KeysUnique'
    BY <1>4, <2>1, <2>3 DEF KeysUnique, SeenBefore
  <2>6. order \in server'.orders /\ server.orders \subseteq server'.orders
    BY <2>1
  <2>7. CallsKeyed'
    BY <1>1, <1>4, <2>3, <2>6, ServedCalls
  <2>8. PageKnowsForm'
    BY <1>1, <2>6, PageKnowsMore
  <2> QED BY <2>2, <2>4, <2>5, <2>7, <2>8
<1> QED BY <1>3, <1>4 DEF CheckoutServed

LEMMA ReadStep ==
    ASSUME CheckoutInv, NEW i \in Slots, CheckoutRead(i) PROVE CheckoutInv'
<1>1. NoNewCheckout
  BY RepliesOther, RefusesOne DEF CheckoutRead, Asked, CheckoutInv, CallsKeyed
<1>2. PageKnowsForm'
  BY PageUntouched DEF CheckoutRead
<1> QED BY <1>1, <1>2, InvKept DEF CheckoutRead

LEMMA ElsewhereStep ==
    ASSUME CheckoutInv, CartElsewhere \/ BlockElsewhere PROVE CheckoutInv'
<1> USE DEF CheckoutInv
<1>1. server.orders = server'.orders /\ ServerTyped'
  BY DEF CartElsewhere, BlockElsewhere, ServerTyped
<1>2. PageKnowsForm'
  BY <1>1, PageKnowsMore DEF CartElsewhere, BlockElsewhere
<1>3. OrdersKeyed' /\ KeysUnique'
  BY <1>1 DEF OrdersKeyed, KeysUnique
<1>4. CallsKeyed'
  BY <1>1 DEF CartElsewhere, BlockElsewhere, CallsKeyed, CallKeyed, OrdersOf
<1> QED BY <1>1, <1>2, <1>3, <1>4

LEMMA LostStep ==
    ASSUME CheckoutInv, RequestLost \/ OrphanLost PROVE CheckoutInv'
<1>1. NoNewCheckout
  BY FinishesOne, RefusesOne DEF RequestLost, OrphanLost, CheckoutInv, CallsKeyed
<1>2. PageKnowsForm'
  BY PageUntouched DEF RequestLost, OrphanLost
<1> QED BY <1>1, <1>2, InvKept DEF RequestLost, OrphanLost

-----------------------------------------------------------------------------
(* The theorems.                                                           *)

LEMMA CheckoutStarts ==
    ASSUME CheckoutInit PROVE CheckoutInv
<1>1. CallsKeyed
  BY DEF CheckoutInit, NoCalls, NoCall, CallsKeyed, CallKeyed
<1>2. ServerTyped /\ OrdersKeyed /\ KeysUnique
  BY FormsCounted DEF CheckoutInit, ServerTyped, OrdersKeyed, KeysUnique
<1>3. PageKnowsForm
  BY DEF CheckoutInit, PageKnowsForm
<1> QED BY <1>1, <1>2, <1>3 DEF CheckoutInv

LEMMA CheckoutSteps ==
    ASSUME CheckoutInv, CheckoutNext \/ RequestLost \/ OrphanLost \/ Resting
    PROVE  CheckoutInv'
<1>1. CASE CheckoutNext
  BY <1>1, OpenStep, FieldsStep, ChoiceStep, SubmitStep, PlacedStep,
     ResultStep, LeaveStep, ServedStep, ReadStep, ElsewhereStep DEF CheckoutNext
<1>2. CASE RequestLost \/ OrphanLost
  BY <1>2, LostStep
<1>3. CASE Resting
  <2>1. view' = view /\ server' = server /\ calls' = calls
    BY <1>3 DEF Resting, tab
  <2>2. NoNewCheckout
    BY <2>1 DEF NoNewCheckout, CheckoutInv, CallsKeyed
  <2> QED BY <2>1, <2>2, PageUntouched, InvKept
<1> QED BY <1>1, <1>2, <1>3

\* The checkout page and the API keep to the key, in every area.
THEOREM CheckoutKeyed == Spec => []IInv
<1>1. Init => IInv
  BY CheckoutStarts DEF Init, IInv
<1>2. IInv /\ [Next]_tab => IInv'
  <2> SUFFICES ASSUME IInv, [Next]_tab, area' = "checkout"
               PROVE  CheckoutInv'
    BY DEF IInv
  <2>1. CASE Next
    <3>1. area = "checkout"
      BY <2>1 DEF Next, In, RequestLost, OrphanLost, Resting, tab
    <3>2. CheckoutNext \/ RequestLost \/ OrphanLost \/ Resting
      BY <2>1, <3>1 DEF Next, In
    <3> QED BY <3>1, <3>2, CheckoutSteps DEF IInv
  <2>2. CASE UNCHANGED tab
    <3>1. area = "checkout" /\ view' = view /\ server' = server /\ calls' = calls
      BY <2>2 DEF tab
    <3>2. NoNewCheckout
      BY <3>1 DEF NoNewCheckout, IInv, CheckoutInv, CallsKeyed
    <3> QED BY <3>1, <3>2, PageUntouched, InvKept DEF IInv
  <2> QED BY <2>1, <2>2
<1> QED BY <1>1, <1>2, PTL DEF Spec

\* The orders of a form are one at most.
LEMMA OrderOfForm ==
    ASSUME CheckoutInv, NEW f
    PROVE  /\ OrdersOf(f) = {} => Cardinality(OrdersOf(f)) = 0
           /\ OrdersOf(f) # {} => Cardinality(OrdersOf(f)) = 1
<1>1. CASE OrdersOf(f) = {}
  BY <1>1, FS_EmptySet
<1>2. CASE OrdersOf(f) # {}
  <2>1. PICK o : o \in OrdersOf(f)
    BY <1>2
  <2>2. OrdersOf(f) = {o}
    BY <2>1 DEF OrdersOf, CheckoutInv, OrdersKeyed, KeysUnique
  <2>3. Cardinality({o}) = 1
    BY FS_Singleton
  <2> QED BY <1>2, <2>2, <2>3
<1> QED BY <1>1, <1>2

\* A form makes at most one order, however often it is submitted.
THEOREM OneOrder == Spec => []OneOrderPerForm
<1>1. IInv => OneOrderPerForm
  <2> SUFFICES ASSUME IInv, area = "checkout", NEW f \in Forms
               PROVE  Cardinality(OrdersOf(f)) <= 1
    BY DEF OneOrderPerForm
  <2>1. Cardinality(OrdersOf(f)) \in {0, 1}
    BY OrderOfForm DEF IInv
  <2> QED BY <2>1
<1> QED BY <1>1, CheckoutKeyed, PTL

-----------------------------------------------------------------------------
(* The refinement of AtMostOnce.                                           *)

Made == [f \in Forms |-> IF area = "checkout" THEN Cardinality(OrdersOf(f)) ELSE 0]

Reported ==
    IF area = "checkout" /\ view.page = "result" THEN view.order.form ELSE 0

LEMMA PromiseStarts == Init => Promise!Init
<1> SUFFICES ASSUME Init PROVE Promise!Init
  OBVIOUS
<1>1. CASE area = "checkout"
  <2>1. CheckoutInit /\ CheckoutInv
    BY <1>1, CheckoutStarts DEF Init
  <2>2. view.page # "result" /\ \A f \in Forms : OrdersOf(f) = {}
    BY <2>1 DEF CheckoutInit, OrdersOf
  <2>3. \A f \in Forms : Cardinality(OrdersOf(f)) = 0
    BY <2>1, <2>2, OrderOfForm
  <2> QED BY <1>1, <2>2, <2>3 DEF Promise!Init
<1>2. CASE area # "checkout"
  BY <1>2 DEF Promise!Init
<1> QED BY <1>1, <1>2

\* While the orders are the same, so is what was made.
LEMMA SameOrders ==
    ASSUME area = "checkout", area' = "checkout", server'.orders = server.orders
    PROVE  Made' = Made
BY DEF Made, OrdersOf

\* Steps of the page after which the page of the result is as it was, or gone.
LEMMA QuietSteps ==
    ASSUME CheckoutInv, area = "checkout", area' = "checkout",
           server'.orders = server.orders,
           \/ view'.page # "result"
           \/ view.page = "result" /\ view'.page = "result" /\ view'.order = view.order
    PROVE  Promise!Next \/ UNCHANGED <<Made, Reported>>
<1>1. Made' = Made
  BY SameOrders
<1>2. Reported' = Reported \/ Reported' = 0
  BY DEF Reported
<1> QED BY <1>1, <1>2 DEF Promise!Next, Promise!Dismiss, Made, Reported

\* The result that is reported is one that was made.
LEMMA PlacedReports ==
    ASSUME CheckoutInv, area = "checkout", area' = "checkout",
           NEW i \in Slots, OrderPlaced(i)
    PROVE  Promise!Next
<1> DEFINE f == calls[i].arg.form
           o == calls[i].ans
<1>1. f \in Forms /\ o \in OrdersOf(f)
  BY DEF OrderPlaced, Returns, CheckoutInv, CallsKeyed, CallKeyed
<1>2. Made[f] = 1
  BY <1>1, OrderOfForm DEF Made
<1>3. Reported' = f
  <2>1. view'.page = "result" /\ view'.order = o
    BY DEF OrderPlaced
  <2> QED BY <1>1, <2>1 DEF Reported, OrdersOf
<1>4. Made' = Made
  BY SameOrders DEF OrderPlaced
<1>5. Promise!Report(f)
  BY <1>2, <1>3, <1>4 DEF Promise!Report, Made, Reported
<1> QED BY <1>1, <1>5 DEF Promise!Next

\* A new order is the first of its form.
LEMMA ServedMakes ==
    ASSUME CheckoutInv, area = "checkout", area' = "checkout",
           NEW i \in Slots, CheckoutServed(i), server'.orders # server.orders
    PROVE  Promise!Next
<1>1. PICK f \in Forms : f = calls[i].arg.form /\ f = calls[i].arg.key
  BY DEF CheckoutServed, CheckoutInv, CallsKeyed, CallKeyed
<1>2. PICK order :
         /\ order.form = f
         /\ SeenBefore(f) = {} /\ view' = view
         /\ server' = [server EXCEPT !.orders = @ \cup {order}, !.cart = "empty"]
  BY <1>1 DEF CheckoutServed
<1>3. server'.orders = server.orders \cup {order}
  <2>1. server' = [cart |-> "empty", orders |-> server.orders \cup {order},
                   forms |-> server.forms, blocked |-> server.blocked]
    BY <1>2 DEF CheckoutInv, ServerTyped
  <2> QED BY <2>1
<1>4. OrdersOf(f) = {} /\ OrdersOf(f)' = {order}
  <2>1. OrdersOf(f) = {}
    BY <1>2 DEF SeenBefore, OrdersOf, CheckoutInv, OrdersKeyed
  <2> QED BY <1>2, <1>3, <2>1 DEF OrdersOf
<1>5. \A g \in Forms \ {f} : OrdersOf(g)' = OrdersOf(g)
  BY <1>2, <1>3 DEF OrdersOf
<1>6. Cardinality(OrdersOf(f)) = 0 /\ Cardinality(OrdersOf(f))' = 1
  <2>1. Cardinality({order}) = 1
    BY FS_Singleton
  <2> QED BY <1>4, <2>1, OrderOfForm
<1>7. Made[f] = 0 /\ Made' = [Made EXCEPT ![f] = 1] /\ Reported' = Reported
  BY <1>2, <1>5, <1>6 DEF Made, Reported
<1>8. Promise!Make(f)
  BY <1>7 DEF Promise!Make, Made, Reported
<1> QED BY <1>8 DEF Promise!Next

\* Every step of the checkout keeps the promise.
LEMMA CheckoutStepPromised ==
    ASSUME CheckoutInv, area = "checkout", area' = "checkout",
           CheckoutNext \/ RequestLost \/ OrphanLost \/ Resting
    PROVE  Promise!Next \/ UNCHANGED <<Made, Reported>>
<1> USE DEF CheckoutInv, PageKnowsForm
<1>1. CASE OpenCheckout
  <2>1. view'.page # "result" /\ server'.orders = server.orders
    BY <1>1 DEF OpenCheckout, ServerTyped
  <2> QED BY <2>1, QuietSteps
<1>2. CASE \E i \in Slots : \/ CheckoutCartLoads(i) \/ LoadQuoteSettles(i)
                            \/ CodeAtCheckoutSettles(i) \/ OrderFails(i)
  <2>1. view'.page # "result" /\ server' = server
    BY <1>2 DEF CheckoutCartLoads, LoadQuoteSettles, CodeAtCheckoutSettles, OrderFails
  <2> QED BY <2>1, QuietSteps
<1>3. CASE ApplyCodeAtCheckout \/ ChooseMethod \/ SubmitOrder \/ LeaveCheckout
  <2>1. view'.page # "result" /\ server' = server
    <3>1. CASE ApplyCodeAtCheckout
      BY <3>1 DEF ApplyCodeAtCheckout, FormShown
    <3>2. CASE ChooseMethod
      BY <3>2 DEF ChooseMethod, FormShown
    <3>3. CASE SubmitOrder
      BY <3>3 DEF SubmitOrder, FormShown
    <3>4. CASE LeaveCheckout
      BY <3>4 DEF LeaveCheckout
    <3> QED BY <1>3, <3>1, <3>2, <3>3, <3>4
  <2> QED BY <2>1, QuietSteps
<1>4. CASE \E i \in Slots : OrderPlaced(i)
  BY <1>4, PlacedReports
<1>5. CASE \E i \in Slots : ResultSettles(i)
  <2>1. /\ view.page = "result" /\ view'.page = "result" /\ view'.order = view.order
        /\ server' = server
    BY <1>5 DEF ResultSettles
  <2> QED BY <2>1, QuietSteps
<1>6. CASE \E i \in Slots : CheckoutServed(i)
  <2>1. PICK i \in Slots : CheckoutServed(i)
    BY <1>6
  <2>2. CASE server'.orders = server.orders
    <3>1. view' = view
      BY <2>1 DEF CheckoutServed
    <3> QED BY <2>2, <3>1, QuietSteps
  <2> QED BY <2>1, <2>2, ServedMakes
<1>7. CASE \/ \E i \in Slots : CheckoutRead(i)
           \/ CartElsewhere \/ BlockElsewhere \/ RequestLost \/ OrphanLost \/ Resting
  <2>1. view' = view /\ server'.orders = server.orders
    BY <1>7 DEF CheckoutRead, CartElsewhere, BlockElsewhere, RequestLost, OrphanLost,
       Resting, tab, ServerTyped
  <2> QED BY <2>1, QuietSteps
<1> QED BY <1>1, <1>2, <1>3, <1>4, <1>5, <1>6, <1>7 DEF CheckoutNext

\* The checkout page, the API behind it and everything that may happen around
\* them implement AtMostOnce: one order per form, reported when it exists.
THEOREM PromiseKept == Spec => KeepsPromise
<1>1. Init => Promise!Init
  BY PromiseStarts
<1>2. IInv /\ [Next]_tab => [Promise!Next]_<<Made, Reported>>
  <2> SUFFICES ASSUME IInv, [Next]_tab
               PROVE  Promise!Next \/ UNCHANGED <<Made, Reported>>
    OBVIOUS
  <2>1. area' = area
    BY DEF Next, In, RequestLost, OrphanLost, Resting, tab
  <2>2. CASE area # "checkout"
    BY <2>1, <2>2 DEF Made, Reported
  <2>3. CASE area = "checkout" /\ Next
    <3>1. CheckoutNext \/ RequestLost \/ OrphanLost \/ Resting
      BY <2>3 DEF Next, In
    <3> QED BY <2>1, <2>3, <3>1, CheckoutStepPromised DEF IInv
  <2>4. CASE UNCHANGED tab
    BY <2>4 DEF tab, Made, Reported, OrdersOf
  <2> QED BY <2>2, <2>3, <2>4
<1>3. Init /\ [][Next]_tab => KeepsPromise
  BY <1>1, <1>2, CheckoutKeyed, PTL DEF Spec, KeepsPromise, Promise!Spec, Made, Reported
<1> QED BY <1>3 DEF Spec

-----------------------------------------------------------------------------
(* Who may go where.                                                       *)

\* What is open to a role is shown to it: canRoleAccessRoute and the layouts.
LEMMA AccessAdmits ==
    ASSUME NEW role, NEW path, CanAccess(role, path)
    PROVE  AdmittedByLayout(role, path)
<1>1. CASE path \in AdminPaths
  <2>1. path \notin PublicPaths /\ path \notin StorePaths
    BY <1>1 DEF AdminPaths, PublicPaths, StorePaths
  <2>2. IsStaff(role)
    BY <2>1 DEF CanAccess, IsStaff, StaffRoles
  <2> QED BY <1>1, <2>1, <2>2 DEF AdmittedByLayout
<1>2. CASE path \in StorePaths
  <2>1. path \notin PublicPaths /\ path \notin AdminPaths
    BY <1>2 DEF AdminPaths, PublicPaths, StorePaths
  <2>2. role \in {"store_manager", "admin"}
    BY <1>2, <2>1 DEF CanAccess, StorePaths
  <2> QED BY <1>2, <2>1, <2>2 DEF AdmittedByLayout
<1>3. CASE path \notin AdminPaths \cup StorePaths
  BY <1>3 DEF AdmittedByLayout
<1> QED BY <1>1, <1>2, <1>3

LEMMA HomeAccess ==
    ASSUME NEW role PROVE CanAccess(role, RoleHome(role).path)
<1>1. CASE IsStaff(role)
  BY <1>1 DEF IsStaff, StaffRoles, RoleHome, Link, Report, CanAccess, StorePaths
<1>2. CASE ~IsStaff(role)
  BY <1>2 DEF IsStaff, StaffRoles, RoleHome, Link, CanAccess, PublicPaths
<1> QED BY <1>1, <1>2

LEMMA LinkAdmits ==
    ASSUME NEW role, NEW path, CanAccess(role, path)
    PROVE  Admitted(role, Link(path))
BY AccessAdmits DEF Admitted, Link

\* A report is linked for those whose report it is.
LEMMA ReportAdmits ==
    ASSUME NEW role, IsStaff(role), NEW name,
           role = "admin" \/ CanonicalView(role) = name
    PROVE  Admitted(role, Report(name))
<1>1. CanAccess(role, "/admin/analytics")
  BY DEF CanAccess
<1> QED BY <1>1, AccessAdmits DEF Admitted, Report

LEMMA HomeAdmits ==
    ASSUME NEW role PROVE Admitted(role, RoleHome(role))
<1>1. AdmittedByLayout(role, RoleHome(role).path)
  BY HomeAccess, AccessAdmits
<1>2. CASE IsStaff(role)
  BY <1>1, <1>2 DEF IsStaff, StaffRoles, RoleHome, Link, Report, Admitted, CanonicalView
<1>3. CASE ~IsStaff(role)
  BY <1>1, <1>3 DEF IsStaff, StaffRoles, RoleHome, Link, Admitted
<1> QED BY <1>2, <1>3

LEMMA HeaderAdmits ==
    ASSUME NEW role, NEW link \in ShopHeader(role) \cup StaffHeader(role)
    PROVE  Admitted(role, link)
<1>1. \A path \in {"/", "/products", "/wishlist", "/cart", "/orders", "/login"} :
         CanAccess(role, path)
  BY DEF CanAccess, PublicPaths
<1>2. \/ link = RoleHome(role)
      \/ \E path \in {"/", "/products", "/wishlist", "/cart", "/orders", "/login"} :
            link = Link(path)
  BY DEF ShopHeader, StaffHeader
<1> QED BY <1>1, <1>2, HomeAdmits, LinkAdmits

LEMMA SidebarAdmits ==
    ASSUME NEW role, NEW link \in AdminSidebar(role)
    PROVE  Admitted(role, link)
<1>1. CASE role = "admin"
  <2>1. PICK path : link = Link(path)
    BY <1>1 DEF AdminSidebar, AllAdminLinks
  <2> QED BY <1>1, <2>1, LinkAdmits DEF CanAccess
<1>2. CASE role # "admin"
  <2>1. \/ IsStaff(role) /\ link = Report(CanonicalView(role))
        \/ \E path : link = Link(path) /\ CanAccess(role, path)
    <3>1. CASE role \in {"store_manager", "sales_manager", "system_admin"}
      BY <3>1 DEF AdminSidebar, CanonicalView, CanAccess, StorePaths,
         IsStaff, StaffRoles
    <3>2. CASE role = "marketing_manager"
      BY <3>2 DEF AdminSidebar, CanonicalView, CanAccess, IsStaff, StaffRoles
    <3>3. CASE role = "inventory_manager"
      BY <3>3 DEF AdminSidebar, CanonicalView, CanAccess, IsStaff, StaffRoles
    <3>4. CASE role = "operations_manager"
      BY <3>4 DEF AdminSidebar, CanonicalView, CanAccess, IsStaff, StaffRoles
    <3>5. CASE ~IsStaff(role)
      BY <3>5 DEF AdminSidebar, AllAdminLinks, IsStaff, StaffRoles, Link
    <3> QED BY <1>2, <3>1, <3>2, <3>3, <3>4, <3>5 DEF IsStaff, StaffRoles
  <2> QED BY <2>1, LinkAdmits, ReportAdmits
<1> QED BY <1>1, <1>2

LEMMA StoreAdmits ==
    ASSUME NEW role \in {"store_manager", "admin"},
           NEW link \in StoreSidebar \cup StoreHomeLinks
    PROVE  Admitted(role, link)
<1>1. \/ link = Report("store")
      \/ \E path \in StorePaths : link = Link(path)
  BY DEF StoreSidebar, StoreHomeLinks, StorePaths
<1>2. \A path \in StorePaths : CanAccess(role, path)
  BY DEF CanAccess
<1>3. Admitted(role, Report("store"))
  BY ReportAdmits DEF IsStaff, StaffRoles, CanonicalView
<1> QED BY <1>1, <1>2, <1>3, LinkAdmits

LEMMA AnalyticsAdmits ==
    ASSUME NEW role, IsStaff(role), NEW link \in AnalyticsLinks(role)
    PROVE  Admitted(role, link)
<1>1. \/ \E name : link = Report(name) /\ (role = "admin" \/ CanonicalView(role) = name)
      \/ \E path : link = Link(path) /\ CanAccess(role, path)
  BY DEF AnalyticsLinks
<1> QED BY <1>1, LinkAdmits, ReportAdmits

\* The overview is for the administrator alone.
LEMMA OverviewAdmits ==
    ASSUME NEW role, AdmittedByLayout(role, "/admin"), NEW link \in OverviewLinks
    PROVE  Admitted(role, link)
<1>1. role = "admin"
  BY DEF AdmittedByLayout, AdminPaths, CanAccess, PublicPaths, StorePaths
<1>2. PICK path : link = Link(path)
  BY DEF OverviewLinks
<1> QED BY <1>1, <1>2, LinkAdmits DEF CanAccess

\* Every link of a page that a person sees.
LEMMA LinksAdmit ==
    ASSUME NEW path, NEW role, NEW link \in LinksOn(path, role)
    PROVE  Admitted(role, link)
<1>1. CASE path \in PublicPaths
  <2>1. link \in ShopHeader(role) \/ link = Link("/register")
    BY <1>1 DEF LinksOn
  <2>2. CanAccess(role, "/register")
    BY DEF CanAccess, PublicPaths
  <2> QED BY <2>1, <2>2, HeaderAdmits, LinkAdmits
<1>2. CASE path \notin PublicPaths /\ ~AdmittedByLayout(role, path)
  <2>1. link \in StaffHeader(role) \/ link = RoleHome(role)
    BY <1>2 DEF LinksOn
  <2> QED BY <2>1, HeaderAdmits, HomeAdmits
<1>3. CASE path \notin PublicPaths /\ AdmittedByLayout(role, path) /\ path \in StorePaths
  <2>1. path \notin AdminPaths
    BY <1>3 DEF AdminPaths, StorePaths
  <2>2. role \in {"store_manager", "admin"}
    BY <1>3, <2>1 DEF AdmittedByLayout
  <2>3. link \in StaffHeader(role) \/ link \in StoreSidebar \cup StoreHomeLinks
    BY <1>3 DEF LinksOn
  <2> QED BY <2>2, <2>3, HeaderAdmits, StoreAdmits
<1>4. CASE path \notin PublicPaths /\ AdmittedByLayout(role, path) /\ path \notin StorePaths
  <2>1. path = "/admin/analytics" => IsStaff(role)
    BY <1>4 DEF AdmittedByLayout, AdminPaths
  <2>2. \/ link \in StaffHeader(role) \/ link \in AdminSidebar(role)
        \/ (path = "/admin" /\ link \in OverviewLinks)
        \/ (path = "/admin/analytics" /\ link \in AnalyticsLinks(role))
    BY <1>4 DEF LinksOn
  <2> QED BY <1>4, <2>1, <2>2, HeaderAdmits, SidebarAdmits, OverviewAdmits,
             AnalyticsAdmits
<1> QED BY <1>1, <1>2, <1>3, <1>4

LEMMA LoginAdmits ==
    ASSUME NEW role, NEW returnTo
    PROVE  AdmittedByLayout(role, AfterLogin(role, returnTo))
<1>1. CanAccess(role, AfterLogin(role, returnTo))
  BY HomeAccess DEF AfterLogin
<1> QED BY <1>1, AccessAdmits

\* Whoever is signed in, no link on the page leads to a refusal: this is a fact
\* about the tables alone, wherever logins, redirects and links have led.
THEOREM EveryLinkAlwaysAdmits == Spec => []EveryLinkAdmits
<1>1. EveryLinkAdmits
  BY LinksAdmit DEF EveryLinkAdmits
<1> QED BY <1>1, PTL

-----------------------------------------------------------------------------
(* The login.                                                              *)

NavigationFields ==
    {"page", "me", "authLoading", "returnTo", "submitting", "loggingOut"}

LEMMA StepInNavigation ==
    ASSUME [Next]_tab
    PROVE  /\ area' = area
           /\ area = "navigation" => \/ NavigationNext \/ RequestLost \/ OrphanLost
                                      \/ UNCHANGED tab
BY DEF Next, In, RequestLost, OrphanLost, Resting, tab

\* The only step that takes a login off its slot and leaves the page of the
\* login is the one that goes where AfterLogin says.
LEMMA LoginStep ==
    ASSUME DOMAIN calls = Slots, view.page = "/login",
           NavigationFields \subseteq DOMAIN view,
           NavigationNext \/ RequestLost \/ OrphanLost \/ UNCHANGED tab,
           NEW i \in Slots, calls[i].op = "login", calls'[i].op = "none",
           view'.page # "/login"
    PROVE  AdmittedByLayout(view'.me, view'.page)
<1>1. PICK j \in Slots : Finish(j) /\ view' # view /\ (\/ MeSettles(j) \/ LoggedIn(j)
                \/ Registered(j) \/ SubmitFails(j) \/ LogoutSettles(j))
  <2>1. view' # view /\ calls' # calls
    OBVIOUS
  <2>2. ~(SubmitLogin \/ SubmitRegistration \/ Logout)
    BY DEF SubmitLogin, SubmitRegistration, Submit, Logout, NavigationFields
  <2> QED BY <2>1, <2>2 DEF NavigationNext, RequestLost, OrphanLost, tab,
             RedirectToLogin, RedirectOn401, RedirectToPos, FollowLink, SessionServed,
             SessionEnds, MeSettles, LoggedIn, Registered, SubmitFails, LogoutSettles
<1>2. j = i
  BY <1>1 DEF Finish
<1>3. LoggedIn(i)
  BY <1>1, <1>2 DEF MeSettles, Registered, SubmitFails, LogoutSettles, Returns, Throws,
     NavigationFields
<1> DEFINE role == calls[i].ans
<1>4. view' = Visit([view EXCEPT !.me = role], AfterLogin(role, view.returnTo), None)
  BY <1>3 DEF LoggedIn
<1>5. view'.me = role /\ view'.page = AfterLogin(role, view.returnTo)
  BY <1>4 DEF Visit, NavigationFields
<1> QED BY <1>5, LoginAdmits

NavigationInv == DOMAIN calls = Slots /\ NavigationFields \subseteq DOMAIN view

LEMMA NavigationStarts == ASSUME NavigationInit PROVE NavigationInv
BY DEF NavigationInit, NavigationInv, NavigationFields, Sent, NoCalls

LEMMA NavigationKept ==
    ASSUME NavigationInv, NavigationNext \/ RequestLost \/ OrphanLost \/ UNCHANGED tab
    PROVE  NavigationInv'
<1>1. DOMAIN calls' = DOMAIN calls
  BY DEF NavigationNext, RequestLost, OrphanLost, tab, RedirectToLogin, RedirectOn401,
     RedirectToPos, FollowLink, SubmitLogin, SubmitRegistration, Submit, Logout, Send, Sent,
     MeSettles, LoggedIn, Registered, SubmitFails, LogoutSettles, SessionServed,
     SessionEnds, Acted, Reply, Refuse, Finish
<1>2. DOMAIN view' = DOMAIN view
  BY DEF NavigationNext, RequestLost, OrphanLost, tab, RedirectToLogin, RedirectOn401,
     RedirectToPos, FollowLink, SubmitLogin, SubmitRegistration, Submit, Logout, Visit,
     MeSettles, LoggedIn, Registered, SubmitFails, LogoutSettles, SessionServed, SessionEnds
<1> QED BY <1>1, <1>2 DEF NavigationInv

\* A login ends on a page that admits the person who logged in.
THEOREM LoginAlwaysLeadsToWork == Spec => LoginLeadsToWork
<1> DEFINE Inv == area = "navigation" => NavigationInv
           Leads == \A i \in Slots :
              (/\ area = "navigation" /\ calls[i].op = "login"
               /\ view.page = "/login" /\ calls'[i].op = "none" /\ ~view'.submitting
               /\ view'.page # "/login")
              => AdmittedByLayout(view'.me, view'.page)
<1>1. Init => Inv
  BY NavigationStarts DEF Init
<1>2. Inv /\ [Next]_tab => Inv'
  BY StepInNavigation, NavigationKept
<1>3. Inv /\ [Next]_tab => Leads
  BY StepInNavigation, LoginStep DEF NavigationInv, NavigationFields
<1>4. Inv /\ [Next]_tab => [Leads]_tab
  BY <1>3
<1> QED BY <1>1, <1>2, <1>4, PTL DEF Spec, LoginLeadsToWork

-----------------------------------------------------------------------------
(* The cart: what may be on its way to it.                                 *)

SetsOnly(steps) ==
    \/ \E x, n : steps = <<SetItem(x, n)>>
    \/ \E x, y, n : steps = SwitchSteps(x, y, n)

\* A line that is moved is on the wishlist before it is removed.
ChangeRight(c) ==
    c.op = "change" =>
        /\ {"by", "steps", "coupon"} \subseteq DOMAIN c.arg
        /\ \/ SetsOnly(c.arg.steps)
           \/ c.arg.by = "remove" /\ \E x : c.arg.steps = <<RemoveItem(x)>>
           \/ \E x : /\ c.arg.steps = <<Wish(x), RemoveItem(x)>>
                     /\ c.phase = "answered" => ProductOf[x] \in server.wishlist
           \/ \E x : /\ c.arg.steps = <<RemoveItem(x)>>
                     /\ ProductOf[x] \in server.wishlist

CartRight ==
    /\ {"cart", "wishlist"} \subseteq DOMAIN server
    /\ DOMAIN server.cart = Items
    /\ DOMAIN calls = Slots
    /\ \A i \in Slots : ChangeRight(calls[i])

LEMMA CartStarts == ASSUME CartInit PROVE CartRight
<1> DEFINE c == [op |-> "getCart", arg |-> [coupon |-> None], phase |-> "sent"]
<1>1. calls = [NoCalls EXCEPT ![NextSlot(NoCalls)] = c] /\ DOMAIN NoCalls = Slots
  BY DEF CartInit, Sent, NoCalls
<1>2. ChangeRight(c) /\ \A j \in Slots : ChangeRight(NoCalls[j])
  BY DEF ChangeRight, NoCalls, NoCall
<1> HIDE DEF c
<1>3. DOMAIN calls = Slots /\ \A j \in Slots : ChangeRight(calls[j])
  BY <1>1, <1>2
<1> QED BY <1>3 DEF CartInit, CartRight

\* A step of the page, which leaves the cart of the API alone.
LEMMA CartKept ==
    ASSUME CartRight, server' = server, DOMAIN calls' = Slots,
           \A j \in Slots : calls'[j] = calls[j] \/ ChangeRight(calls'[j])
    PROVE  CartRight'
<1>1. \A j \in Slots : ChangeRight(calls[j])'
  BY DEF CartRight, ChangeRight
<1> QED BY <1>1 DEF CartRight

\* A new request, in any slot.
LEMMA CartPuts ==
    ASSUME CartRight, server' = server, NEW n, NEW c, calls' = [calls EXCEPT ![n] = c],
           ChangeRight(c)
    PROVE  CartRight'
<1>1. \A j \in Slots : calls'[j] = calls[j] \/ ChangeRight(calls'[j])
  BY DEF CartRight
<1> QED BY <1>1, CartKept DEF CartRight

\* A request is sent from the page, or by a handler that goes on.
LEMMA CartAsks ==
    ASSUME CartRight, server' = server, NEW op, NEW arg,
           Send(op, arg) \/ \E i \in Slots : Continue(i, op, arg),
           op = "change" =>
              /\ {"by", "steps", "coupon"} \subseteq DOMAIN arg
              /\ \/ SetsOnly(arg.steps)
                 \/ arg.by = "remove" /\ \E x : arg.steps = <<RemoveItem(x)>>
                 \/ \E x : arg.steps = <<Wish(x), RemoveItem(x)>>
                 \/ \E x : /\ arg.steps = <<RemoveItem(x)>>
                           /\ ProductOf[x] \in server.wishlist
    PROVE  CartRight'
<1> DEFINE c == [op |-> op, arg |-> arg, phase |-> "sent"]
<1>1. PICK n : calls' = [calls EXCEPT ![n] = c]
  BY DEF Send, Sent, Continue
<1>2. c.op = op /\ c.arg = arg /\ c.phase = "sent"
  OBVIOUS
<1> HIDE DEF c
<1>3. ChangeRight(c)
  BY <1>2 DEF ChangeRight
<1> QED BY <1>1, <1>3, CartPuts

LEMMA CartTakes ==
    ASSUME CartRight, server' = server, NEW i, Finish(i) PROVE CartRight'
<1>1. ChangeRight(NoCall)
  BY DEF ChangeRight, NoCall
<1> QED BY <1>1, CartPuts DEF Finish

LEMMA CartHandlers ==
    ASSUME CartRight,
           \/ UpdateQuantity \/ RemoveLine \/ MoveToWishlist \/ ConfirmSwitch
           \/ SelectVariant
    PROVE  CartRight'
<1>1. server' = server
  BY DEF UpdateQuantity, RemoveLine, MoveToWishlist, ConfirmSwitch, SelectVariant, OnLine
<1>2. PICK by, steps :
         /\ Send("change", Handler(by, steps))
         /\ \/ SetsOnly(steps)
            \/ by = "remove" /\ \E x : steps = <<RemoveItem(x)>>
            \/ \E x : steps = <<Wish(x), RemoveItem(x)>>
  <2>1. CASE UpdateQuantity
    <3>1. PICK x, n : Send("change", Handler("update", <<SetItem(x, n)>>))
      BY <2>1 DEF UpdateQuantity, OnLine
    <3> QED BY <3>1 DEF SetsOnly
  <2>2. CASE RemoveLine
    <3>1. PICK x : Send("change", Handler("remove", <<RemoveItem(x)>>))
      BY <2>2 DEF RemoveLine, OnLine
    <3> QED BY <3>1
  <2>3. CASE MoveToWishlist
    <3>1. PICK x : Send("change", Handler("move", MoveSteps(x)))
      BY <2>3 DEF MoveToWishlist, OnLine
    <3> QED BY <3>1 DEF MoveSteps
  <2>4. CASE ConfirmSwitch
    <3>1. PICK x, y, n : Send("change", Handler("switch", SwitchSteps(x, y, n)))
      BY <2>4 DEF ConfirmSwitch
    <3> QED BY <3>1 DEF SetsOnly
  <2>5. CASE SelectVariant
    <3>1. PICK x, n : Send("change", Handler("add", <<SetItem(x, n)>>))
      BY <2>5 DEF SelectVariant, AddOne
    <3> QED BY <3>1 DEF SetsOnly
  <2> QED BY <2>1, <2>2, <2>3, <2>4, <2>5
<1>3. /\ {"by", "steps", "coupon"} \subseteq DOMAIN Handler(by, steps)
      /\ Handler(by, steps).by = by /\ Handler(by, steps).steps = steps
  BY DEF Handler
<1> QED BY <1>1, <1>2, <1>3, CartAsks

\* Steps of the page that ask for no change.
LEMMA CartLooks ==
    ASSUME CartRight,
           \/ ApplyCoupon \/ ClearCoupon \/ OpenSwitcher \/ CloseSwitcher \/ QuickAdd
           \/ \E i \in Slots : \/ CartLoads(i) \/ CartFails(i) \/ QuoteOfRefresh(i)
                               \/ CouponSettles(i) \/ SwitcherLoads(i)
                               \/ CartChangeFails(i) \/ QuoteOfChange(i)
    PROVE  CartRight'
<1>1. server' = server
  BY DEF ApplyCoupon, ClearCoupon, OpenSwitcher, CloseSwitcher, QuickAdd, CartLoads,
     CartFails, QuoteOfRefresh, CouponSettles, SwitcherLoads, CartChangeFails, QuoteOfChange
<1>2. \/ calls' = calls
      \/ \E i \in Slots : Finish(i)
      \/ \E op \in {"quote", "getCart", "product"} : \E arg :
            Send(op, arg) \/ \E i \in Slots : Continue(i, op, arg)
  <2>1. CASE ApplyCoupon \/ ClearCoupon \/ OpenSwitcher \/ CloseSwitcher \/ QuickAdd
    BY <2>1 DEF ApplyCoupon, ClearCoupon, OpenSwitcher, CloseSwitcher, QuickAdd
  <2>2. ASSUME NEW i \in Slots,
               \/ SwitcherLoads(i) \/ CartChangeFails(i) \/ QuoteOfChange(i)
               \/ CartLoads(i) \/ CartFails(i) \/ QuoteOfRefresh(i) \/ CouponSettles(i)
        PROVE  \/ Finish(i)
               \/ \E op \in {"quote", "getCart", "product"} : \E arg :
                     Continue(i, op, arg)
    <3>1. CASE SwitcherLoads(i) \/ CartChangeFails(i) \/ QuoteOfChange(i)
      BY <3>1 DEF SwitcherLoads, CartChangeFails, QuoteOfChange
    <3>2. CASE CartLoads(i) \/ CartFails(i)
      BY <3>2 DEF CartLoads, CartFails, Loaded
    <3>3. CASE QuoteOfRefresh(i) \/ CouponSettles(i)
      BY <3>3 DEF QuoteOfRefresh, CouponSettles, Rendered, Loaded
    <3> QED BY <2>2, <3>1, <3>2, <3>3
  <2> QED BY <2>1, <2>2
<1>3. CASE calls' = calls
  BY <1>1, <1>3, CartKept DEF CartRight
<1>4. CASE \E i \in Slots : Finish(i)
  BY <1>1, <1>4, CartTakes
<1>5. ASSUME NEW op \in {"quote", "getCart", "product"}, NEW arg,
             Send(op, arg) \/ \E i \in Slots : Continue(i, op, arg)
      PROVE  CartRight'
  <2>1. op # "change"
    OBVIOUS
  <2> QED BY <1>1, <1>5, <2>1, CartAsks
<1> QED BY <1>2, <1>3, <1>4, <1>5

LEMMA QuickAddStep ==
    ASSUME CartRight, NEW i \in Slots, QuickAddLoads(i) PROVE CartRight'
<1>1. server' = server
  BY DEF QuickAddLoads
<1>2. \/ Finish(i)
      \/ \E x, n : Continue(i, "change", Handler("add", <<SetItem(x, n)>>))
  BY DEF QuickAddLoads, AddOne
<1>3. ASSUME NEW x, NEW n, Continue(i, "change", Handler("add", <<SetItem(x, n)>>))
      PROVE  CartRight'
  <2>1. /\ {"by", "steps", "coupon"} \subseteq DOMAIN Handler("add", <<SetItem(x, n)>>)
        /\ Handler("add", <<SetItem(x, n)>>).steps = <<SetItem(x, n)>>
    BY DEF Handler
  <2>2. SetsOnly(<<SetItem(x, n)>>)
    BY DEF SetsOnly
  <2> QED BY <1>1, <1>3, <2>1, <2>2, CartAsks
<1> QED BY <1>1, <1>2, <1>3, CartTakes

\* A handler goes on with its second request.
LEMMA CartChangesStep ==
    ASSUME CartRight, NEW i \in Slots, CartChanges(i) PROVE CartRight'
<1> DEFINE h == calls[i].arg
           g == [h EXCEPT !.steps = Tail(@)]
<1>1. server' = server /\ ChangeRight(calls[i])
  BY DEF CartChanges, CartRight
<1>2. /\ calls[i].op = "change" /\ calls[i].phase = "answered"
      /\ {"by", "steps", "coupon"} \subseteq DOMAIN h
  BY <1>1 DEF CartChanges, Returns, ChangeRight
<1>3. \/ (Len(h.steps) > 1 /\ Continue(i, "change", g))
      \/ Finish(i)
      \/ \E arg : Continue(i, "quote", arg)
  BY DEF CartChanges
<1>4. CASE Finish(i)
  BY <1>1, <1>4, CartTakes
<1>5. CASE \E arg : Continue(i, "quote", arg)
  BY <1>1, <1>5, CartAsks
<1>6. CASE Len(h.steps) > 1 /\ Continue(i, "change", g)
  <2>1. DOMAIN g = DOMAIN h /\ g.steps = Tail(h.steps) /\ g.by = h.by
    BY <1>2
  <2>2. \/ SetsOnly(g.steps)
        \/ \E x : g.steps = <<RemoveItem(x)>> /\ ProductOf[x] \in server.wishlist
    <3>1. CASE SetsOnly(h.steps)
      <4>1. \A x, n : Len(<<SetItem(x, n)>>) = 1
        OBVIOUS
      <4>5. ASSUME NEW x, NEW n, h.steps = <<SetItem(x, n)>> PROVE FALSE
        <5>1. Len(h.steps) = 1
          BY <4>1, <4>5
        <5> QED BY <1>6, <5>1
      <4>2. PICK x, y, n : h.steps = SwitchSteps(x, y, n)
        BY <3>1, <4>5 DEF SetsOnly
      <4>3. \A a, b : Tail(<<a, b>>) = <<b>>
        OBVIOUS
      <4>4. Tail(h.steps) = <<SetItem(y, n)>>
        BY <4>2, <4>3 DEF SwitchSteps
      <4> QED BY <2>1, <4>4 DEF SetsOnly
    <3>2. CASE \E x : h.steps = <<RemoveItem(x)>>
      <4>1. \A x : Len(<<RemoveItem(x)>>) = 1
        OBVIOUS
      <4> QED BY <1>6, <3>2, <4>1
    <3>3. ASSUME NEW x, h.steps = <<Wish(x), RemoveItem(x)>>,
                 ProductOf[x] \in server.wishlist
          PROVE  \E y : g.steps = <<RemoveItem(y)>> /\ ProductOf[y] \in server.wishlist
      BY <2>1, <3>3
    <3> QED BY <1>1, <1>2, <3>1, <3>2, <3>3 DEF ChangeRight
  <2> HIDE DEF g
  <2> QED BY <1>1, <1>2, <1>6, <2>1, <2>2, CartAsks
<1> QED BY <1>3, <1>4, <1>5, <1>6
\* What a step of a handler does to the cart of the API.
LEMMA CartAfterStep ==
    ASSUME CartRight, NEW steps, ValidQuantity(Head(steps)),
           \/ SetsOnly(steps)
           \/ \E x : steps \in {<<RemoveItem(x)>>, <<Wish(x), RemoveItem(x)>>},
           server' = CartAfter(Head(steps))
    PROVE  /\ {"cart", "wishlist"} \subseteq DOMAIN server'
           /\ DOMAIN server'.cart = Items
           /\ server.wishlist \subseteq server'.wishlist
           /\ \A x : steps = <<Wish(x), RemoveItem(x)>> =>
                    ProductOf[x] \in server'.wishlist
           /\ \A x \in Items :
                 (server.cart[x] > 0 /\ server'.cart[x] = 0) =>
                    steps = <<RemoveItem(x)>>
<1> DEFINE step == Head(steps)
<1>0. {"cart", "wishlist"} \subseteq DOMAIN server /\ DOMAIN server.cart = Items
  BY DEF CartRight
<1>1. CASE SetsOnly(steps)
  <2>1. PICK x, n : step = SetItem(x, n)
    BY <1>1 DEF SetsOnly, SwitchSteps
  <2>2. n >= 1 /\ step.do = "set" /\ step.item = x /\ step.quantity = n
    BY <2>1 DEF ValidQuantity, SetItem
  <2>3. Limited(n) # 0
    BY <2>2, SomeQuantity DEF Limited
  <2>4. server' = [server EXCEPT !.cart[x] = Limited(n)]
    BY <2>2 DEF CartAfter
  <2>5. /\ server'.cart = [server.cart EXCEPT ![x] = Limited(n)]
        /\ server'.wishlist = server.wishlist /\ DOMAIN server' = DOMAIN server
    BY <1>0, <2>4
  <2>6. \A y : steps # <<Wish(y), RemoveItem(y)>>
    BY <2>2 DEF Wish
  <2> QED BY <1>0, <2>3, <2>5, <2>6
<1>2. ASSUME NEW x, steps = <<RemoveItem(x)>> PROVE
           /\ {"cart", "wishlist"} \subseteq DOMAIN server'
           /\ DOMAIN server'.cart = Items
           /\ server.wishlist \subseteq server'.wishlist
           /\ \A y : steps # <<Wish(y), RemoveItem(y)>>
           /\ \A y \in Items :
                 (server.cart[y] > 0 /\ server'.cart[y] = 0) => y = x
  <2>1. step = RemoveItem(x)
    BY <1>2
  <2>2. server' = [server EXCEPT !.cart[x] = 0]
    BY <2>1 DEF CartAfter, RemoveItem
  <2>3. /\ server'.cart = [server.cart EXCEPT ![x] = 0]
        /\ server'.wishlist = server.wishlist /\ DOMAIN server' = DOMAIN server
    BY <1>0, <2>2
  <2>4. \A y : steps # <<Wish(y), RemoveItem(y)>>
    BY <2>1 DEF Wish, RemoveItem
  <2>5. ~(0 > 0)
    OBVIOUS
  <2> QED BY <1>0, <2>3, <2>4, <2>5
<1>3. ASSUME NEW x, steps = <<Wish(x), RemoveItem(x)>> PROVE
           /\ {"cart", "wishlist"} \subseteq DOMAIN server'
           /\ server'.cart = server.cart
           /\ server'.wishlist = server.wishlist \cup {ProductOf[x]}
  <2>1. step = Wish(x)
    BY <1>3
  <2>2. server' = [server EXCEPT !.wishlist = @ \cup {ProductOf[x]}]
    BY <2>1 DEF CartAfter, Wish
  <2> QED BY <1>0, <2>2
<1>4. CASE \E x : steps = <<RemoveItem(x)>>
  BY <1>2, <1>4
<1>5. CASE \E x : steps = <<Wish(x), RemoveItem(x)>>
  <2>1. \A x \in Items : ~(server.cart[x] > 0 /\ server.cart[x] = 0)
    OBVIOUS
  <2>2. PICK x : steps = <<Wish(x), RemoveItem(x)>>
    BY <1>5
  <2>3. \A y : steps = <<Wish(y), RemoveItem(y)>> => ProductOf[y] = ProductOf[x]
    BY <2>2 DEF Wish, RemoveItem
  <2> QED BY <1>0, <1>3, <2>1, <2>2, <2>3
<1> QED BY <1>1, <1>4, <1>5

LEMMA ServedCart ==
    ASSUME CartRight, NEW i \in Slots, ChangeServed(i)
    PROVE  /\ CartRight'
           /\ \A x \in Items :
                 (server.cart[x] > 0 /\ server'.cart[x] = 0) =>
                    \/ ProductOf[x] \in server'.wishlist
                    \/ calls[i].arg.by = "remove" /\ Head(calls[i].arg.steps).item = x
<1> DEFINE steps == calls[i].arg.steps
<1>0. /\ calls[i].op = "change" /\ ChangeRight(calls[i]) /\ DOMAIN calls = Slots
  BY DEF ChangeServed, CartRight
<1>1. \/ SetsOnly(steps)
      \/ \E x : steps \in {<<RemoveItem(x)>>, <<Wish(x), RemoveItem(x)>>}
  BY <1>0 DEF ChangeRight
<1>2. \/ ValidQuantity(Head(steps)) /\ server' = CartAfter(Head(steps))
      \/ server' = server /\ Rejected(i)
  BY DEF ChangeServed
<1>3. /\ \A j \in Slots \ {i} : calls'[j] = calls[j]
      /\ DOMAIN calls' = Slots
      /\ \/ calls'[i].op = "none"
         \/ /\ calls'[i].op = "change" /\ calls'[i].arg = calls[i].arg
            /\ calls'[i].phase = "answered" =>
                  ValidQuantity(Head(steps)) /\ server' = CartAfter(Head(steps))
  <2>1. CASE ValidQuantity(Head(steps))
    <3>1. server' = CartAfter(Head(steps)) /\ (Reply(i, server'.cart) \/ Refuse(i) \/ Finish(i))
      BY <2>1 DEF ChangeServed, Acted
    <3> QED BY <1>0, <2>1, <3>1 DEF Reply, Refuse, Finish, NoCall
  <2>2. CASE ~ValidQuantity(Head(steps))
    <3>1. Refuse(i) \/ Finish(i)
      BY <2>2 DEF ChangeServed, Rejected
    <3> QED BY <1>0, <3>1 DEF Refuse, Finish, NoCall
  <2> QED BY <2>1, <2>2
<1> HIDE DEF steps
<1>4. /\ {"cart", "wishlist"} \subseteq DOMAIN server'
      /\ DOMAIN server'.cart = Items
      /\ server.wishlist \subseteq server'.wishlist
      /\ calls'[i].op = "change" /\ calls'[i].phase = "answered" =>
            \A x : steps = <<Wish(x), RemoveItem(x)>> => ProductOf[x] \in server'.wishlist
      /\ \A x \in Items :
            (server.cart[x] > 0 /\ server'.cart[x] = 0) => steps = <<RemoveItem(x)>>
  <2>1. CASE server' = server /\ ~(ValidQuantity(Head(steps)) /\ server' = CartAfter(Head(steps)))
    BY <1>3, <2>1 DEF CartRight
  <2>2. CASE ValidQuantity(Head(steps)) /\ server' = CartAfter(Head(steps))
    BY <1>1, <2>2, CartAfterStep
  <2> QED BY <1>2, <2>1, <2>2
<1>5. ChangeRight(calls[i])'
  BY <1>0, <1>3, <1>4 DEF ChangeRight, steps
<1>6. \A j \in Slots \ {i} : ChangeRight(calls[j])'
  BY <1>3, <1>4 DEF CartRight, ChangeRight
<1>7. \A x \in Items :
         (server.cart[x] > 0 /\ server'.cart[x] = 0) =>
            \/ ProductOf[x] \in server'.wishlist
            \/ calls[i].arg.by = "remove" /\ Head(calls[i].arg.steps).item = x
  <2> SUFFICES ASSUME NEW x \in Items, steps = <<RemoveItem(x)>>
               PROVE  \/ ProductOf[x] \in server'.wishlist
                      \/ calls[i].arg.by = "remove" /\ Head(calls[i].arg.steps).item = x
    BY <1>4
  <2>1. Head(steps).item = x
    BY DEF RemoveItem
  <2>2. ~SetsOnly(steps) /\ \A y : steps # <<Wish(y), RemoveItem(y)>>
    <3>1. Head(steps).do = "remove"
      BY DEF RemoveItem
    <3>2. \A y, n : Head(<<SetItem(y, n)>>).do = "set"
      BY DEF SetItem
    <3>3. \A y, z, n : Head(SwitchSteps(y, z, n)).do = "set"
      BY DEF SetItem, SwitchSteps
    <3>4. \A y : Head(<<Wish(y), RemoveItem(y)>>).do = "wish"
      BY DEF Wish
    <3> QED BY <3>1, <3>2, <3>3, <3>4 DEF SetsOnly
  <2>3. \A y : steps = <<RemoveItem(y)>> => y = x
    BY DEF RemoveItem
  <2> QED BY <1>0, <1>4, <2>1, <2>2, <2>3 DEF ChangeRight, steps
<1> QED BY <1>3, <1>4, <1>5, <1>6, <1>7 DEF CartRight

LEMMA CartAround ==
    ASSUME CartRight, (\E i \in Slots : CartRead(i)) \/ RequestLost \/ OrphanLost
    PROVE  CartRight'
<1>1. server' = server
  BY DEF CartRead, RequestLost, OrphanLost
<1>2. PICK i \in Slots :
         \/ (calls[i].op # "change" /\ \E ans : Reply(i, ans))
         \/ Refuse(i) \/ Finish(i)
  BY DEF CartRead, RequestLost, OrphanLost, Asked
<1>3. /\ DOMAIN calls' = Slots /\ \A j \in Slots \ {i} : calls'[j] = calls[j]
      /\ \/ calls'[i].op # "change"
         \/ /\ calls'[i].op = calls[i].op /\ calls'[i].arg = calls[i].arg
            /\ calls'[i].phase = "failed"
  BY <1>2 DEF CartRight, Reply, Refuse, Finish, NoCall
<1>4. ChangeRight(calls'[i])
  BY <1>3 DEF CartRight, ChangeRight
<1> QED BY <1>1, <1>3, <1>4, CartKept

LEMMA StepInCart ==
    ASSUME [Next]_tab
    PROVE  /\ area' = area
           /\ area = "cart" => \/ CartNext \/ RequestLost \/ OrphanLost
                                \/ UNCHANGED tab
BY DEF Next, In, RequestLost, OrphanLost, Resting, tab

LEMMA CartSteps ==
    ASSUME CartRight, CartNext \/ RequestLost \/ OrphanLost \/ UNCHANGED tab
    PROVE  CartRight'
<1>1. CASE UNCHANGED tab
  BY <1>1 DEF tab, CartRight, ChangeRight
<1> QED BY <1>1, CartHandlers, CartLooks, QuickAddStep, CartChangesStep, ServedCart,
           CartAround DEF CartNext

\* Only the API changes the cart.
LEMMA CartOfApi ==
    ASSUME CartNext \/ RequestLost \/ OrphanLost \/ UNCHANGED tab
    PROVE  server' = server \/ \E i \in Slots : ChangeServed(i)
BY DEF CartNext, RequestLost, OrphanLost, tab, ApplyCoupon, ClearCoupon, UpdateQuantity,
   RemoveLine, MoveToWishlist, OnLine, OpenSwitcher, CloseSwitcher, ConfirmSwitch, QuickAdd,
   SelectVariant, CartLoads, CartFails, QuoteOfRefresh, CouponSettles, SwitcherLoads,
   QuickAddLoads, CartChanges, CartChangeFails, QuoteOfChange, CartRead

\* A line leaves the cart only because it was removed, or moved to the wishlist
\* where it has arrived.
THEOREM NothingEverVanishes == Spec => NothingVanishes
<1> DEFINE Inv == area = "cart" => CartRight
           Stays == area = "cart" =>
              \A x \in Items :
                 (server.cart[x] > 0 /\ server'.cart[x] = 0) =>
                     \/ ProductOf[x] \in server'.wishlist
                     \/ \E i \in InFlight("change") :
                           calls[i].arg.by = "remove"
                           /\ Head(calls[i].arg.steps).item = x
<1>1. Init => Inv
  BY CartStarts DEF Init
<1>2. Inv /\ [Next]_tab => Inv'
  BY StepInCart, CartSteps
<1>3. Inv /\ [Next]_tab => Stays
  <2> SUFFICES ASSUME Inv, [Next]_tab, area = "cart",
                      NEW x \in Items, server.cart[x] > 0, server'.cart[x] = 0
               PROVE  \/ ProductOf[x] \in server'.wishlist
                      \/ \E i \in InFlight("change") :
                            calls[i].arg.by = "remove"
                            /\ Head(calls[i].arg.steps).item = x
    OBVIOUS
  <2>1. server' # server
    OBVIOUS
  <2>2. PICK i \in Slots : ChangeServed(i)
    BY <2>1, StepInCart, CartOfApi
  <2>3. i \in InFlight("change")
    BY <2>2 DEF ChangeServed, InFlight
  <2> QED BY <2>2, <2>3, ServedCart
<1>4. Inv /\ [Next]_tab => [Stays]_tab
  BY <1>3
<1> QED BY <1>1, <1>2, <1>4, PTL DEF Spec, NothingVanishes

-----------------------------------------------------------------------------
(* Filters and the address.                                                *)

Filters(f) ==
    /\ f = [min |-> f.min, max |-> f.max, sizes |-> f.sizes, sort |-> f.sort]
    /\ f.min \in Prices \cup {None} /\ f.max \in Prices \cup {None}
    /\ f.sort \in Sorts

LEMMA ParsedOnly ==
    ASSUME NEW params, NEW name, NEW price \in Prices,
           \A q \in params : q[1] = name => q[2] = price,
           \E q \in params : q[1] = name
    PROVE  ParsedPrice(params, name) = price
<1> DEFINE given == {p[2] : p \in {q \in params : q[1] = name}}
<1>1. given = {price}
  OBVIOUS
<1>2. price # -1
  BY DEF Prices
<1> HIDE DEF given
<1>3. ~(given = {} \/ given \cap {-1} # {})
  BY <1>1, <1>2
<1>4. (CHOOSE x \in given : TRUE) = price
  BY <1>1
<1> QED BY <1>3, <1>4 DEF ParsedPrice, given

LEMMA ParsedNone ==
    ASSUME NEW params, NEW name, \A q \in params : q[1] # name
    PROVE  ParsedPrice(params, name) = None
<1>1. {p[2] : p \in {q \in params : q[1] = name}} = {}
  OBVIOUS
<1> QED BY <1>1 DEF ParsedPrice

\* What is written into the address is read from it again.
LEMMA AddressRead ==
    ASSUME NEW f, Filters(f) PROVE FromParams(ToParams(f)) = f
<1> DEFINE ps == ToParams(f)
<1>1. \A q \in ps : \/ f.min # None /\ q = <<"min_price", f.min>>
                    \/ f.max # None /\ q = <<"max_price", f.max>>
                    \/ \E s \in f.sizes : q = <<"size", s>>
                    \/ f.sort # "newest" /\ q = <<"sort", f.sort>>
  BY DEF ToParams, PriceParam
<1>2. /\ f.min # None => <<"min_price", f.min>> \in ps
      /\ f.max # None => <<"max_price", f.max>> \in ps
      /\ \A s \in f.sizes : <<"size", s>> \in ps
      /\ f.sort # "newest" => <<"sort", f.sort>> \in ps
  BY DEF ToParams, PriceParam
<1> HIDE DEF ps
<1>3. ParsedPrice(ps, "min_price") = f.min
  <2>1. CASE f.min = None
    <3>1. \A q \in ps : q[1] # "min_price"
      BY <1>1, <2>1
    <3> QED BY <2>1, <3>1, ParsedNone
  <2>2. CASE f.min # None
    <3>1. \A q \in ps : q[1] = "min_price" => q[2] = f.min
      BY <1>1
    <3>2. \E q \in ps : q[1] = "min_price"
      BY <1>2, <2>2
    <3> QED BY <2>2, <3>1, <3>2, ParsedOnly DEF Filters
  <2> QED BY <2>1, <2>2
<1>4. ParsedPrice(ps, "max_price") = f.max
  <2>1. CASE f.max = None
    <3>1. \A q \in ps : q[1] # "max_price"
      BY <1>1, <2>1
    <3> QED BY <2>1, <3>1, ParsedNone
  <2>2. CASE f.max # None
    <3>1. \A q \in ps : q[1] = "max_price" => q[2] = f.max
      BY <1>1
    <3>2. \E q \in ps : q[1] = "max_price"
      BY <1>2, <2>2
    <3> QED BY <2>2, <3>1, <3>2, ParsedOnly DEF Filters
  <2> QED BY <2>1, <2>2
<1>5. {p[2] : p \in {q \in ps : q[1] = "size"}} = f.sizes
  <2>1. \A q \in ps : q[1] = "size" => q[2] \in f.sizes
    BY <1>1
  <2>2. \A s \in f.sizes : \E q \in ps : q[1] = "size" /\ q[2] = s
    BY <1>2
  <2> QED BY <2>1, <2>2
<1>6. (IF <<"sort", "price_asc">> \in ps THEN "price_asc" ELSE "newest") = f.sort
  <2>1. CASE f.sort = "newest"
    BY <1>1, <2>1
  <2>2. CASE f.sort = "price_asc"
    BY <1>2, <2>2
  <2> QED BY <2>1, <2>2 DEF Filters, Sorts
<1> QED BY <1>3, <1>4, <1>5, <1>6 DEF FromParams, Filters, ps

LEMMA FirstAddress ==
    ASSUME NEW params \in {{}, {<<"max_price", -1>>, <<"size", Sizes[1]>>}}
    PROVE  Filters(FromParams(params))
<1>1. ParsedPrice(params, "min_price") = None
  <2>1. \A q \in params : q[1] # "min_price"
    OBVIOUS
  <2> QED BY <2>1, ParsedNone
<1>2. ParsedPrice(params, "max_price") = None
  <2>1. CASE params = {}
    BY <2>1, ParsedNone
  <2>2. CASE params = {<<"max_price", -1>>, <<"size", Sizes[1]>>}
    <3> DEFINE q0 == <<"max_price", -1>>
               given == {p[2] : p \in {q \in params : q[1] = "max_price"}}
    <3>1. q0 \in params /\ q0[1] = "max_price" /\ q0[2] = -1
      BY <2>2
    <3> HIDE DEF q0
    <3>2. -1 \in given
      BY <3>1
    <3> HIDE DEF given
    <3>3. given = {} \/ given \cap {-1} # {}
      BY <3>2
    <3> QED BY <3>3 DEF ParsedPrice, given
  <2> QED BY <2>1, <2>2
<1> QED BY <1>1, <1>2 DEF FromParams, Filters, Sorts

-----------------------------------------------------------------------------
(* The list: its draft and its address hold filters.                       *)

FiltersRight ==
    /\ "page" \in DOMAIN view
    /\ view.page = "products" =>
          /\ {"params", "draft"} \subseteq DOMAIN view
          /\ Filters(view.draft)
          /\ Filters(FromParams(view.params))

LEMMA FiltersKept ==
    ASSUME FiltersRight, DOMAIN view \subseteq DOMAIN view', view'.page = view.page,
           view.page = "products" =>
              view'.params = view.params /\ view'.draft = view.draft
    PROVE  FiltersRight'
BY DEF FiltersRight

LEMMA FiltersReplaced ==
    ASSUME FiltersRight, view.page = "products", NEW params, Replace(params),
           Filters(FromParams(params))
    PROVE  FiltersRight'
<1>1. /\ DOMAIN view' = DOMAIN view /\ view'.page = view.page
      /\ view'.params = params /\ view'.draft = FromParams(params)
  BY DEF Replace, Visited, FiltersRight
<1> QED BY <1>1 DEF FiltersRight

LEMMA FiltersStart == ASSUME CatalogueInit PROVE FiltersRight
<1>1. CASE \E params \in {{}, {<<"max_price", -1>>, <<"size", Sizes[1]>>}} :
              view = ListMounted(params)
  <2>1. PICK params \in {{}, {<<"max_price", -1>>, <<"size", Sizes[1]>>}} :
           view = ListMounted(params)
    BY <1>1
  <2>2. Filters(FromParams(params))
    BY <2>1, FirstAddress
  <2>3. /\ {"page", "params", "draft"} \subseteq DOMAIN view
        /\ view.params = params /\ view.draft = FromParams(params)
    BY <2>1 DEF ListMounted
  <2> QED BY <2>2, <2>3 DEF FiltersRight
<1>2. CASE view = ProductMounted
  BY <1>2 DEF ProductMounted, FiltersRight
<1>3. CASE view = WishlistMounted
  BY <1>3 DEF WishlistMounted, FiltersRight
<1> QED BY <1>1, <1>2, <1>3 DEF CatalogueInit

LEMMA EditStep == ASSUME FiltersRight, EditFilter PROVE FiltersRight'
<1> DEFINE d == view.draft
<1>1. /\ view.page = "products" /\ Filters(d)
      /\ {"page", "params", "draft"} \subseteq DOMAIN view
  BY DEF EditFilter, FiltersRight
<1>2. PICK e : Filters(e) /\ view' = [Visited EXCEPT !.draft = e]
  <2>0. DOMAIN d = {"min", "max", "sizes", "sort"}
    BY <1>1 DEF Filters
  <2>v. Visited.draft = d
    BY <1>1 DEF Visited
  <2>1. CASE \E price \in Prices \cup {None} : view' = [Visited EXCEPT !.draft.min = price]
    <3>1. PICK price \in Prices \cup {None} : view' = [Visited EXCEPT !.draft.min = price]
      BY <2>1
    <3>2. Filters([d EXCEPT !.min = price])
      BY <1>1, <3>1 DEF Filters
    <3> QED BY <2>v, <3>1, <3>2
  <2>2. CASE \E price \in Prices \cup {None} : view' = [Visited EXCEPT !.draft.max = price]
    <3>1. PICK price \in Prices \cup {None} : view' = [Visited EXCEPT !.draft.max = price]
      BY <2>2
    <3>2. Filters([d EXCEPT !.max = price])
      BY <1>1, <3>1 DEF Filters
    <3> QED BY <2>v, <3>1, <3>2
  <2>3. CASE \E z : view' = [Visited EXCEPT !.draft.sizes = z]
    <3>1. PICK z : view' = [Visited EXCEPT !.draft.sizes = z]
      BY <2>3
    <3>2. Filters([d EXCEPT !.sizes = z])
      BY <1>1, <3>1 DEF Filters
    <3> QED BY <2>v, <3>1, <3>2
  <2>4. CASE \E sort \in Sorts : view' = [Visited EXCEPT !.draft.sort = sort]
    <3>1. PICK sort \in Sorts : view' = [Visited EXCEPT !.draft.sort = sort]
      BY <2>4
    <3>2. Filters([d EXCEPT !.sort = sort])
      BY <1>1, <3>1 DEF Filters
    <3> QED BY <2>v, <3>1, <3>2
  <2>5. (\E s \in SizeSet : view' = [Visited EXCEPT !.draft.sizes =
                                      IF s \in @ THEN @ \ {s} ELSE @ \cup {s}])
        => \E z : view' = [Visited EXCEPT !.draft.sizes = z]
    OBVIOUS
  <2> QED BY <2>1, <2>2, <2>3, <2>4, <2>5 DEF EditFilter
<1>3. /\ DOMAIN view' = DOMAIN view /\ view'.page = view.page
      /\ view'.params = view.params /\ view'.draft = e
  BY <1>1, <1>2 DEF Visited
<1> QED BY <1>1, <1>2, <1>3 DEF FiltersRight

\* The filters that are written into the address are read from it again.
LEMMA ApplyStep == ASSUME FiltersRight, ApplyFilters PROVE FiltersRight'
<1>1. Filters(view.draft) /\ view.page = "products"
  BY DEF FiltersRight, ApplyFilters
<1>2. Filters(FromParams(ToParams(view.draft)))
  BY <1>1, AddressRead
<1> QED BY <1>1, <1>2, FiltersReplaced DEF ApplyFilters

LEMMA ResetStep == ASSUME FiltersRight, ResetFilters PROVE FiltersRight'
<1>1. view.page = "products" /\ {"page", "params", "draft"} \subseteq DOMAIN view
  BY DEF FiltersRight, ResetFilters
<1>2. CASE Replace({})
  <2>1. Filters(FromParams({}))
    BY FirstAddress
  <2> QED BY <1>1, <1>2, <2>1, FiltersReplaced
<1>3. CASE view' = [Visited EXCEPT !.draft = NoFilters]
  <2>1. Filters(NoFilters)
    BY DEF Filters, NoFilters, Sorts
  <2>2. /\ DOMAIN view' = DOMAIN view /\ view'.page = view.page
        /\ view'.params = view.params /\ view'.draft = NoFilters
    BY <1>1, <1>3 DEF Visited
  <2> QED BY <1>1, <2>1, <2>2 DEF FiltersRight
<1> QED BY <1>2, <1>3 DEF ResetFilters

LEMMA RemoveStep == ASSUME FiltersRight, RemoveFilter PROVE FiltersRight'
<1> DEFINE f == Applied(view)
<1>1. view.page = "products" /\ Filters(f)
  BY DEF FiltersRight, RemoveFilter, Applied
<1>2. PICK g : Filters(g) /\ Replace(ToParams(g))
  <2>1. /\ Filters([f EXCEPT !.min = None]) /\ Filters([f EXCEPT !.max = None])
        /\ \A z : Filters([f EXCEPT !.sizes = z])
    <3> HIDE DEF f
    <3> QED BY <1>1 DEF Filters
  <2> QED BY <2>1 DEF RemoveFilter
<1>3. Filters(FromParams(ToParams(g)))
  BY <1>2, AddressRead
<1> QED BY <1>1, <1>2, <1>3, FiltersReplaced

LEMMA FiltersUntouched ==
    ASSUME FiltersRight,
           \/ LoadMore \/ ToggleWish \/ OpenQuickView \/ CloseQuickView \/ QuickViewTimer
           \/ ChooseColour \/ ChooseSize \/ ChooseQuantity \/ AddToCart
           \/ \E i \in Slots :
                 \/ ListSettles(i) \/ WishlistLoads(i) \/ WishlistPageLoads(i)
                 \/ WishSettles(i) \/ QuickViewLoads(i) \/ ProductLoads(i)
                 \/ AddSettles(i) \/ CatalogueServed(i)
    PROVE  FiltersRight'
<1>1. /\ DOMAIN Visited = DOMAIN view
      /\ \A f \in {"page", "params", "draft"} \cap DOMAIN view : Visited[f] = view[f]
  BY DEF Visited
<1>2. /\ DOMAIN view' = DOMAIN view
      /\ \A f \in {"page", "params", "draft"} \cap DOMAIN view : view'[f] = view[f]
  <2>1. CASE LoadMore \/ ToggleWish \/ OpenQuickView \/ CloseQuickView \/ QuickViewTimer
    BY <1>1, <2>1 DEF LoadMore, ToggleWish, OpenQuickView, CloseQuickView, QuickViewTimer
  <2>2. CASE ChooseColour \/ ChooseSize \/ ChooseQuantity \/ AddToCart
    BY <1>1, <2>2 DEF ChooseColour, ChooseSize, ChooseQuantity, Choose, AddToCart
  <2>3. ASSUME NEW i \in Slots,
               ListSettles(i) \/ WishlistLoads(i) \/ WishlistPageLoads(i) \/ WishSettles(i)
        PROVE  /\ DOMAIN view' = DOMAIN view
               /\ \A f \in {"page", "params", "draft"} \cap DOMAIN view : view'[f] = view[f]
    BY <2>3 DEF ListSettles, WishlistLoads, WishlistPageLoads, WishSettles
  <2>4. ASSUME NEW i \in Slots,
               QuickViewLoads(i) \/ ProductLoads(i) \/ AddSettles(i) \/ CatalogueServed(i)
        PROVE  /\ DOMAIN view' = DOMAIN view
               /\ \A f \in {"page", "params", "draft"} \cap DOMAIN view : view'[f] = view[f]
    BY <2>4 DEF QuickViewLoads, ProductLoads, AddSettles, CatalogueServed
  <2> QED BY <2>1, <2>2, <2>3, <2>4
<1>3. view'.page = view.page
  BY <1>2 DEF FiltersRight
<1>4. view.page = "products" => view'.params = view.params /\ view'.draft = view.draft
  BY <1>2 DEF FiltersRight
<1> QED BY <1>2, <1>3, <1>4, FiltersKept

LEMMA CatalogueSteps ==
    ASSUME FiltersRight, CatalogueNext PROVE FiltersRight'
BY EditStep, ApplyStep, ResetStep, RemoveStep, FiltersUntouched DEF CatalogueNext

LEMMA StepInCatalogue ==
    ASSUME [Next]_tab
    PROVE  /\ area' = area
           /\ area = "catalogue" => \/ CatalogueNext \/ RequestLost \/ OrphanLost
                                     \/ UNCHANGED tab
BY DEF Next, In, RequestLost, OrphanLost, Resting, tab

\* What the visitor chose in the filters survives its way through the address.
THEOREM FiltersAlwaysKept == Spec => []AddressKeepsFilters
<1> DEFINE Inv == area = "catalogue" => FiltersRight
<1>1. Init => Inv
  BY FiltersStart DEF Init
<1>2. Inv /\ [Next]_tab => Inv'
  <2>1. FiltersRight /\ (RequestLost \/ OrphanLost \/ UNCHANGED tab) => FiltersRight'
    BY DEF RequestLost, OrphanLost, tab, FiltersRight
  <2> QED BY <2>1, StepInCatalogue, CatalogueSteps
<1>3. Inv => AddressKeepsFilters
  BY AddressRead DEF FiltersRight, AddressKeepsFilters
<1> QED BY <1>1, <1>2, <1>3, PTL DEF Spec

-----------------------------------------------------------------------------
(* The choice of a variant.                                                *)

\* A choice of a variant, with at least one piece.
ChoiceOf(c) ==
    /\ c = [ware |-> c.ware, stock |-> c.stock, colour |-> c.colour, size |-> c.size,
            quantity |-> c.quantity]
    /\ c.stock \in [Colours \X SizeSet -> Nat]
    /\ c.colour \in Colours /\ c.size \in SizeSet
    /\ c.quantity \in Nat \ {0}

Left(c) == c.stock[<<c.colour, c.size>>]

WithinStock(c) == ChoiceOf(c) /\ (Left(c) > 0 => c.quantity <= Left(c))

LEMMA FirstSize ==
    ASSUME NEW c, NEW colour, \E s \in SizeSet : InStock(c, colour, s)
    PROVE  FirstInStock(c, colour) \in SizeSet
<1> DEFINE R == {ss \in Nat \X Nat : ss[1] < ss[2]}
           K == {n \in DOMAIN Sizes : InStock(c, colour, Sizes[n])}
<1>1. IsWellFoundedOn(R, Nat)
  BY NatLessThanWellFounded DEF OpToRel
<1>2. DOMAIN Sizes = 1 .. Len(Sizes) /\ Len(Sizes) \in Nat
  BY VariantsStocked
<1>3. K \subseteq Nat /\ K # {}
  BY <1>2 DEF SizeSet
<1>4. PICK x \in K : \A y \in K : <<y, x>> \notin R
  <2> HIDE DEF R, K
  <2> QED BY <1>1, <1>3, WFMin
<1>5. \A m \in 1 .. x - 1 : ~InStock(c, colour, Sizes[m])
  <2> SUFFICES ASSUME NEW m \in 1 .. x - 1, InStock(c, colour, Sizes[m]) PROVE FALSE
    OBVIOUS
  <2>1. x \in 1 .. Len(Sizes) /\ m \in Nat /\ m < x /\ m \in 1 .. Len(Sizes)
    BY <1>2
  <2>2. m \in K /\ <<m, x>> \in R
    BY <1>2, <2>1
  <2> QED BY <1>4, <2>2
<1> DEFINE P(n) == /\ InStock(c, colour, Sizes[n])
                   /\ \A m \in 1 .. n - 1 : ~InStock(c, colour, Sizes[m])
           k == CHOOSE n \in DOMAIN Sizes : P(n)
<1>6. P(x) /\ x \in DOMAIN Sizes
  BY <1>5
<1>7. k \in DOMAIN Sizes
  <2> HIDE DEF P
  <2> QED BY <1>6
<1>8. FirstInStock(c, colour) = Sizes[k]
  BY DEF FirstInStock
<1> HIDE DEF k
<1> QED BY <1>7, <1>8 DEF SizeSet

LEMMA SelectedOfStock ==
    ASSUME NEW c, ChoiceOf(c)
    PROVE  ChoiceOf(SizeSelected(c)) /\ SizeSelected(c).quantity = c.quantity
<1>1. CASE ~InStock(c, c.colour, c.size) /\ \E s \in SizeSet : InStock(c, c.colour, s)
  <2> DEFINE s == FirstInStock(c, c.colour)
  <2>1. s \in SizeSet
    BY <1>1, FirstSize
  <2>2. SizeSelected(c) = [c EXCEPT !.size = s]
    BY <1>1 DEF SizeSelected
  <2> HIDE DEF s
  <2> QED BY <2>1, <2>2 DEF ChoiceOf
<1>2. CASE ~(~InStock(c, c.colour, c.size) /\ \E s \in SizeSet : InStock(c, c.colour, s))
  BY <1>2 DEF SizeSelected
<1> QED BY <1>1, <1>2

LEMMA ClampedToStock == ASSUME NEW c, ChoiceOf(c) PROVE WithinStock(Clamped(c))
<1>1. Left(c) \in Nat /\ c.quantity \in Nat \ {0}
  BY DEF Left, ChoiceOf
<1>2. CASE Left(c) > 0 /\ c.quantity > Left(c)
  <2>1. Clamped(c) = [c EXCEPT !.quantity = Left(c)]
    BY <1>2 DEF Clamped, Left
  <2>2. Left(c) \in Nat \ {0}
    BY <1>1, <1>2
  <2> DEFINE n == Left(c)
  <2>3. n \in Nat \ {0}
    BY <2>2
  <2>5. Clamped(c) = [c EXCEPT !.quantity = n] /\ Left(c) = n
    BY <2>1
  <2> HIDE DEF n
  <2>4. ChoiceOf([c EXCEPT !.quantity = n]) /\ Left([c EXCEPT !.quantity = n]) = Left(c)
    BY <2>3 DEF ChoiceOf, Left
  <2>6. [c EXCEPT !.quantity = n].quantity = n
    BY DEF ChoiceOf
  <2> QED BY <2>3, <2>4, <2>5, <2>6 DEF WithinStock
<1>3. CASE ~(Left(c) > 0 /\ c.quantity > Left(c))
  <2>1. Clamped(c) = c
    BY <1>3 DEF Clamped, Left
  <2> QED BY <1>1, <1>3, <2>1 DEF WithinStock
<1> QED BY <1>2, <1>3

LEMMA FirstIsChoice ==
    ASSUME NEW ware, NEW stock \in [Colours \X SizeSet -> Nat]
    PROVE  WithinStock(FirstChoice(ware, stock))
<1> DEFINE c0 == [ware |-> ware, stock |-> stock, colour |-> None, size |-> Sizes[1],
                  quantity |-> 1]
           sellable == {colour \in Colours : \E s \in SizeSet : InStock(c0, colour, s)}
           from == IF sellable = {} THEN Colours ELSE sellable
           colour == CHOOSE x \in from : TRUE
           c == [c0 EXCEPT !.colour = colour]
<1>1. FirstChoice(ware, stock) = SizeSelected(c)
  BY DEF FirstChoice
<1>2. Sizes[1] \in SizeSet
  BY VariantsStocked DEF SizeSet
<1>3. from # {} /\ from \subseteq Colours
  BY VariantsStocked
<1>4. colour \in Colours
  <2> HIDE DEF from
  <2> QED BY <1>3
<1> HIDE DEF colour
<1>5. ChoiceOf(c) /\ c.quantity = 1
  BY <1>2, <1>4 DEF ChoiceOf
<1> HIDE DEF c
<1>6. ChoiceOf(SizeSelected(c)) /\ SizeSelected(c).quantity = 1
  BY <1>5, SelectedOfStock
<1> QED BY <1>1, <1>6 DEF WithinStock, ChoiceOf, Left

\* What the API answers for a product is a stock; what the page of a product
\* asked for was within it.
AddRight(c) ==
    /\ (c.op = "product" /\ c.phase = "answered") =>
          c.ans \in [Colours \X SizeSet -> Nat]
    /\ (c.op = "add" /\ c.phase = "sent" /\ c.arg.by = "product") =>
          c.arg.quantity \in 1 .. c.arg.stock

PageChoice ==
    /\ "page" \in DOMAIN view
    /\ view.page = "product" =>
          "choice" \in DOMAIN view /\ (view.choice # None => WithinStock(view.choice))

StockShown ==
    /\ "stock" \in DOMAIN server /\ server.stock \in [Colours \X SizeSet -> Nat]
    /\ DOMAIN calls = Slots /\ \A i \in Slots : AddRight(calls[i])

LEMMA ShownPuts ==
    ASSUME StockShown, server' = server, NEW n, NEW c, calls' = [calls EXCEPT ![n] = c],
           AddRight(c)
    PROVE  StockShown'
BY DEF StockShown, AddRight

LEMMA ShownTakes ==
    ASSUME StockShown, server' = server, NEW i, Finish(i) PROVE StockShown'
<1>1. AddRight(NoCall)
  BY DEF AddRight, NoCall
<1> QED BY <1>1, ShownPuts DEF Finish

\* Anything but a product to add is asked for.
LEMMA ShownAsks ==
    ASSUME StockShown, server' = server, NEW op, NEW arg,
           Send(op, arg) \/ \E i \in Slots : Continue(i, op, arg),
           op = "add" => (arg.by = "product" => arg.quantity \in 1 .. arg.stock)
    PROVE  StockShown'
<1> DEFINE c == [op |-> op, arg |-> arg, phase |-> "sent"]
<1>1. PICK n : calls' = [calls EXCEPT ![n] = c]
  BY DEF Send, Sent, Continue
<1>2. AddRight(c)
  BY DEF AddRight
<1> HIDE DEF c
<1> QED BY <1>1, <1>2, ShownPuts

LEMMA ShownStart == ASSUME CatalogueInit PROVE PageChoice /\ StockShown
<1>1. /\ DOMAIN calls = Slots /\ \A i \in Slots : AddRight(calls[i])
  <2>1. DOMAIN NoCalls = Slots /\ \A i \in Slots : AddRight(NoCalls[i])
    BY DEF NoCalls, NoCall, AddRight
  <2>2. ASSUME NEW cs, DOMAIN cs = Slots, \A i \in Slots : AddRight(cs[i]),
               NEW op \in {"wishlist", "products", "product"}, NEW arg
        PROVE  /\ DOMAIN Sent(cs, op, arg) = Slots
               /\ \A i \in Slots : AddRight(Sent(cs, op, arg)[i])
    <3> DEFINE c == [op |-> op, arg |-> arg, phase |-> "sent"]
    <3>1. AddRight(c)
      BY DEF AddRight
    <3>2. Sent(cs, op, arg) = [cs EXCEPT ![NextSlot(cs)] = c]
      BY DEF Sent
    <3> HIDE DEF c
    <3> QED BY <2>2, <3>1, <3>2
  <2>3. \/ \E arg, more : calls = Sent(Sent(NoCalls, "wishlist", arg), "products", more)
        \/ \E op \in {"wishlist", "products", "product"} : \E arg : calls = Sent(NoCalls, op, arg)
    BY DEF CatalogueInit
  <2>4. CASE \E arg, more : calls = Sent(Sent(NoCalls, "wishlist", arg), "products", more)
    <3>1. PICK arg, more : calls = Sent(Sent(NoCalls, "wishlist", arg), "products", more)
      BY <2>4
    <3> DEFINE cs == Sent(NoCalls, "wishlist", arg)
    <3>2. DOMAIN cs = Slots /\ \A i \in Slots : AddRight(cs[i])
      BY <2>1, <2>2
    <3> HIDE DEF cs
    <3>3. /\ DOMAIN Sent(cs, "products", more) = Slots
          /\ \A i \in Slots : AddRight(Sent(cs, "products", more)[i])
      BY <2>2, <3>2
    <3> QED BY <3>1, <3>3 DEF cs
  <2>5. CASE \E op \in {"wishlist", "products", "product"} : \E arg :
                calls = Sent(NoCalls, op, arg)
    BY <2>1, <2>2, <2>5
  <2> QED BY <2>3, <2>4, <2>5
<1>2. "stock" \in DOMAIN server /\ server.stock \in StockShapes
  BY DEF CatalogueInit
<1>3. PageChoice
  BY DEF CatalogueInit, PageChoice, ListMounted, ProductMounted, WishlistMounted
<1> QED BY <1>1, <1>2, <1>3, VariantsStocked DEF StockShown

\* The choice is the visitor's, as the page renders it.
LEMMA ChoosingStep ==
    ASSUME PageChoice, StockShown, ChooseColour \/ ChooseSize \/ ChooseQuantity
    PROVE  PageChoice' /\ StockShown'
<1>1. calls' = calls /\ server' = server /\ "page" \in DOMAIN view
  BY DEF ChooseColour, ChooseSize, ChooseQuantity, Choose, PageChoice
<1>2. StockShown'
  BY <1>1 DEF StockShown
<1>3. PICK c : /\ view' = [Visited EXCEPT !.choice = Chosen(view, c)]
               /\ (view.page = "product" => ChoiceOf(c))
  <2> DEFINE d == view.choice
  <2>1. view.page = "product" => ChoiceOf(d)
    BY DEF ChooseColour, ChooseSize, ChooseQuantity, Choosing, PageChoice, WithinStock
  <2>2. CASE ChooseColour
    <3>1. PICK colour \in Colours : Choose([d EXCEPT !.colour = colour])
      BY <2>2 DEF ChooseColour
    <3>2. ChoiceOf(d) => ChoiceOf([d EXCEPT !.colour = colour])
      BY DEF ChoiceOf
    <3> QED BY <2>1, <3>1, <3>2 DEF Choose
  <2>3. CASE ChooseSize
    <3>1. PICK s \in SizeSet : Choose([d EXCEPT !.size = s])
      BY <2>3 DEF ChooseSize
    <3>2. ChoiceOf(d) => ChoiceOf([d EXCEPT !.size = s])
      BY DEF ChoiceOf
    <3> QED BY <2>1, <3>1, <3>2 DEF Choose
  <2>4. CASE ChooseQuantity
    <3>1. CASE d.quantity > 1 /\ Choose([d EXCEPT !.quantity = @ - 1])
      <4>1. ChoiceOf(d) => ChoiceOf([d EXCEPT !.quantity = @ - 1])
        BY <3>1 DEF ChoiceOf
      <4> QED BY <2>1, <3>1, <4>1 DEF Choose
    <3>2. CASE Choose([d EXCEPT !.quantity = @ + 1])
      <4>1. ChoiceOf(d) => ChoiceOf([d EXCEPT !.quantity = @ + 1])
        BY DEF ChoiceOf
      <4> QED BY <2>1, <3>2, <4>1 DEF Choose
    <3> QED BY <2>4, <3>1, <3>2 DEF ChooseQuantity
  <2> QED BY <2>2, <2>3, <2>4
<1>4. view'.page = view.page /\ DOMAIN view' = DOMAIN view
  BY <1>1, <1>3 DEF Visited
<1>5. view.page = "product" =>
         /\ "choice" \in DOMAIN view /\ view'.choice = Clamped(SizeSelected(c))
  BY <1>3 DEF Visited, Chosen, PageChoice
<1>6. view.page = "product" => WithinStock(Clamped(SizeSelected(c)))
  BY <1>3, SelectedOfStock, ClampedToStock
<1> QED BY <1>1, <1>2, <1>4, <1>5, <1>6 DEF PageChoice

LEMMA AddStep == ASSUME PageChoice, StockShown, AddToCart PROVE PageChoice' /\ StockShown'
<1> DEFINE c == view.choice
           arg == [by |-> view.page, variant |-> <<c.ware, c.colour, c.size>>,
                   quantity |-> c.quantity, stock |-> Left(c)]
<1>1. /\ Send("add", arg) /\ InStock(c, c.colour, c.size) /\ server' = server
      /\ (view.page = "product" => c # None)
      /\ view' = [Visited EXCEPT !.adding = TRUE]
  BY DEF AddToCart, Choosing, Left
<1>2. view.page = "product" => c.quantity \in 1 .. Left(c)
  <2> SUFFICES ASSUME view.page = "product" PROVE c.quantity \in 1 .. Left(c)
    OBVIOUS
  <2>1. WithinStock(c) /\ Left(c) > 0
    BY <1>1 DEF PageChoice, InStock, Left
  <2>2. c.quantity \in Nat \ {0} /\ Left(c) \in Nat /\ c.quantity <= Left(c)
    BY <2>1 DEF WithinStock, ChoiceOf, Left
  <2> HIDE DEF c
  <2> QED BY <2>2
<1>3. arg.by = view.page /\ arg.quantity = c.quantity /\ arg.stock = Left(c)
  OBVIOUS
<1> HIDE DEF c, arg
<1>4. StockShown'
  BY <1>1, <1>2, <1>3, ShownAsks
<1>5. PageChoice'
  BY <1>1 DEF PageChoice, Visited
<1> QED BY <1>4, <1>5

\* Nothing else touches the choice of a product's page but its loading.
LEMMA ChoiceUntouched ==
    ASSUME PageChoice, StockShown,
           \/ EditFilter \/ ApplyFilters \/ ResetFilters \/ RemoveFilter \/ LoadMore
           \/ ToggleWish \/ OpenQuickView \/ CloseQuickView \/ QuickViewTimer
           \/ \E i \in Slots :
                 \/ ListSettles(i) \/ WishlistLoads(i) \/ WishlistPageLoads(i)
                 \/ WishSettles(i) \/ QuickViewLoads(i) \/ AddSettles(i)
    PROVE  PageChoice' /\ StockShown'
<1>0. "page" \in DOMAIN view /\ server' = server
  BY DEF PageChoice, EditFilter, ApplyFilters, ResetFilters, RemoveFilter, Replace, LoadMore,
     ToggleWish, OpenQuickView, CloseQuickView, QuickViewTimer, ListSettles, WishlistLoads,
     WishlistPageLoads, WishSettles, QuickViewLoads, AddSettles
<1>1. /\ DOMAIN Visited = DOMAIN view
      /\ \A f \in {"page", "choice"} \cap DOMAIN view : Visited[f] = view[f]
  BY DEF Visited
<1>2. /\ view'.page = view.page /\ DOMAIN view' = DOMAIN view
      /\ view.page = "product" /\ "choice" \in DOMAIN view => view'.choice = view.choice
  <2>1. CASE EditFilter \/ ApplyFilters \/ ResetFilters \/ RemoveFilter
    BY <1>0, <1>1, <2>1 DEF EditFilter, ApplyFilters, ResetFilters, RemoveFilter, Replace
  <2>2. CASE LoadMore \/ ToggleWish \/ OpenQuickView \/ CloseQuickView \/ QuickViewTimer
    BY <1>0, <1>1, <2>2 DEF LoadMore, ToggleWish, OpenQuickView, CloseQuickView, QuickViewTimer
  <2>3. ASSUME NEW i \in Slots,
               \/ ListSettles(i) \/ WishlistLoads(i) \/ WishlistPageLoads(i)
               \/ WishSettles(i) \/ QuickViewLoads(i) \/ AddSettles(i)
        PROVE  /\ view'.page = view.page /\ DOMAIN view' = DOMAIN view
               /\ view.page = "product" /\ "choice" \in DOMAIN view
                     => view'.choice = view.choice
    BY <1>0, <1>1, <2>3 DEF ListSettles, WishlistLoads, WishlistPageLoads, WishSettles,
       QuickViewLoads, AddSettles
  <2> QED BY <2>1, <2>2, <2>3
<1>3. \/ calls' = calls
      \/ \E i \in Slots : Finish(i)
      \/ \E op \in {"products", "wish", "product"} : \E arg : Send(op, arg)
  <2>1. CASE EditFilter \/ ApplyFilters \/ ResetFilters \/ RemoveFilter
    BY <2>1 DEF EditFilter, ApplyFilters, ResetFilters, RemoveFilter, Replace
  <2>2. CASE LoadMore \/ ToggleWish \/ OpenQuickView \/ CloseQuickView \/ QuickViewTimer
    BY <2>2 DEF LoadMore, ToggleWish, OpenQuickView, CloseQuickView, QuickViewTimer
  <2>3. ASSUME NEW i \in Slots,
               \/ ListSettles(i) \/ WishlistLoads(i) \/ WishlistPageLoads(i)
               \/ WishSettles(i) \/ QuickViewLoads(i) \/ AddSettles(i)
        PROVE  Finish(i)
    BY <2>3 DEF ListSettles, WishlistLoads, WishlistPageLoads, WishSettles,
       QuickViewLoads, AddSettles
  <2> QED BY <2>1, <2>2, <2>3
<1>4. StockShown'
  <2>1. CASE calls' = calls
    BY <1>0, <2>1 DEF StockShown
  <2>2. ASSUME NEW op \in {"products", "wish", "product"}, NEW arg, Send(op, arg)
        PROVE  StockShown'
    BY <1>0, <2>2, ShownAsks
  <2> QED BY <1>0, <1>3, <2>1, <2>2, ShownTakes
<1> QED BY <1>0, <1>2, <1>4 DEF PageChoice

LEMMA LoadStep ==
    ASSUME PageChoice, StockShown, NEW i \in Slots, ProductLoads(i)
    PROVE  PageChoice' /\ StockShown'
<1>1. StockShown'
  BY ShownTakes, ShownAsks DEF ProductLoads
<1>2. CASE Throws(i, "product")
  <2>1. view' = view
    BY <1>2 DEF ProductLoads, Throws, Returns
  <2> QED BY <1>1, <2>1 DEF PageChoice
<1>3. CASE Returns(i, "product")
  <2> DEFINE c == FirstChoice(calls[i].arg.ware, calls[i].ans)
  <2>1. view' = [view EXCEPT !.choice = c] /\ view.page = "product"
    BY <1>3 DEF ProductLoads, Throws, Returns
  <2>2. WithinStock(c)
    BY <1>3, FirstIsChoice DEF StockShown, AddRight, Returns
  <2> HIDE DEF c
  <2>3. DOMAIN view' = DOMAIN view /\ view'.choice = c
    BY <2>1 DEF PageChoice
  <2>4. "page" \in DOMAIN view'
    BY <2>3 DEF PageChoice
  <2> QED BY <1>1, <2>1, <2>2, <2>3, <2>4 DEF PageChoice
<1> QED BY <1>2, <1>3 DEF ProductLoads

LEMMA ServedCatalogue ==
    ASSUME PageChoice, StockShown,
           (\E i \in Slots : CatalogueServed(i)) \/ RequestLost \/ OrphanLost
    PROVE  PageChoice' /\ StockShown'
<1>1. view' = view /\ "stock" \in DOMAIN server' /\ server'.stock = server.stock
  BY DEF CatalogueServed, RequestLost, OrphanLost, StockShown
<1>2. PICK i \in Slots :
         \/ \E ans : /\ Reply(i, ans)
                     /\ calls[i].op = "product" => ans = server.stock
         \/ Refuse(i) \/ Finish(i)
  BY DEF CatalogueServed, RequestLost, OrphanLost, Acted, Asked
<1>3. /\ DOMAIN calls' = Slots /\ \A j \in Slots \ {i} : calls'[j] = calls[j]
      /\ \/ calls'[i] = NoCall
         \/ calls'[i].phase = "failed"
         \/ /\ calls'[i].op = calls[i].op /\ calls'[i].phase = "answered"
            /\ calls[i].op = "product" => calls'[i].ans = server.stock
  BY <1>2 DEF StockShown, Reply, Refuse, Finish
<1>4. AddRight(calls'[i])
  BY <1>3 DEF StockShown, AddRight, NoCall
<1>5. StockShown'
  BY <1>1, <1>3, <1>4 DEF StockShown, AddRight
<1> QED BY <1>1, <1>5 DEF PageChoice

\* The page of a product asks for no more than it says is there: the quantity
\* follows the variant, and at least one piece is asked for.
THEOREM AddAlwaysWithinStock == Spec => []AddWithinStock
<1> DEFINE Inv == area = "catalogue" => PageChoice /\ StockShown
<1>1. Init => Inv
  BY ShownStart DEF Init
<1>2. Inv /\ [Next]_tab => Inv'
  <2>1. PageChoice /\ StockShown /\ UNCHANGED tab => PageChoice' /\ StockShown'
    BY DEF tab, PageChoice, StockShown
  <2>2. PageChoice /\ StockShown /\ CatalogueNext => PageChoice' /\ StockShown'
    BY ChoosingStep, AddStep, ChoiceUntouched, LoadStep, ServedCatalogue DEF CatalogueNext
  <2> QED BY <2>1, <2>2, StepInCatalogue, ServedCatalogue
<1>3. Inv => AddWithinStock
  BY DEF StockShown, AddRight, AddWithinStock, InFlight
<1> QED BY <1>1, <1>2, <1>3, PTL DEF Spec
=============================================================================
